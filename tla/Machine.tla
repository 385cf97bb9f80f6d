------------------------------ MODULE Machine -------------------------------
(***************************************************************************)
(* The execution of a code (VanillaInterpreter::interpret_inner), one turn *)
(* of the interpreter's loop after the other, until it ends.               *)
(***************************************************************************)
CONSTANTS
    Codes,          \* codes that are executed
    Tapes,          \* what the calls of f may do
    Bindings,       \* values of the variables an execution finds
    Start(_),       \* the machine of an activation, and what a turn
    Turn(_, _, _)   \* of the interpreter makes of it

VARIABLES code, tape, machine

state == <<code, tape, machine>>

Init ==
    /\ code \in Codes /\ tape \in Tapes
    /\ \E b \in Bindings : machine = Start(b)

Next ==
    /\ machine.end = <<>>
    /\ machine' = Turn(code, tape, machine)
    /\ UNCHANGED <<code, tape>>

Spec == Init /\ [][Next]_state
=============================================================================
