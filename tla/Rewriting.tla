----------------------------- MODULE Rewriting ------------------------------
(***************************************************************************)
(* What a pass may not change: an execution of the rewritten code is that  *)
(* of the code it was made of, seen through a mapping of their machines.   *)
(***************************************************************************)
EXTENDS Passes

CONSTANTS Codes, Tapes, Bindings

VARIABLES
    code, tape, machine,    \* an execution of the code before the pass
    returning               \* history: it made a call whose value it returns

Original == INSTANCE Machine

----------------------------------------------------------------------------
(* Fusion *)

\* The machine stands between the two instructions of a pair.
HalfWay(c, m) == m.end = <<>> /\ m.pc > 1 /\ IsPair(c, m.pc - 1)

\* The same machine at the new addresses.
Readdressed(moves, m) ==
    [m EXCEPT !.pc = moves[@],
              !.tries = [k \in DOMAIN @ |-> [end |-> moves[@[k].end], base |-> @[k].base]]]

\* Code that is fused has no half way: it has done the second half as well.
AfterFusion(c, t, m) ==
    Readdressed(Moves(c), IF HalfWay(c, m) THEN Turn(c, t, m) ELSE m)

FusedCode == INSTANCE Machine WITH
    Codes <- {Fused(c) : c \in Codes}, code <- Fused(code),
    machine <- AfterFusion(code, tape, machine)

\* An execution of fused code is one of the code before: it makes the same
\* calls, binds the same variables and ends in the same way.
FusionImplements == FusedCode!Spec

----------------------------------------------------------------------------
(* Tail calls *)

\* A call that ends well where the other code has a tail call.
MakesTailCall(c, t, m) ==
    /\ m.end = <<>> /\ ~AtBoundary(m)
    /\ c[m.pc] # TailsRewritten(c)[m.pc]
    /\ m.stack # <<>> /\ Top(m) = Callee /\ Outcome(t, m.calls + 1) # Raised

HistoryInit == Original!Init /\ returning = FALSE
HistoryNext ==
    /\ Original!Next
    /\ returning' = (returning \/ MakesTailCall(code, tape, machine))
HistorySpec == HistoryInit /\ [][HistoryNext]_<<Original!state, returning>>

\* A tail call has returned when the call comes back.
AfterTailCall(m, returned) ==
    CASE ~returned                -> m
      [] returned /\ m.end = <<>> -> ReturnTop(m)
      [] returned /\ m.end # <<>> -> [m EXCEPT !.pc = @ - 1]

TailCode == INSTANCE Machine WITH
    Codes <- {TailsRewritten(c) : c \in Codes}, code <- TailsRewritten(code),
    machine <- AfterTailCall(machine, returning)

\* An execution of code with tail calls is one of the code without.
TailsImplement == TailCode!Spec
=============================================================================
