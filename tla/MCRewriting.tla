---------------------------- MODULE MCRewriting -----------------------------
(* The code of a few small functions: every construct around a call in a   *)
(* try region, an N loop, and loops that are left, one of them from inside *)
(* a region.                                                               *)
EXTENDS Rewriting

Source == INSTANCE MCLowering WITH
    Shared <- {}, Fuel <- 0, Programs <- {}, program <- 0, phase <- 0, hazards <- {}

MCTapes    == {<<True, True, False>>, <<True, Raised>>, <<False, True>>}
MCBindings == {(X :> True) @@ (Index :> Unit)}

Compiled(body) ==
    Append(Source!Lower(body, [at |-> 1, kind |-> "module", local |-> FALSE], TRUE), Return)

Bodies ==
    LET call   == Source!Call
        counts == Source!NLoop(Source!Block(<<call, Source!Lit(Num(2))>>), Source!Assign(call))
        leaves == Source!Attempt(Source!If(call, Source!Continue, Source!Leave(call)))
    IN  Source!Around(Source!Attempt(call))
            \cup {counts, Source!WLoop(call, leaves),
                  Source!Block(<<Source!Attempt(Source!Assign(call)), Source!Var>>),
                  Source!WLoop(Source!Equal(call, Source!Lit(True)), Source!If(call, call, Source!Break))}

\* What the theorems assume of the code.
MCCodes == {c \in {Compiled(b) : b \in Bodies} : WellFormed(c) /\ ~JumpsIntoPair(c)}
=============================================================================
