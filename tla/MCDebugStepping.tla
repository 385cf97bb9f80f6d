--------------------------- MODULE MCDebugStepping ---------------------------
\* One function of three instructions on two lines, called from the items of a
\* script and from itself.
EXTENDS DebugStepping

MCLineOf == (0 :> 1) @@ (1 :> 1) @@ (2 :> 2)
MCBreakLocs == {<<"f", 0>>}
MCPauseLocs == {<<"f", 1>>}
=============================================================================
