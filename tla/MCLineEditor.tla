---------------------------- MODULE MCLineEditor ----------------------------
(* LineEditor for TLC: one entry of the history, one way to complete. *)
EXTENDS LineEditor
CONSTANTS a, b, nl
TheEntry == <<b, a>>
TheRest == <<a>>
=============================================================================
