---------------------------- MODULE MCLoadGraph -----------------------------
(* LoadGraph for TLC: two files, one of them under two names. *)
EXTENDS LoadGraph
CONSTANTS f, g, link
TheFile == [p \in {f, g, link} |-> IF p = link THEN f ELSE p]
=============================================================================
