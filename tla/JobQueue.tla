------------------------------ MODULE JobQueue ------------------------------
(***************************************************************************)
(* What the IDE's evaluation queue promises: jobs, numbered as they are    *)
(* asked for, are served one at a time in that order, and a job that is    *)
(* cancelled while it waits is never served.                               *)
(***************************************************************************)
EXTENDS Naturals

VARIABLES waiting,  \* the jobs that may still be served
          busy,     \* the job being served, or 0
          issued    \* how many jobs were ever asked for

vars == <<waiting, busy, issued>>

Init == waiting = {} /\ busy = 0 /\ issued = 0

Ask ==
  /\ issued' = issued + 1
  /\ waiting' = waiting \cup {issued'}
  /\ UNCHANGED busy

Serve(j) ==
  /\ busy = 0 /\ \A k \in waiting : j <= k
  /\ busy' = j
  /\ waiting' = waiting \ {j}
  /\ UNCHANGED issued

Finish == busy # 0 /\ busy' = 0 /\ UNCHANGED <<waiting, issued>>

Cancel(j) ==
  /\ waiting' = waiting \ {j}
  /\ UNCHANGED <<busy, issued>>

Next == Ask \/ Finish \/ \E j \in waiting : Serve(j) \/ Cancel(j)

Spec == Init /\ [][Next]_vars
=============================================================================
