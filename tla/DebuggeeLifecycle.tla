-------------------------- MODULE DebuggeeLifecycle --------------------------
(***************************************************************************)
(* What `wq dap` promises of the debuggees it launches, whatever threads   *)
(* and channels implement it.  A debuggee stops before it can be resumed,  *)
(* is never lost from a stop (Paused leads to Exited only through Running, *)
(* Terminating or the end of the process), and one told to terminate does  *)
(* nothing else but exit.                                                  *)
(***************************************************************************)
CONSTANT Vms
VARIABLE phase

Phases == {"Starting", "Paused", "Running", "Terminating", "Exited", "Killed"}

LifecycleTypeOK == phase \in [Vms -> Phases]

Init == phase = [v \in Vms |-> "Starting"]

Move(v, from, to) ==
  /\ phase[v] \in from
  /\ phase' = [phase EXCEPT ![v] = to]

Stop(v)      == Move(v, {"Starting", "Running"}, "Paused")
Resume(v)    == Move(v, {"Paused"}, "Running")
Terminate(v) == Move(v, {"Starting", "Paused", "Running"}, "Terminating")
Exit(v)      == Move(v, {"Starting", "Running", "Terminating"}, "Exited")

\* The process ends, and every debuggee with it.
Kill == phase' = [v \in Vms |-> "Killed"]

Next ==
  \/ \E v \in Vms : Stop(v) \/ Resume(v) \/ Terminate(v) \/ Exit(v)
  \/ Kill

Spec == Init /\ [][Next]_phase
=============================================================================
