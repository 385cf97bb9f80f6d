------------------------------ MODULE VmStatus ------------------------------
(***************************************************************************)
(* The monitor shared by the two threads of `wq dap` (wq-cli/src/dap/      *)
(* thread.rs): the adapter thread reads DAP requests, the VM thread runs   *)
(* the script.  VmStatus is a mutex around the debuggee's state and the    *)
(* interrupt handle of its session, and a condition variable for the       *)
(* initial pause.  Each operator below is one critical section.            *)
(*                                                                         *)
(* Every launch makes a VmStatus of its own, so the monitor is a function  *)
(* of the launch.  The interrupt flag belongs to the session's VM          *)
(* (wqpl/src/vm.rs); the handle is another reference to it.                *)
(***************************************************************************)
EXTENDS Naturals

CONSTANT MaxLaunch          \* bound: launches the client asks for

ASSUME MaxLaunchAssumption == MaxLaunch \in Nat \ {0}

Vms == 1..MaxLaunch

VARIABLES
  state,        \* VmStatusInner.state
  handle,       \* VmStatusInner.interrupt.is_some()
  requested     \* Vm.interrupt_requested, the flag the handle raises

statusVars == <<state, handle, requested>>

VmState == {"Starting", "Paused", "Running", "Terminating", "Exited"}

\* The states no debugger operation may leave for a live one.
Doomed(v) == state[v] \in {"Terminating", "Exited"}

StatusTypeOK ==
  /\ state \in [Vms -> VmState]
  /\ handle \in [Vms -> BOOLEAN]
  /\ requested \in [Vms -> BOOLEAN]

StatusInit ==
  /\ state = [v \in Vms |-> "Starting"]
  /\ handle = [v \in Vms |-> FALSE]
  /\ requested = [v \in Vms |-> FALSE]

SetState(v, s) ==
  /\ state' = [state EXCEPT ![v] = s]
  /\ UNCHANGED <<handle, requested>>

\* Mutant: a handle installed after the request is not raised.
InstallInterruptLosesRequest(v) ==
  /\ handle' = [handle EXCEPT ![v] = TRUE]
  /\ UNCHANGED <<state, requested>>

\* A terminate request that came before there was a session to interrupt is
\* delivered here.
InstallInterrupt(v) ==
  /\ handle' = [handle EXCEPT ![v] = TRUE]
  /\ requested' = [requested EXCEPT ![v] = @ \/ Doomed(v)]
  /\ UNCHANGED state

\* Mutant: the exit of the VM is not looked at.
RequestTerminateOfExited(v) ==
  /\ state' = [state EXCEPT ![v] = "Terminating"]
  /\ requested' = [requested EXCEPT ![v] = @ \/ handle[v]]
  /\ UNCHANGED handle

RequestTerminate(v) ==
  IF state[v] = "Exited"
  THEN UNCHANGED statusVars
  ELSE /\ state' = [state EXCEPT ![v] = "Terminating"]
       /\ requested' = [requested EXCEPT ![v] = @ \/ handle[v]]
       /\ UNCHANGED handle

\* Mutant: the handler announces a stop it has not marked.
MarkPausedNot(v) == ~ Doomed(v) /\ UNCHANGED statusVars

\* mark_paused answering true; it answers false, and changes nothing, exactly
\* when Doomed(v).
MarkPaused(v) ==
  /\ ~ Doomed(v)
  /\ SetState(v, "Paused")

MarkRunning(v) ==
  SetState(v, IF Doomed(v) THEN state[v] ELSE "Running")

\* begin_resume answering true; it answers false, and changes nothing,
\* otherwise.
BeginResume(v) ==
  /\ state[v] = "Paused"
  /\ SetState(v, "Running")

\* Mutant: requests are queued for the next stop of a live VM.
SeesPauseToCome(v) == ~ Doomed(v)

\* What wait_until_paused decides on each look at the state; it decides
\* nothing while the VM is starting, and answers false when its two seconds
\* are over (the deadline is a step of the waiting thread).
SeesPause(v) == state[v] = "Paused"
GivesUp(v)   == state[v] \in {"Running", "Terminating", "Exited"}
=============================================================================
