-------------------------- MODULE ReplTurns_proofs --------------------------
(***************************************************************************)
(* The safety properties of ReplTurns, proved for any choice of front      *)
(* ends, any number of turns and any number of signals.                    *)
(***************************************************************************)
EXTENDS ReplTurns, TLAPS

\* The controller is armed exactly while an evaluation is inside its guard.
GuardInv ==
  /\ at \in {"prompt", "dropped"} => active = "none"
  /\ at \in {"running", "finished"} => active # "none"

\* A flag and an interrupted Vm have a cause in this turn, and neither is left
\* when the turn is over.
FlagInv ==
  /\ flag \/ halt = "interrupted" => Asked
  /\ at = "prompt" => ~flag /\ halt # "interrupted"

\* What the Vm stopped for is what the front end will find: until the turn is
\* reported the halt reason is still there.
StopInv ==
  /\ stopped = "interrupted" => report # "result"
  /\ stopped = "interrupted" /\ at \in {"finished", "dropped"} =>
       halt = "interrupted"
  /\ stopped = "status" /\ at \in {"finished", "dropped"} => halt = "status"
  /\ at = "running" => stopped = "none"
  /\ at \in {"running", "finished", "dropped"} => report = "none"
  /\ report = "interrupted" => Asked
  /\ active = "requested" => "ctrl-c" \in causes

\* With an exec host nothing precedes its only turn.
CodeInv ==
  /\ code # "none" => at = "exited"
  /\ host = "exec" /\ halt = "status" => "cliargs" \in causes
  /\ host = "exec" /\ at = "prompt" => halt = "none"
  /\ ExitCodeIsTrue

IInv == TypeOK /\ GuardInv /\ FlagInv /\ StopInv /\ CodeInv

LEMMA InitIInv == Init => IInv
  BY HostsAssumption DEF Init, IInv, TypeOK, GuardInv, FlagInv, StopInv,
     CodeInv, ExitCodeIsTrue, Asked

\* Every action keeps the invariant: one step for each.
LEMMA StepIInv == IInv /\ [Next]_vars => IInv'
<1> SUFFICES ASSUME IInv, [Next]_vars PROVE IInv'
  OBVIOUS
<1> USE DEF IInv, TypeOK, GuardInv, FlagInv, StopInv, CodeInv, ExitCodeIsTrue,
        Asked
<1>1. CASE VmStops
  BY <1>1 DEF VmStops, Polled
<1>2. CASE VmInstruction
  <2>1. CASE halt' = "status" /\ causes' = causes \cup {"cliargs"} /\ flag' = flag
    BY <1>2, <2>1 DEF VmInstruction, Polled
  <2>2. CASE flag' = TRUE /\ causes' = causes \cup {"read"} /\ halt' = halt
    BY <1>2, <2>2 DEF VmInstruction, Polled
  <2>3. CASE UNCHANGED <<flag, halt, causes>>
    BY <1>2, <2>3 DEF VmInstruction, Polled
  <2>4. QED
    BY <1>2, <2>1, <2>2, <2>3 DEF VmInstruction
<1>3. CASE VmEnds
  BY <1>3 DEF VmEnds
<1>4. CASE Turn
  BY <1>4 DEF Turn
<1>5. CASE DropGuard
  BY <1>5 DEF DropGuard, Disarmed
<1>6. CASE ReplReports
  BY <1>6 DEF ReplReports, TakesInterrupt, HaltAfterTake
<1>7. CASE ExecReports
  BY <1>7 DEF ExecReports, ExitCode, TakesInterrupt, HaltAfterTake
<1>8. CASE SignalInactive
  BY <1>8 DEF SignalInactive, TakesSignal
<1>9. CASE SignalRequested
  BY <1>9 DEF SignalRequested, TakesSignal, Escalates
<1>10. CASE SignalEscalates
  BY <1>10 DEF SignalEscalates, TakesSignal, Escalates
<1>14. CASE SignalExits
  BY <1>14 DEF SignalExits
<1>11. CASE Press
  BY <1>11 DEF Press
<1>12. CASE Reset
  BY <1>12 DEF Reset
<1>13. CASE UNCHANGED vars
  BY <1>13 DEF vars
<1>15. QED
  BY <1>1, <1>2, <1>3, <1>4, <1>5, <1>6, <1>7, <1>8, <1>9, <1>10, <1>11, <1>12, <1>13,
     <1>14 DEF Next, MainThread, SignalThread

\* The invariant holds in every reachable state.
THEOREM InvariantTheorem == Spec => []IInv
<1>1. Init => IInv
  BY InitIInv
<1>2. IInv /\ [Next]_vars => IInv'
  BY StepIInv
<1>3. QED
  BY <1>1, <1>2, PTL DEF Spec

\* No interrupt survives its turn (the order of drop and take_interrupt in
\* repl.rs).
THEOREM PromptTheorem == Spec => []PromptIsClean
<1>1. IInv => PromptIsClean
  BY DEF IInv, GuardInv, FlagInv, PromptIsClean
<1>2. QED
  BY <1>1, InvariantTheorem, PTL

\* A turn is reported as interrupted only for a reason of its own, and never
\* shown as a result when an interrupt cut it short (Vm::take_interrupt).
THEOREM ReportTheorem == Spec => [](ReportIsTrue /\ NoPartialResult)
<1>1. IInv => ReportIsTrue /\ NoPartialResult
  BY DEF IInv, StopInv, Asked, ReportIsTrue, NoPartialResult
<1>2. QED
  BY <1>1, InvariantTheorem, PTL

\* The exit code of a script says what happened to it (exec.rs).
THEOREM ExitTheorem == Spec => []ExitCodeIsTrue
<1>1. IInv => ExitCodeIsTrue
  BY DEF IInv, CodeInv
<1>2. QED
  BY <1>1, InvariantTheorem, PTL

\* Only a second Ctrl-C of the same turn makes the signal thread exit, and without
\* it the process ends with the status of an interrupt only to report one
\* (InterruptState::request, apply_interrupt_action, exec.rs).
THEOREM KillTheorem == Spec => KilledOnlyBySecond
<1> DEFINE A ==
      /\ killing' /\ ~killing => "ctrl-c" \in causes /\ at \in {"running", "finished"}
      /\ code' = "130" /\ code # "130" => killing \/ report' = "interrupted"
<1>1. IInv /\ [Next]_vars => [A]_vars
  <2> SUFFICES ASSUME IInv, Next PROVE A
    OBVIOUS
  <2> USE DEF IInv, TypeOK, GuardInv, StopInv
  <2>1. CASE SignalEscalates
    BY <2>1 DEF SignalEscalates, TakesSignal, Escalates
  <2>2. CASE SignalExits
    BY <2>2 DEF SignalExits
  <2>3. CASE ExecReports
    BY <2>3 DEF ExecReports, ExitCode
  <2>4. CASE UNCHANGED <<killing, code>>
    BY <2>4
  <2>5. QED
    BY <2>1, <2>2, <2>3, <2>4 DEF Next, MainThread, SignalThread, VmStops,
       VmInstruction, VmEnds, Turn, DropGuard, ReplReports, SignalInactive,
       SignalRequested, TakesSignal, Press, Reset
<1>2. QED
  BY <1>1, InvariantTheorem, PTL DEF Spec, KilledOnlyBySecond
=============================================================================
