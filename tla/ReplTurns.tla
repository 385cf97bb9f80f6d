----------------------------- MODULE ReplTurns -----------------------------
(***************************************************************************)
(* Ctrl-C and controlled halts on the command line: the signal thread of   *)
(* wq-cli/src/interrupt.rs, the turns of the REPL (wq-cli/src/repl.rs) or  *)
(* the single run of a script (wq-cli/src/exec.rs), and the interrupt flag *)
(* and halt reason of the Vm (wqpl/src/vm.rs) that they share.             *)
(***************************************************************************)

CONSTANT Hosts  \* the front ends considered: repl, exec

ASSUME HostsAssumption == Hosts \subseteq {"repl", "exec"}

VARIABLES
  host,     \* which front end runs
  at,       \* the front end: prompt, running, finished, dropped, exited
  active,   \* InterruptState::active: none, armed, or armed and requested
  pending,  \* a SIGINT the signal thread has not taken yet
  flag,     \* Vm::interrupt_requested
  halt,     \* Vm::halt_reason: none, interrupted, status
  raised,   \* what the evaluation returned is an error
  killing,  \* the signal thread has decided to exit, and has not exited yet
  report,   \* how the last turn was shown: none, interrupted, error, result, status
  code,     \* exit code of the process, "none" while it lives
  causes,   \* history: what has happened in this turn that may stop it
  stopped   \* history: what the Vm stopped this turn for, "none" if nothing

vars ==
  <<host, at, active, pending, flag, halt, raised, killing, report, code, causes, stopped>>

Init ==
  /\ host \in Hosts
  /\ at = "prompt" /\ active = "none" /\ pending = FALSE
  /\ flag = FALSE /\ halt = "none" /\ raised = FALSE /\ killing = FALSE
  /\ report = "none" /\ code = "none" /\ causes = {} /\ stopped = "none"

(***************************************************************************)
(* The Vm.                                                                 *)
(***************************************************************************)

\* Vm::poll_interrupt: the halt reason that results.  A status stays.  Slip:
\* the flag is not looked at.
PolledHaltOnly == halt
Polled == IF flag /\ halt = "none" THEN "interrupted" ELSE halt

\* Vm::take_interrupt: what it answers, and the halt reason it leaves.  It
\* always clears the flag.  Slips: only the flag counts; the reason is kept.
TakesFlagOnly == flag
TakesInterrupt == halt = "interrupted" \/ (halt = "none" /\ flag)
HaltAfterTakeKept == halt
HaltAfterTake == IF halt = "interrupted" THEN "none" ELSE halt

\* interpret_inner polls before every instruction and stops when halted.  When it
\* ran for a builtin in Rust, the builtin may fail on the value it finds.
VmStops ==
  /\ at = "running"
  /\ Polled # "none"
  /\ flag' = FALSE /\ halt' = Polled
  /\ stopped' = Polled
  /\ at' = "finished" /\ raised' \in BOOLEAN
  /\ UNCHANGED <<host, active, pending, killing, report, code, causes>>

\* An instruction: cliargs may ask for a halt, or a read may be interrupted at the
\* terminal (RuntimeInput).
VmInstruction ==
  /\ at = "running"
  /\ Polled = "none"
  /\ \/ halt' = "status" /\ causes' = causes \cup {"cliargs"}
        /\ UNCHANGED flag
     \/ flag' = TRUE /\ causes' = causes \cup {"read"}
        /\ UNCHANGED halt
     \/ UNCHANGED <<flag, halt, causes>>
  /\ UNCHANGED <<host, at, active, pending, raised, killing, report, code, stopped>>

\* The code ends or raises.  The loop looks whether an instruction is left
\* before it polls, so a flag that was just set stays for take_interrupt.
VmEnds ==
  /\ at = "running"
  /\ at' = "finished" /\ raised' \in BOOLEAN
  /\ UNCHANGED <<host, active, pending, flag, halt, killing, report, code, causes,
                 stopped>>

(***************************************************************************)
(* The front end.                                                          *)
(***************************************************************************)

\* A line is read, the guard is armed and the evaluation entered.  Exec runs
\* its script once.
Turn ==
  /\ at = "prompt"
  /\ at' = "running"
  /\ active' = "armed"
  /\ causes' = {} /\ stopped' = "none" /\ report' = "none" /\ raised' = FALSE
  /\ UNCHANGED <<host, pending, flag, halt, killing, code>>

\* InterruptGuard::drop.  Slip: the controller stays armed.
DisarmedNever == active
Disarmed == "none"

DropGuard ==
  /\ at = "finished"
  /\ active' = Disarmed
  /\ at' = "dropped"
  /\ UNCHANGED <<host, pending, flag, halt, raised, killing, report, code, causes,
                 stopped>>

\* report_interrupted_turn of the REPL, then the result or the error.
ReplReports ==
  /\ at = "dropped" /\ host = "repl"
  /\ flag' = FALSE /\ halt' = HaltAfterTake
  /\ report' = CASE TakesInterrupt -> "interrupted"
                 [] ~TakesInterrupt /\ raised -> "error"
                 [] OTHER -> "result"
  /\ at' = "prompt"
  /\ UNCHANGED <<host, active, pending, raised, killing, code, causes, stopped>>

\* What the process answers when the script is over.  The status of a halt is
\* only taken from an evaluation that did not fail.
ExitCode ==
  CASE TakesInterrupt -> "130"
    [] ~TakesInterrupt /\ raised -> "1"
    [] ~TakesInterrupt /\ ~raised /\ halt = "status" -> "status"
    [] OTHER -> "0"

ExecReports ==
  /\ at = "dropped" /\ host = "exec"
  /\ flag' = FALSE
  /\ halt' = CASE ExitCode = "130" -> HaltAfterTake
               [] ExitCode = "status" -> "none"
               [] OTHER -> halt
  /\ report' = CASE ExitCode = "130" -> "interrupted"
                 [] ExitCode = "1" -> "error"
                 [] ExitCode = "status" -> "status"
                 [] OTHER -> "result"
  /\ code' = ExitCode
  /\ at' = "exited"
  /\ UNCHANGED <<host, active, pending, raised, killing, causes, stopped>>

\* \reset and \r: Session::reset_workspace.
Reset ==
  /\ at = "prompt" /\ host = "repl"
  /\ flag' = FALSE /\ halt' = "none"
  /\ UNCHANGED <<host, at, active, pending, raised, killing, report, code, causes,
                 stopped>>

(***************************************************************************)
(* Ctrl-C.                                                                 *)
(***************************************************************************)

\* The user presses Ctrl-C; signals that wait are one signal.
Press ==
  /\ at # "exited" /\ ~pending
  /\ pending' = TRUE
  /\ UNCHANGED <<host, at, active, flag, halt, raised, killing, report, code, causes,
                 stopped>>

\* Does this request escalate?  Slip: whenever something is armed.
EscalatesAlways == active # "none"
Escalates == active = "requested"

\* The signal thread takes it, unless it is about to exit.
TakesSignal ==
  /\ pending /\ at # "exited" /\ ~killing
  /\ pending' = FALSE
  /\ UNCHANGED <<host, at, halt, raised, report, code, stopped>>

\* InterruptState::request, one critical section.
SignalInactive ==
  /\ TakesSignal /\ active = "none"
  /\ UNCHANGED <<active, flag, killing, causes>>

SignalRequested ==
  /\ TakesSignal /\ active # "none" /\ ~Escalates
  /\ active' = "requested"
  /\ flag' = TRUE
  /\ causes' = causes \cup {"ctrl-c"}
  /\ UNCHANGED killing

SignalEscalates ==
  /\ TakesSignal /\ Escalates
  /\ killing' = TRUE
  /\ UNCHANGED <<active, flag, causes>>

\* apply_interrupt_action, after the lock is released: the process exits with
\* status 130, wherever the main thread has got to meanwhile.
SignalExits ==
  /\ killing /\ at # "exited"
  /\ at' = "exited" /\ code' = "130"
  /\ UNCHANGED <<host, active, pending, flag, halt, raised, killing, report, causes,
                 stopped>>

SignalThread == SignalInactive \/ SignalRequested \/ SignalEscalates \/ SignalExits
MainThread ==
  VmStops \/ VmInstruction \/ VmEnds \/ Turn \/ DropGuard \/ ReplReports \/ ExecReports
Next == MainThread \/ SignalThread \/ Press \/ Reset

\* Both threads are scheduled; the user need not do anything more.
Spec ==
  /\ Init /\ [][Next]_vars
  /\ WF_vars(SignalThread)
  /\ WF_vars(VmStops)
  /\ WF_vars(DropGuard \/ ReplReports \/ ExecReports)

(***************************************************************************)
(* Properties.                                                             *)
(***************************************************************************)

\* The shape of the state.
TypeOK ==
  /\ host \in {"repl", "exec"}
  /\ at \in {"prompt", "running", "finished", "dropped", "exited"}
  /\ active \in {"none", "armed", "requested"}
  /\ {pending, flag, raised, killing} \subseteq BOOLEAN
  /\ halt \in {"none", "interrupted", "status"}
  /\ report \in {"none", "interrupted", "error", "result", "status"}
  /\ code \in {"none", "130", "status", "0", "1"}
  /\ causes \subseteq {"cliargs", "read", "ctrl-c"}
  /\ stopped \in {"none", "interrupted", "status"}

\* No interrupt survives the turn it was requested in: at the prompt nothing is
\* armed, no flag is set and the Vm is not halted by an interrupt, so the next
\* line runs.  (The guard is dropped before take_interrupt reads the flag.)
PromptIsClean ==
  at = "prompt" => active = "none" /\ ~flag /\ halt # "interrupted"

\* An interrupt was requested in this turn.
Asked == "ctrl-c" \in causes \/ "read" \in causes

\* A turn is reported as interrupted only if Ctrl-C, at the terminal or in a
\* read, was seen during that turn.
ReportIsTrue ==
  report = "interrupted" => Asked

\* A turn the Vm cut short because of an interrupt is never shown as a result.
NoPartialResult == stopped = "interrupted" => report # "result"

\* The process is killed only by a second Ctrl-C that found the first one of the
\* same turn still unanswered; that turn may be over when the process exits.  Of
\* its own accord it exits with the status of an interrupt only to report one.
KilledOnlyBySecond ==
  [][/\ killing' /\ ~killing => "ctrl-c" \in causes /\ at \in {"running", "finished"}
     /\ code' = "130" /\ code # "130" => killing \/ report' = "interrupted"]_vars

\* An exit code is the one of what happened: the status for cliargs, 130 for an
\* interrupt, and success only for a script that was not stopped.
ExitCodeIsTrue ==
  /\ code = "status" => "cliargs" \in causes
  /\ code = "130" => killing \/ Asked
  /\ code = "0" => stopped = "none"

\* A Ctrl-C pressed while code runs stops that code, even code that would run
\* for ever, unless it was over already.
InterruptStopsCode == at = "running" /\ flag ~> at # "running"

\* The documentation of cliargs says that it halts the evaluation that calls
\* it: code stops by a halt only when this turn has seen a cause for one.
StopsForOwnReason == stopped = "status" => "cliargs" \in causes
=============================================================================
