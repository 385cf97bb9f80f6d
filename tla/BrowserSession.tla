--------------------------- MODULE BrowserSession ---------------------------
(***************************************************************************)
(* The browser host: the facade class WasmWqSession of wq-wasm/browser.js, *)
(* the wasm-bindgen core it guards (wq-wasm/src/lib.rs), and the part of   *)
(* Session and Vm (wqpl/src/session.rs, vm.rs, vm/debug.rs) that carries a *)
(* cooperative script evaluation from one slice to the next.               *)
(*                                                                         *)
(* JavaScript runs one synchronous section at a time, so an action is a    *)
(* section: from an event to the next await, or to the point where a core  *)
(* method calls back into JavaScript (the output callbacks).  Between two  *)
(* sections, and inside such a callback, user code may do anything the     *)
(* facade exports.                                                         *)
(***************************************************************************)
EXTENDS Integers, FiniteSets

CONSTANTS
  MaxEvals,     \* bound: asynchronous evaluations started on one session
  MaxRequests,  \* bound: input requests, and debugger pauses, issued by it
  MaxNotes,     \* bound: debugger notifications waiting at a time
  MaxItems      \* bound: code regions of one script

ASSUME BoundsAssumption ==
  /\ MaxEvals \in Nat \ {0}
  /\ MaxRequests \in Nat
  /\ MaxNotes \in Nat
  /\ MaxItems \in Nat

\* Identifiers count from 1 here; 0 stands for the null of a field.
NoEval == 0
NoId == 0
EvalIds == 1 .. MaxEvals
Ids == 1 .. MaxRequests
Phases == {"none", "top", "slice", "note", "input", "pause", "yield"}
Statuses == {"ready", "paused", "yielded"}
Wakes == {"none", "value", "error", "abort", "dispose"}
Outcomes == {"none", "value", "error", "aborted", "disposed"}

VARIABLES
  js,    \* the private fields of the facade
  core,  \* the wasm core, its Session and its Vm
  run,   \* the eval_wq_async call that is between its first and last line
  host   \* the core method whose callbacks are running: none, call or slice

vars == <<js, core, run, host>>

(***************************************************************************)
(* The core.  "evaluation" is the RefCell of the wasm core, "token" is     *)
(* Session::active_script_evaluation; "fragment" and "left" are fields of  *)
(* the ScriptEvaluation; "frees" counts calls of the generated free().     *)
(***************************************************************************)
InitCore ==
  [evaluation |-> NoEval, token |-> NoEval, fragment |-> FALSE, left |-> 0,
   input |-> NoId, nextInput |-> 1, pause |-> NoId, nextPause |-> 1,
   hostError |-> FALSE, halted |-> FALSE, notes |-> 0, frees |-> 0]

\* Vm::reset_with_prepared_instructions: a request, a pause or an error that
\* was pending belongs to the code that is replaced.  The halt reason stays.
LoadInstructions(c) ==
  [c EXCEPT !.input = NoId, !.pause = NoId, !.hostError = FALSE]

\* Session::reset_execution_state.
ResetExecution(c) ==
  [LoadInstructions(c) EXCEPT !.token = NoEval, !.halted = FALSE, !.notes = 0]

\* Session::start_script_evaluation through start_eval_wq_named.
StartEvaluation(c, e, items) ==
  [c EXCEPT !.evaluation = e, !.token = e, !.fragment = FALSE, !.left = items]

\* The evaluation ends inside a poll: the session drops its token and the core
\* takes the ScriptEvaluation out of its cell.
EndEvaluation(c) ==
  [c EXCEPT !.evaluation = NoEval, !.token = NoEval,
            !.fragment = FALSE, !.left = 0]

\* Slip: the evaluation is dropped without resetting the session.
CancelEvaluationOnly(c) ==
  [c EXCEPT !.evaluation = NoEval, !.token = NoEval, !.fragment = FALSE,
            !.left = 0]

\* cancel_eval_wq: the session is reset when the evaluation is still its own.
CancelEvaluation(c) ==
  IF c.evaluation = NoEval THEN c
  ELSE [(IF c.token = c.evaluation THEN ResetExecution(c) ELSE c)
          EXCEPT !.evaluation = NoEval, !.fragment = FALSE, !.left = 0]

\* One outcome of a poll: what run_eval_wq_slice returns, the core after it and
\* the request or pause it names.
Poll(status, c, ref) == [status |-> status, core |-> c, ref |-> ref]

\* What the interpreter loop can do once nothing is pending: use up its budget,
\* ask for input, pause, raise, halt through cliargs, or reach the end.
Running(c) ==
  {Poll("yielded", c, NoId)}
    \cup {Poll("awaiting", [c EXCEPT !.input = i, !.nextInput = i + 1], i) :
            i \in {c.nextInput} \cap Ids}
    \cup {Poll("paused", [c EXCEPT !.pause = i, !.nextPause = i + 1], i) :
            i \in {c.nextPause} \cap Ids}
    \cup {Poll("error", c, NoId), Poll("end", c, NoId),
          Poll("end", [c EXCEPT !.halted = TRUE], NoId)}

\* Vm: the order in which interpret_inner looks at what is pending.  An error
\* injected for a failed read may be caught by a try of the program.
Interpret(c) ==
  IF c.hostError
  THEN LET d == [c EXCEPT !.hostError = FALSE]
       IN  {Poll("error", d, NoId)} \cup (IF d.halted THEN {Poll("end", d, NoId)}
                                                      ELSE Running(d))
  ELSE IF c.input # NoId THEN {Poll("awaiting", c, c.input)}
  ELSE IF c.halted THEN {Poll("end", c, NoId)}
  ELSE IF c.pause # NoId THEN {Poll("paused", c, c.pause)}
  ELSE Running(c)

\* What the session makes of the outcome of a slice of the active fragment.
AfterFragment(p) ==
  LET c == p.core IN
  CASE p.status = "error" -> Poll("error", EndEvaluation(c), NoId)
    [] p.status = "end" /\ (c.halted \/ c.left = 0) ->
         Poll("ready", EndEvaluation(c), NoId)
    [] p.status = "end" /\ ~c.halted /\ c.left > 0 ->
         Poll("yielded", [c EXCEPT !.fragment = FALSE], NoId)
    [] OTHER -> p

\* Session::poll_script_evaluation under run_eval_wq_slice.  An item that does
\* not parse ends the evaluation; the others become the active fragment.
PollEvaluation(c) ==
  IF c.token # c.evaluation THEN {Poll("error", EndEvaluation(c), NoId)}
  ELSE IF c.fragment THEN {AfterFragment(p) : p \in Interpret(c)}
  ELSE IF c.left = 0 THEN {Poll("ready", EndEvaluation(c), NoId)}
  ELSE LET item == [c EXCEPT !.left = @ - 1]
           loaded == [LoadInstructions(item) EXCEPT !.fragment = TRUE]
       IN  {Poll("error", EndEvaluation(item), NoId)}
             \cup {AfterFragment(p) : p \in Interpret(loaded)}

\* resume_eval_wq_input and resume_eval_wq_debugger: the identifier must be the
\* one that is pending, else the core is unchanged and the call throws.
CanResumeInput(c, id) ==
  c.evaluation # NoEval /\ c.token = c.evaluation /\ c.input = id /\ id # NoId
ResumeInput(c, kind) ==
  [c EXCEPT !.input = NoId, !.hostError = (kind = "error")]

CanResumePause(c, id) ==
  c.evaluation # NoEval /\ c.token = c.evaluation /\ c.pause = id /\ id # NoId
ResumePause(c) == [c EXCEPT !.pause = NoId]

(***************************************************************************)
(* The facade.                                                             *)
(***************************************************************************)
InitJs ==
  [session |-> TRUE, activeCalls |-> 0, activeEvaluation |-> FALSE,
   activePauseId |-> NoId, disposeRequested |-> FALSE]

\* No evaluation in flight; "outcome" is how the last promise was settled.
InitRun ==
  [at |-> "none", eval |-> NoEval, stdin |-> FALSE, pauser |-> FALSE,
   notifier |-> FALSE, aborted |-> FALSE, wake |-> "none", ref |-> NoId,
   notes |-> 0, then |-> "yielded", outcome |-> "none"]

Settled(r, outcome) == [InitRun EXCEPT !.eval = r.eval, !.outcome = outcome]

World(j, c, r) == [js |-> j, core |-> c, run |-> r]

\* Slip: disposal does not wait for the calls on the stack.
CanFlushUnderCall(j) == j.disposeRequested /\ ~j.activeEvaluation /\ j.session

\* #flushDisposal.
CanFlush(j) ==
  /\ j.disposeRequested
  /\ j.activeCalls = 0
  /\ ~j.activeEvaluation
  /\ j.session
FlushDisposal(w) ==
  IF CanFlush(w.js)
  THEN World([w.js EXCEPT !.session = FALSE], [w.core EXCEPT !.frees = @ + 1], w.run)
  ELSE w

\* #requireSession and the refusal of every facade method, eval_wq_async
\* included, while an evaluation is active.  Slip: no such refusal.
MayCallUnguarded(j) == j.session /\ ~j.disposeRequested
MayCall(j) == j.session /\ ~j.disposeRequested /\ ~j.activeEvaluation

\* The end of #call and of #evaluationCall.
LeaveCall(w) ==
  FlushDisposal(World([w.js EXCEPT !.activeCalls = @ - 1], w.core, w.run))

\* The finally block of eval_wq_async.  It is reached with the evaluation
\* started; "finished" is set only when the result is about to be returned.
FinishEvaluation(w, finished, outcome) ==
  FlushDisposal(
    World([w.js EXCEPT !.activePauseId = NoId, !.activeEvaluation = FALSE],
          IF ~finished /\ w.js.session THEN CancelEvaluation(w.core) ELSE w.core,
          Settled(w.run, outcome)))

\* The listeners of awaitWithCancellation: the first of abort, disposal and the
\* user's promise settles the wait.  Slip: notifications are awaited without.
Listening(r) == r.at \in {"note", "input", "pause"} /\ r.wake = "none"
WakePauseOnly(r, how) ==
  IF Listening(r) /\ r.at # "note" THEN [r EXCEPT !.wake = how] ELSE r
Wake(r, how) == IF Listening(r) THEN [r EXCEPT !.wake = how] ELSE r

\* The finally block around the pause handler.  Slip: only a handler that
\* throws is left through it.
ForgetPauseNever(w) == w
ForgetPause(w) == World([w.js EXCEPT !.activePauseId = NoId], w.core, w.run)

\* What awaitWithCancellation finds when it is entered.
EntryWake(w) ==
  IF w.run.aborted THEN "abort"
  ELSE IF w.js.disposeRequested THEN "dispose" ELSE "none"

Await(w, at, ref) ==
  World(w.js, w.core, [w.run EXCEPT !.at = at, !.ref = ref, !.wake = EntryWake(w)])

\* The loop moves on to "at" with nothing to wait for.
GoOn(w, c, at) == World(w.js, c, [w.run EXCEPT !.at = at, !.wake = "none"])

\* What follows a poll when its notifications have been delivered.
Continue(w, status) ==
  CASE status = "ready" -> FinishEvaluation(w, TRUE, "value")
    [] status = "yielded" -> GoOn(w, w.core, "yield")
    [] status = "paused" /\ w.run.pauser ->
         Await(World([w.js EXCEPT !.activePauseId = w.run.ref], w.core, w.run),
               "pause", w.run.ref)
    [] status = "paused" /\ ~w.run.pauser ->
         IF CanResumePause(w.core, w.run.ref)
         THEN GoOn(w, ResumePause(w.core), "top")
         ELSE FinishEvaluation(w, FALSE, "error")

\* #deliverDebuggerNotifications takes every notification, then awaits the
\* callback for each of them in turn.
Deliver(w, status) ==
  IF w.run.notifier /\ w.core.notes > 0
  THEN Await(World(w.js, [w.core EXCEPT !.notes = 0],
                   [w.run EXCEPT !.notes = w.core.notes, !.then = status]),
             "note", w.run.ref)
  ELSE Continue(w, status)

\* The answer to an input request: sent to the core, which refuses an
\* identifier that is not pending.
Answer(w, kind) ==
  IF CanResumeInput(w.core, w.run.ref)
  THEN GoOn(w, ResumeInput(w.core, kind), "top")
  ELSE FinishEvaluation(w, FALSE, "error")

\* What eval_wq_async does with the result of a slice.
HandleSlice(w, p) ==
  LET v == World(w.js, p.core, [w.run EXCEPT !.ref = p.ref]) IN
  CASE p.status = "error" -> FinishEvaluation(v, FALSE, "error")
    [] p.status = "awaiting" ->
         IF v.run.stdin THEN Await(v, "input", p.ref) ELSE Answer(v, "error")
    [] OTHER -> Deliver(v, p.status)

Become(w) == js' = w.js /\ core' = w.core /\ run' = w.run
Now == World(js, core, run)

Init == js = InitJs /\ core = InitCore /\ run = InitRun /\ host = "none"

(***************************************************************************)
(* The evaluation loop.                                                    *)
(***************************************************************************)

\* eval_wq_async up to its first slice.  The core refuses to start inside a
\* callback of another call (its session is borrowed) or when the script has
\* loader directives; the signal may be aborted already.
EvalAsync(items, options, refused) ==
  /\ MayCall(js)
  /\ run.eval < MaxEvals
  /\ LET e == run.eval + 1
         r == [InitRun EXCEPT !.eval = e, !.stdin = options.stdin,
                 !.pauser = options.pauser, !.notifier = options.notifier,
                 !.at = "top"]
         entered == World([js EXCEPT !.activeEvaluation = TRUE], core, r)
     IN  IF refused # "none" \/ host = "call"
         THEN Become(FinishEvaluation(entered, TRUE,
                       IF refused = "aborted" THEN "aborted" ELSE "error"))
         ELSE Become(World(entered.js, StartEvaluation(core, e, items), r))
  /\ UNCHANGED host

\* The top of the loop: leave when disposal or abort was asked for, else enter
\* run_eval_wq_slice, whose output callbacks run user code.
EnterSlice ==
  /\ run.at = "top" /\ host = "none"
  /\ IF js.disposeRequested
     THEN Become(FinishEvaluation(Now, FALSE, "disposed")) /\ UNCHANGED host
     ELSE IF run.aborted
     THEN Become(FinishEvaluation(Now, FALSE, "aborted")) /\ UNCHANGED host
     ELSE /\ js' = [js EXCEPT !.activeCalls = @ + 1]
          /\ run' = [run EXCEPT !.at = "slice"]
          /\ host' = "slice"
          /\ UNCHANGED core

\* The slice returns; trackers may have recorded mutations meanwhile.
LeaveSlice ==
  /\ run.at = "slice"
  /\ \E p \in PollEvaluation(core), n \in core.notes .. MaxNotes :
       Become(HandleSlice(LeaveCall(Now),
                          Poll(p.status, [p.core EXCEPT !.notes = n], p.ref)))
  /\ host' = "none"

\* A task of the browser resumes a loop that yielded.
HostTask ==
  /\ run.at = "yield"
  /\ run' = [run EXCEPT !.at = "top"]
  /\ UNCHANGED <<js, core, host>>

\* A promise settled: the continuation after a notification callback.
WakeNote ==
  /\ run.at = "note" /\ run.wake # "none"
  /\ Become(
       CASE run.wake = "value" ->
              IF run.notes > 1
              THEN Await(World(js, core, [run EXCEPT !.notes = @ - 1]),
                         "note", run.ref)
              ELSE Continue(World(js, core, [run EXCEPT !.notes = 0]), run.then)
         [] run.wake = "error" -> FinishEvaluation(Now, FALSE, "error")
         [] run.wake = "abort" -> FinishEvaluation(Now, FALSE, "aborted")
         [] run.wake = "dispose" -> FinishEvaluation(Now, FALSE, "disposed"))
  /\ UNCHANGED host

\* After the stdin callback.  The catch block prefers disposal, then abort.
WakeInput ==
  /\ run.at = "input" /\ run.wake # "none"
  /\ \E kind \in IF run.wake = "value" THEN {"line", "eof", "error"}
                                       ELSE {"error"} :
       Become(
         CASE run.wake = "value" -> Answer(Now, kind)
           [] run.wake # "value" /\ js.disposeRequested ->
                FinishEvaluation(Now, FALSE, "disposed")
           [] run.wake # "value" /\ ~js.disposeRequested /\ run.aborted ->
                FinishEvaluation(Now, FALSE, "aborted")
           [] OTHER -> Answer(Now, kind))
  /\ UNCHANGED host

\* After the pause handler: its action resumes the pause, a value that is no
\* action throws; the inner finally block forgets the pause either way.
WakePause ==
  /\ run.at = "pause" /\ run.wake # "none"
  /\ LET forgotten == ForgetPause(Now) IN
     \E valid \in IF run.wake = "value" THEN BOOLEAN ELSE {FALSE} :
       Become(
         IF valid /\ CanResumePause(core, run.ref)
         THEN GoOn(forgotten, ResumePause(core), "top")
         ELSE FinishEvaluation(forgotten, FALSE,
                CASE run.wake = "abort" -> "aborted"
                  [] run.wake = "dispose" -> "disposed"
                  [] OTHER -> "error"))
  /\ UNCHANGED host

(***************************************************************************)
(* User code.                                                              *)
(***************************************************************************)

\* A facade method that runs wq code synchronously (eval_wq).  Inside a
\* callback of another such call the core answers that it is borrowed.
EnterEvalWq ==
  /\ MayCall(js)
  /\ host = "none"
  /\ js' = [js EXCEPT !.activeCalls = @ + 1]
  /\ host' = "call"
  /\ UNCHANGED <<core, run>>

LeaveEvalWq ==
  /\ host = "call"
  /\ host' = "none"
  /\ \E h \in {core.halted, TRUE} :
       Become(LeaveCall(
         World(js, [LoadInstructions(core) EXCEPT !.halted = h], run)))

\* A facade method that returns at once; reset_execution_state is the one that
\* touches what the evaluation is made of.  A borrowed core refuses it.
ResetCall ==
  /\ MayCall(js)
  /\ Become(LeaveCall(
       World([js EXCEPT !.activeCalls = @ + 1],
             IF host = "none" THEN ResetExecution(core) ELSE core, run)))
  /\ UNCHANGED host

\* free() and Symbol.dispose: at once when nothing runs, else when the last call or the evaluation
\* leaves.  Its abort signal rejects a promise that is awaited.
Free ==
  /\ js.session
  /\ ~js.disposeRequested
  /\ Become(FlushDisposal(
       World([js EXCEPT !.disposeRequested = TRUE], core, Wake(run, "dispose"))))
  /\ UNCHANGED host

\* The AbortController of the evaluation in flight.
Abort ==
  /\ run.at # "none" /\ ~run.aborted
  /\ run' = [Wake(run, "abort") EXCEPT !.aborted = TRUE]
  /\ UNCHANGED <<js, core, host>>

\* A user callback's promise settles while it is awaited.
SettleCallback ==
  /\ Listening(run)
  /\ \E how \in {"value", "error"} : run' = [run EXCEPT !.wake = how]
  /\ UNCHANGED <<js, core, host>>

\* A method of a debugger stop the user kept: #debuggerStop lets it reach the
\* core only under the identifier of the active pause.
StopMethod(id) ==
  /\ js.activePauseId = id
  /\ js.session
  /\ \E n \in {0, core.notes} : core' = [core EXCEPT !.notes = n]
  /\ UNCHANGED <<js, run, host>>

Options == [stdin : BOOLEAN, pauser : BOOLEAN, notifier : BOOLEAN]

LoopStep ==
  EnterSlice \/ LeaveSlice \/ HostTask \/ WakeNote \/ WakeInput \/ WakePause

UserStep ==
  \/ \E items \in 0 .. MaxItems, o \in Options,
        refused \in {"none", "directive", "aborted"} :
       EvalAsync(items, o, refused)
  \/ EnterEvalWq \/ ResetCall \/ Free \/ Abort \/ SettleCallback
  \/ \E id \in Ids : StopMethod(id)

Next == LoopStep \/ LeaveEvalWq \/ UserStep

\* Continuations, tasks and core methods are run by the browser and end; what
\* the user does, settling a promise included, is never promised.
Fairness == WF_vars(LoopStep) /\ WF_vars(LeaveEvalWq)

Spec == Init /\ [][Next]_vars /\ Fairness

(***************************************************************************)
(* Properties.                                                             *)
(***************************************************************************)

JsState == [session : BOOLEAN, activeCalls : 0 .. 1, activeEvaluation : BOOLEAN,
            activePauseId : Ids \cup {NoId}, disposeRequested : BOOLEAN]
CoreState == [evaluation : EvalIds \cup {NoEval}, token : EvalIds \cup {NoEval},
              fragment : BOOLEAN, left : 0 .. MaxItems, input : Ids \cup {NoId},
              nextInput : 1 .. MaxRequests + 1, pause : Ids \cup {NoId},
              nextPause : 1 .. MaxRequests + 1, hostError : BOOLEAN,
              halted : BOOLEAN, notes : 0 .. MaxNotes, frees : 0 .. 1]
RunState == [at : Phases, eval : EvalIds \cup {NoEval}, stdin : BOOLEAN,
             pauser : BOOLEAN, notifier : BOOLEAN, aborted : BOOLEAN,
             wake : Wakes, ref : Ids \cup {NoId}, notes : 0 .. MaxNotes,
             then : Statuses, outcome : Outcomes]

\* The shape of the state.
TypeOK ==
  /\ js \in JsState /\ core \in CoreState /\ run \in RunState
  /\ host \in {"none", "call", "slice"}

\* The wasm object is freed once, when no method of it is on the stack and no
\* evaluation holds it, and the facade keeps no pointer to a freed object.
\* (#flushDisposal, the reason the facade exists.)
DisposalIsSafe ==
  /\ core.frees <= 1
  /\ js.session <=> core.frees = 0
  /\ core.frees = 1 => host = "none" /\ run.at = "none"

\* Whatever way an evaluation ends - result, error, abort, disposal, in the
\* middle of a read or of a pause - it leaves nothing of itself in the session:
\* no token, no evaluation, no request, no pause, no error to be raised later.
\* (The finally block of eval_wq_async with cancel_script_evaluation.)
EvaluationLeavesNothing ==
  run.at = "none" =>
    /\ core.evaluation = NoEval /\ core.token = NoEval
    /\ core.input = NoId /\ core.pause = NoId
    /\ ~core.hostError

\* While the loop is between two slices, the core is in the state the loop is
\* about to act on: the request it will answer, the pause it will resume.  So
\* no answer and no command is refused or reaches another request.
LoopAgreesWithCore ==
  /\ run.at \in {"top", "slice", "yield", "input", "pause"} =>
       core.evaluation = run.eval /\ core.token = run.eval
  /\ run.at = "input" => core.input = run.ref /\ run.ref # NoId
  /\ run.at = "pause" => core.pause = run.ref /\ run.ref # NoId
  /\ run.at = "note" /\ run.then = "paused" => core.pause = run.ref

\* A debugger stop object works exactly while the core is paused at its pause
\* and the handler that was given the stop has not been left.
StopsAreCurrent ==
  js.activePauseId # NoId =>
    /\ run.at = "pause"
    /\ core.pause = js.activePauseId

\* A request or a pause is answered at most once, in the order they were made,
\* and one that was abandoned is never answered later.
IdsMoveOn ==
  [][/\ core'.input # core.input /\ core'.input # NoId
          => core.input = NoId /\ core'.input = core.nextInput
     /\ core'.pause # core.pause /\ core'.pause # NoId
          => core'.pause = core.nextPause
     /\ core'.nextInput >= core.nextInput
     /\ core'.nextPause >= core.nextPause]_vars

\* free() is honoured however the user's callbacks behave.
FreeCompletes == js.disposeRequested ~> core.frees = 1

\* So is the abort signal: the promise of the evaluation settles.
AbortSettles == (run.at # "none" /\ run.aborted) ~> run.at = "none"

\* The facade implements the promise of SessionHandle, deferred close included.
Handle == INSTANCE SessionHandle WITH
  phase <- IF core.frees > 0 THEN "freed"
           ELSE IF host # "none" \/ run.at # "none" THEN "busy" ELSE "idle",
  closing <- js.disposeRequested

HandleSpec == Handle!Spec

\* README.md of wq-wasm: aborting an evaluation leaves the session ready for
\* another one, that is, not halted.
AbortLeavesSessionReady ==
  [][run.at # "none" /\ run'.at = "none" /\ run'.outcome = "aborted"
       => ~core'.halted]_vars
=============================================================================
