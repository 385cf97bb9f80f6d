----------------------------- MODULE EvalQueue -----------------------------
(***************************************************************************)
(* Evaluations of the IDE (wqide/js): the queue all views of the page      *)
(* share, the controller and the input requester each view has, a REPL     *)
(* view, which keeps a session between its runs, and a plot view, which    *)
(* opens one per run and runs again whenever its controls change.          *)
(*                                                                         *)
(* An action is one turn of the event loop or one promise reaction.  All   *)
(* reactions are run before the next event (Quiet).                        *)
(***************************************************************************)
EXTENDS Naturals, Sequences

CONSTANTS Repls,      \* views with a session of their own: repl.js, book-repl.js
          Plots,      \* views that follow their controls: viz.js
          MaxJobs,    \* bound: evaluations started on the page
          MaxChanges  \* bound: changes of the controls of a plot

\* A view is of one kind.
ASSUME ViewsAssumption == Repls \cap Plots = {}
ASSUME BoundsAssumption == MaxJobs \in Nat /\ MaxChanges \in Nat

Views == Repls \cup Plots

VARIABLES
  jobs,     \* every evaluation started: its view, its signal and its task
  chain,    \* evalQueue: the tasks that have not settled, in their order
  run,      \* "run" of each view's controller: its job, or 0
  shown,    \* the state the controller told the view last
  request,  \* "active" of each view's input requester: the asking job, or 0
  repl,     \* the session, and the reset or the closing of a REPL view
  plot      \* the controls, the timer and the output of a plot view

vars == <<jobs, chain, run, shown, request, repl, plot>>

Asleep == {"awaiting-input", "paused"}
Body == Asleep \cup {"running"}

Init ==
  /\ jobs = <<>> /\ chain = <<>>
  /\ run = [v \in Views |-> 0]
  /\ shown = [v \in Views |-> "idle"]
  /\ request = [v \in Views |-> 0]
  /\ repl = [v \in Repls |->
       [session |-> 0, opened |-> 0, resetRequested |-> FALSE, closed |-> FALSE]]
  /\ plot = [v \in Plots |->
       [version |-> 0, autoRun |-> TRUE, timer |-> FALSE, pendingRun |-> FALSE,
        output |-> 0, silenced |-> FALSE]]

Running(v) == run[v] # 0
JobOf(v) == jobs[run[v]]

(***************************************************************************)
(* Promise reactions.                                                      *)
(***************************************************************************)
\* Slip: the callback does not look at the signal.
StartUnchecked(r) == FALSE

\* The callback throws instead of starting a task whose signal was aborted
\* while it waited.
StartRefused(r) == jobs[r].aborted

AtHead(r) == chain # <<>> /\ r = Head(chain)

\* The evaluation settles, and with it the link of the chain.
Ends(r, how) ==
  /\ jobs' = [jobs EXCEPT ![r].at = how]
  /\ chain' = Tail(chain)

\* The code and, for a REPL, the session are read when the task begins.
StartNext(r) ==
  /\ AtHead(r) /\ jobs[r].at = "queued"
  /\ IF StartRefused(r)
     THEN Ends(r, "dropped") /\ UNCHANGED <<shown, repl>>
     ELSE LET v == jobs[r].view IN
       /\ shown' = [shown EXCEPT ![v] = "running"]
       /\ IF v \in Repls
          THEN /\ repl' = IF repl[v].session # 0 THEN repl
                          ELSE [repl EXCEPT ![v].opened = @ + 1,
                                            ![v].session = repl[v].opened + 1]
               /\ jobs' = [jobs EXCEPT ![r].at = "running",
                                       ![r].uses = repl'[v].session]
          ELSE /\ jobs' = [jobs EXCEPT ![r].at = "running",
                                       ![r].uses = plot[v].version]
               /\ UNCHANGED repl
       /\ UNCHANGED chain
  /\ UNCHANGED <<run, request, plot>>

\* Slip: the end of a wait reports the run as running again in any case.
WakeRunning(v) == "running"

\* The finally of a wait for input or for the debugger says that the run goes
\* on, unless its signal was aborted.
WakeState(v) == IF JobOf(v).aborted THEN shown[v] ELSE "running"

\* An abort rejects what the evaluation waits for, and that ends it.
Unwind(r) ==
  /\ AtHead(r) /\ jobs[r].aborted /\ jobs[r].at \in Asleep
  /\ Ends(r, "failed")
  /\ shown' = [shown EXCEPT ![jobs[r].view] = WakeState(jobs[r].view)]
  /\ UNCHANGED <<run, request, repl, plot>>

\* Slip: only the chain tells the caller that its job was given up.
SettledByChain(v) == JobOf(v).at \in {"done", "failed", "dropped"}

\* Promise.race: the evaluation, or the abort of one that has not started.
Settled(v) ==
  \/ JobOf(v).at \in {"done", "failed", "dropped"}
  \/ JobOf(v).at = "queued" /\ JobOf(v).aborted

\* Slip: what changed during the run is forgotten with it.
ForgetPending(p) == [p EXCEPT !.pendingRun = FALSE]

\* The finally of runViz.
Reschedule(p) ==
  IF p.pendingRun /\ p.autoRun
  THEN [p EXCEPT !.pendingRun = FALSE, !.timer = TRUE] ELSE p

\* resetSession, when no evaluation is active.
FreshSession(q) == [q EXCEPT !.session = 0, !.resetRequested = FALSE]

\* The caller's await returns or throws: the controller is idle again, then the
\* view shows the outcome and does what was put off until now.
Settle(v) ==
  /\ Running(v) /\ Settled(v)
  /\ run' = [run EXCEPT ![v] = 0]
  /\ shown' = [shown EXCEPT ![v] = "idle"]
  /\ IF v \in Repls
     THEN /\ repl' = IF repl[v].resetRequested
                     THEN [repl EXCEPT ![v] = FreshSession(@)] ELSE repl
          /\ UNCHANGED plot
     ELSE /\ plot' = [plot EXCEPT ![v] = Reschedule(
                        IF JobOf(v).at = "done" THEN [@ EXCEPT !.output = JobOf(v).uses]
                        ELSE @)]
          /\ UNCHANGED repl
  /\ UNCHANGED <<jobs, chain, request>>

Reaction ==
  \/ \E r \in DOMAIN jobs : StartNext(r) \/ Unwind(r)
  \/ \E v \in Views : Settle(v)

\* No reaction is left to run.
Quiet ==
  /\ \A r \in DOMAIN jobs :
       AtHead(r) => ~(jobs[r].at = "queued"
                      \/ (jobs[r].at \in Asleep /\ jobs[r].aborted))
  /\ \A v \in Views : Running(v) => ~Settled(v)

(***************************************************************************)
(* Events.                                                                 *)
(***************************************************************************)
\* controller.run(queueEval(...)) of a view whose controller is idle.
Enqueue(v) ==
  /\ Len(jobs) < MaxJobs
  /\ jobs' = Append(jobs, [view |-> v, aborted |-> FALSE, at |-> "queued", uses |-> 0])
  /\ chain' = Append(chain, Len(jobs'))
  /\ run' = [run EXCEPT ![v] = Len(jobs')]
  /\ shown' = [shown EXCEPT ![v] = "queued"]
  /\ UNCHANGED request

\* controller.stop: the signal's listeners run at once, among them the one of a
\* pending input request.
Abort(v) ==
  /\ jobs' = [jobs EXCEPT ![run[v]].aborted = TRUE]
  /\ shown' = [shown EXCEPT ![v] = "stopping"]
  /\ request' = [request EXCEPT ![v] = 0]
  /\ UNCHANGED <<chain, run>>

StopIfRunning(v) ==
  IF Running(v) /\ ~JobOf(v).aborted THEN Abort(v)
  ELSE UNCHANGED <<jobs, shown, request, chain, run>>

\* The next slice of the task that runs: it ends, asks for input, or pauses.
\* (A slice that only yields changes nothing here.)
Slice(r) ==
  LET v == jobs[r].view IN
  /\ AtHead(r) /\ jobs[r].at = "running" /\ ~jobs[r].aborted
  /\ \/ Ends(r, "done") /\ UNCHANGED <<shown, request>>
     \/ /\ request[v] = 0
        /\ request' = [request EXCEPT ![v] = r]
        /\ jobs' = [jobs EXCEPT ![r].at = "awaiting-input"]
        /\ shown' = [shown EXCEPT ![v] = "awaiting-input"]
        /\ UNCHANGED chain
     \/ /\ v \in Repls
        /\ jobs' = [jobs EXCEPT ![r].at = "paused"]
        /\ shown' = [shown EXCEPT ![v] = "paused"]
        /\ UNCHANGED <<chain, request>>
  /\ UNCHANGED <<run, repl, plot>>

\* A slice that finds the signal aborted throws instead.
AbortedSlice(r) ==
  /\ AtHead(r) /\ jobs[r].at = "running" /\ jobs[r].aborted
  /\ Ends(r, "failed")
  /\ UNCHANGED <<run, shown, request, repl, plot>>

\* A line or the end of file for the request, or an answer of the debugger.
Answer(v) ==
  /\ Running(v) /\ JobOf(v).at \in Asleep
  /\ request' = [request EXCEPT ![v] = 0]
  /\ jobs' = [jobs EXCEPT ![run[v]].at = "running"]
  /\ shown' = [shown EXCEPT ![v] = WakeState(v)]
  /\ UNCHANGED <<chain, run, repl, plot>>

\* The form of a REPL view.
Submit(v) ==
  /\ ~Running(v) /\ Enqueue(v) /\ UNCHANGED <<repl, plot>>

\* The Stop button, which is disabled while the view shows "stopping".
Stop(v) ==
  /\ Running(v) /\ shown[v] # "stopping"
  /\ Abort(v)
  /\ plot' = IF v \in Repls THEN plot
             ELSE [plot EXCEPT ![v].pendingRun = FALSE, ![v].silenced = TRUE]
  /\ UNCHANGED repl

\* Mutant: a reset frees the session at once.
ResetAtOnce(v) ==
  /\ repl' = [repl EXCEPT ![v] = FreshSession(@)]
  /\ StopIfRunning(v)
  /\ UNCHANGED plot

\* resetSession: put off to the end of an evaluation it stops.
Reset(v) ==
  /\ repl' = [repl EXCEPT ![v] = IF Running(v) THEN [@ EXCEPT !.resetRequested = TRUE]
                                 ELSE FreshSession(@)]
  /\ StopIfRunning(v)
  /\ UNCHANGED plot

\* The page of a REPL view is left, which it reacts to once.
CloseRepl(v) ==
  /\ ~repl[v].closed
  /\ repl' = [repl EXCEPT ![v].closed = TRUE, ![v].session = 0]
  /\ StopIfRunning(v)
  /\ UNCHANGED plot

\* runViz: a run that is under way is superseded.
Supersede(v) ==
  /\ Running(v)
  /\ plot' = [plot EXCEPT ![v].timer = FALSE, ![v].pendingRun = TRUE]
  /\ StopIfRunning(v)
  /\ UNCHANGED repl

Replot(v) ==
  /\ ~Running(v)
  /\ plot' = [plot EXCEPT ![v].timer = FALSE, ![v].pendingRun = FALSE]
  /\ Enqueue(v)
  /\ UNCHANGED repl

TimerFires(v) == plot[v].timer /\ (Supersede(v) \/ Replot(v))

\* The Refresh button of a plot, which is its Stop button while it runs.
Refresh(v) ==
  /\ ~Running(v) /\ Len(jobs) < MaxJobs
  /\ plot' = [plot EXCEPT ![v].timer = FALSE, ![v].pendingRun = FALSE,
                          ![v].silenced = FALSE]
  /\ Enqueue(v)
  /\ UNCHANGED repl

\* updateView: a control other than the one for automatic runs changes.
Change(v) ==
  /\ plot[v].version < MaxChanges
  /\ plot' = [plot EXCEPT ![v].version = @ + 1, ![v].timer = plot[v].autoRun,
                          ![v].silenced = FALSE]
  /\ UNCHANGED <<jobs, chain, run, shown, request, repl>>

ToggleAutoRun(v) ==
  /\ plot' = [plot EXCEPT ![v].autoRun = ~@, ![v].timer = ~plot[v].autoRun,
                          ![v].silenced = FALSE]
  /\ UNCHANGED <<jobs, chain, run, shown, request, repl>>

\* The page of a plot view is left.
ClosePlot(v) ==
  /\ plot' = [plot EXCEPT ![v].timer = FALSE, ![v].pendingRun = FALSE,
                          ![v].silenced = TRUE]
  /\ StopIfRunning(v)
  /\ UNCHANGED repl

Event ==
  \/ \E r \in DOMAIN jobs : Slice(r) \/ AbortedSlice(r)
  \/ \E v \in Views : Answer(v) \/ Stop(v)
  \/ \E v \in Repls : Submit(v) \/ Reset(v) \/ CloseRepl(v)
  \/ \E v \in Plots : \/ TimerFires(v) \/ Refresh(v) \/ Change(v)
                      \/ ToggleAutoRun(v) \/ ClosePlot(v)

Next == Reaction \/ (Quiet /\ Event)

Spec == Init /\ [][Next]_vars

\* The event loop runs every reaction, and gets back to a task that gave way.
\* Nothing makes a task that was not stopped end, nor a user answer it.
FairSpec ==
  /\ Spec
  /\ WF_vars(Reaction)
  /\ WF_vars(Quiet /\ \E r \in DOMAIN jobs : AbortedSlice(r))

(***************************************************************************)
(* Properties.                                                             *)
(***************************************************************************)
Job == [view : Views, aborted : BOOLEAN, uses : Nat,
        at : Body \cup {"queued", "done", "failed", "dropped"}]
ReplView == [session : Nat, opened : Nat, resetRequested : BOOLEAN, closed : BOOLEAN]
PlotView == [version : 0 .. MaxChanges, autoRun : BOOLEAN, timer : BOOLEAN,
             pendingRun : BOOLEAN, output : Nat, silenced : BOOLEAN]

TypeOK ==
  /\ jobs \in Seq(Job) /\ Len(jobs) <= MaxJobs
  /\ chain \in Seq(1 .. Len(jobs))
  /\ run \in [Views -> 0 .. Len(jobs)]
  /\ shown \in [Views -> Body \cup {"idle", "queued", "stopping"}]
  /\ request \in [Views -> 0 .. Len(jobs)]
  /\ repl \in [Repls -> ReplView]
  /\ plot \in [Plots -> PlotView]

Waits(r) == jobs[r].at = "queued" /\ ~jobs[r].aborted

Q == INSTANCE JobQueue WITH
       waiting <- {r \in DOMAIN jobs : Waits(r)},
       busy <- IF chain # <<>> /\ jobs[Head(chain)].at \in Body THEN Head(chain) ELSE 0,
       issued <- Len(jobs)

\* Evaluations of the whole page begin one at a time and in the order they were
\* submitted, also when a view stops one that waits or runs and submits another
\* before the queue has got rid of the first (queueEval).
QueueSpec == Q!Spec

\* What a view shows is what its evaluation does: in particular a run that was
\* told to stop says so until it is over, whatever its task was doing, and the
\* view has an open input request exactly when its own run waits for it
\* (createEvaluationController, createStdinRequester).
ShownIsTrue ==
  \A v \in Views :
    IF Running(v)
    THEN LET j == JobOf(v) IN
         /\ j.aborted => shown[v] = "stopping"
         /\ (~j.aborted /\ j.at \in Body \cup {"queued"}) => shown[v] = j.at
         /\ request[v] = IF j.at = "awaiting-input" /\ ~j.aborted THEN run[v] ELSE 0
    ELSE shown[v] = "idle" /\ request[v] = 0

\* A view that is idle, and free to reset its session or to start another run,
\* has no task left that could still run, and the task of one that is not idle
\* uses the session the view holds, unless the view was closed under it.
SessionIsOwn ==
  /\ \A r \in DOMAIN jobs : jobs[r].at \in Body => run[jobs[r].view] = r
  /\ \A v \in Repls : (Running(v) /\ JobOf(v).at \in Body /\ ~repl[v].closed)
                        => JobOf(v).uses = repl[v].session

\* With automatic runs, a change of the controls reaches the plot: its output is
\* shown, or being computed from these controls, or a run that will begin is
\* certain, unless the user's last word was to stop (runViz, scheduleRun).
UpdateNotLost ==
  \A v \in Plots :
    (plot[v].autoRun /\ ~plot[v].silenced) =>
      \/ plot[v].output = plot[v].version
      \/ plot[v].timer
      \/ /\ Running(v)
         /\ \/ plot[v].pendingRun
            \/ /\ ~JobOf(v).aborted
               /\ (JobOf(v).at = "queued" \/ JobOf(v).uses = plot[v].version)

\* A run that is told to stop is over soon, even when it waits in the queue
\* behind a task of another view that never ends.
StopSettles ==
  \A v \in Views : (Running(v) /\ JobOf(v).aborted) ~> ~Running(v)
=============================================================================
