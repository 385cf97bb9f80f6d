-------------------------- MODULE EvalQueue_proofs --------------------------
(***************************************************************************)
(* The evaluation queue of the IDE, proved for any views, any number of    *)
(* evaluations and any number of changes of controls: what a view shows,   *)
(* which session an evaluation has, that a change of the controls is not   *)
(* lost, and that the page serves evaluations as JobQueue promises.        *)
(***************************************************************************)
EXTENDS EvalQueue, SequenceTheorems, TLAPS

USE ViewsAssumption, BoundsAssumption

Ended == {"done", "failed", "dropped"}

\* The chain holds the evaluations that have not settled, in their order, and
\* only the first of them can have begun.
ChainInv ==
  /\ \A i, j \in DOMAIN chain : i < j => chain[i] < chain[j]
  /\ \A r \in DOMAIN jobs :
       jobs[r].at \notin Ended <=> \E i \in DOMAIN chain : chain[i] = r
  /\ \A r \in DOMAIN jobs : jobs[r].at \in Body => AtHead(r)

\* An evaluation that has begun, or may still begin, is the run of its view's
\* controller, and one that did not get to its end was told to stop.
OwnInv ==
  /\ \A v \in Views : Running(v) => JobOf(v).view = v
  /\ \A r \in DOMAIN jobs :
       (jobs[r].at \in Body \/ (jobs[r].at = "queued" /\ ~jobs[r].aborted))
         => run[jobs[r].view] = r
  /\ \A r \in DOMAIN jobs : jobs[r].at \in {"failed", "dropped"} => jobs[r].aborted

-----------------------------------------------------------------------------
(* What a step does to the evaluations *)

LEMMA EndsLemma ==
  ASSUME TypeOK, NEW r \in DOMAIN jobs, AtHead(r), NEW how \in Ended, Ends(r, how)
  PROVE  /\ jobs' \in Seq(Job) /\ Len(jobs') = Len(jobs)
         /\ jobs' = [jobs EXCEPT ![r] = [jobs[r] EXCEPT !.at = how]]
         /\ chain' \in Seq(1 .. Len(jobs))
         /\ Len(chain') = Len(chain) - 1
         /\ \A i \in DOMAIN chain' : i + 1 \in DOMAIN chain /\ chain'[i] = chain[i + 1]
<1>1. jobs[r] \in Job /\ jobs \in Seq(Job) /\ chain \in Seq(1 .. Len(jobs)) /\ chain # <<>>
  BY DEF TypeOK, AtHead
<1>2. jobs' = [jobs EXCEPT ![r] = [jobs[r] EXCEPT !.at = how]]
  BY <1>1 DEF Ends
<1>3. [jobs[r] EXCEPT !.at = how] \in Job
  BY <1>1 DEF Job, Ended
<1> QED
  BY <1>1, <1>2, <1>3 DEF Ends

LEMMA EnqueueLemma ==
  ASSUME TypeOK, NEW v \in Views, Enqueue(v)
  PROVE  /\ jobs' \in Seq(Job) /\ Len(jobs') = Len(jobs) + 1 /\ Len(jobs') <= MaxJobs
         /\ \A r \in DOMAIN jobs : jobs'[r] = jobs[r]
         /\ jobs'[Len(jobs')] = [view |-> v, aborted |-> FALSE, at |-> "queued", uses |-> 0]
         /\ chain' \in Seq(1 .. Len(jobs')) /\ Len(chain') = Len(chain) + 1
         /\ \A i \in DOMAIN chain : chain'[i] = chain[i]
         /\ chain'[Len(chain) + 1] = Len(jobs')
         /\ run' = [run EXCEPT ![v] = Len(jobs')]
         /\ shown' = [shown EXCEPT ![v] = "queued"]
         /\ request' = request
<1>1. [view |-> v, aborted |-> FALSE, at |-> "queued", uses |-> 0] \in Job
  BY DEF Job
<1>2. jobs \in Seq(Job) /\ chain \in Seq(1 .. Len(jobs))
  BY DEF TypeOK
<1>3. /\ jobs' \in Seq(Job) /\ Len(jobs') = Len(jobs) + 1
      /\ \A r \in DOMAIN jobs : jobs'[r] = jobs[r]
      /\ jobs'[Len(jobs')] = [view |-> v, aborted |-> FALSE, at |-> "queued", uses |-> 0]
  BY <1>1, <1>2 DEF Enqueue
<1>4. chain \in Seq(1 .. Len(jobs')) /\ Len(jobs') \in 1 .. Len(jobs')
  BY <1>2, <1>3
<1> QED
  BY <1>2, <1>3, <1>4 DEF Enqueue

LEMMA AbortLemma ==
  ASSUME TypeOK, NEW v \in Views, Running(v), Abort(v)
  PROVE  /\ jobs' \in Seq(Job) /\ Len(jobs') = Len(jobs)
         /\ run[v] \in DOMAIN jobs
         /\ jobs' = [jobs EXCEPT ![run[v]] = [jobs[run[v]] EXCEPT !.aborted = TRUE]]
         /\ shown' = [shown EXCEPT ![v] = "stopping"]
         /\ request' = [request EXCEPT ![v] = 0]
         /\ chain' = chain /\ run' = run
<1>1. jobs \in Seq(Job) /\ run[v] \in DOMAIN jobs
  BY DEF TypeOK, Running
<1>2. jobs[run[v]] \in Job
  BY <1>1
<1>3. jobs' = [jobs EXCEPT ![run[v]] = [jobs[run[v]] EXCEPT !.aborted = TRUE]]
  BY <1>1 DEF Abort
<1>4. [jobs[run[v]] EXCEPT !.aborted = TRUE] \in Job
  BY <1>2 DEF Job
<1> QED
  BY <1>1, <1>3, <1>4 DEF Abort

LEMMA StopLemma ==
  ASSUME TypeOK, NEW v \in Views, StopIfRunning(v)
  PROVE  \/ /\ Running(v) /\ ~JobOf(v).aborted /\ Abort(v)
         \/ /\ Running(v) => JobOf(v).aborted
            /\ UNCHANGED <<jobs, shown, request, chain, run>>
  BY DEF StopIfRunning

\* The step in which the head of the chain begins.
Begins(r) ==
  /\ ~jobs[r].aborted
  /\ \E u \in Nat :
       /\ jobs' = [jobs EXCEPT ![r] = [jobs[r] EXCEPT !.at = "running", !.uses = u]]
       /\ jobs[r].view \in Plots => u = plot[jobs[r].view].version
       /\ jobs[r].view \in Repls => u = repl'[jobs[r].view].session
  /\ shown' = [shown EXCEPT ![jobs[r].view] = "running"]
  /\ repl' \in [Repls -> ReplView]
  /\ \A v \in Repls : /\ v # jobs[r].view => repl'[v] = repl[v]
                       /\ repl'[v].closed = repl[v].closed
  /\ chain' = chain /\ run' = run /\ request' = request /\ plot' = plot

LEMMA StartLemma ==
  ASSUME TypeOK, NEW r \in DOMAIN jobs, StartNext(r)
  PROVE  \/ /\ jobs[r].aborted /\ Ends(r, "dropped")
            /\ UNCHANGED <<run, shown, request, repl, plot>>
         \/ Begins(r)
<1>1. /\ jobs[r] \in Job /\ jobs \in Seq(Job) /\ repl \in [Repls -> ReplView]
      /\ plot \in [Plots -> PlotView]
  BY DEF TypeOK
<1>2. CASE StartRefused(r)
  BY <1>2 DEF StartNext, StartRefused
<1>3. CASE ~StartRefused(r) /\ jobs[r].view \in Repls
  <2> DEFINE v == jobs[r].view
  <2>1. repl' = IF repl[v].session # 0 THEN repl
                ELSE [repl EXCEPT ![v] = [repl[v] EXCEPT !.opened = repl[v].opened + 1,
                                                         !.session = repl[v].opened + 1]]
    BY <1>1, <1>3 DEF StartNext
  <2>2. repl[v] \in ReplView /\ v \in Repls
    BY <1>1, <1>3
  <2>3. [repl[v] EXCEPT !.opened = repl[v].opened + 1, !.session = repl[v].opened + 1]
          \in ReplView
    <3>1. repl[v].opened + 1 \in Nat
      BY <2>2 DEF ReplView
    <3>2. PICK p \in ReplView : p = [repl[v] EXCEPT !.opened = repl[v].opened + 1]
      BY <2>2, <3>1 DEF ReplView
    <3>3. [p EXCEPT !.session = repl[v].opened + 1] \in ReplView
      BY <3>1 DEF ReplView
    <3> QED
      BY <3>2, <3>3
  <2>4. /\ repl' \in [Repls -> ReplView]
        /\ \A w \in Repls : /\ w # v => repl'[w] = repl[w]
                             /\ repl'[w].closed = repl[w].closed
    BY <1>1, <2>1, <2>2, <2>3 DEF ReplView
  <2>5. repl'[v].session \in Nat
    BY <2>2, <2>4 DEF ReplView
  <2>6. jobs' = [jobs EXCEPT ![r] = [jobs[r] EXCEPT !.at = "running",
                                                    !.uses = repl'[v].session]]
    BY <1>1, <1>3 DEF StartNext
  <2> QED
    BY <1>3, <2>2, <2>4, <2>5, <2>6 DEF StartNext, StartRefused, Begins
<1>4. CASE ~StartRefused(r) /\ jobs[r].view \notin Repls
  <2>1. jobs[r].view \in Plots
    BY <1>1, <1>4 DEF Job, Views
  <2>2. plot[jobs[r].view].version \in Nat
    BY <1>1, <2>1 DEF PlotView
  <2>3. jobs' = [jobs EXCEPT ![r] = [jobs[r] EXCEPT !.at = "running",
                                                    !.uses = plot[jobs[r].view].version]]
    BY <1>1, <1>4 DEF StartNext
  <2> QED
    BY <1>1, <1>4, <2>2, <2>3 DEF StartNext, StartRefused, Begins
<1> QED
  BY <1>2, <1>3, <1>4

\* A reaction of the view itself: the task it runs goes on, asks or pauses.
Turns(r, to) ==
  /\ jobs[r].at \in Body
  /\ jobs' = [jobs EXCEPT ![r] = [jobs[r] EXCEPT !.at = to]]
  /\ chain' = chain /\ run' = run /\ repl' = repl /\ plot' = plot

LEMMA SliceLemma ==
  ASSUME TypeOK, NEW r \in DOMAIN jobs, Slice(r)
  PROVE  /\ AtHead(r) /\ ~jobs[r].aborted /\ run' = run /\ repl' = repl /\ plot' = plot
         /\ \/ Ends(r, "done") /\ UNCHANGED <<shown, request>>
            \/ /\ Turns(r, "awaiting-input")
               /\ request' = [request EXCEPT ![jobs[r].view] = r]
               /\ shown' = [shown EXCEPT ![jobs[r].view] = "awaiting-input"]
            \/ /\ Turns(r, "paused") /\ jobs[r].view \in Repls
               /\ request' = request
               /\ shown' = [shown EXCEPT ![jobs[r].view] = "paused"]
<1>1. jobs[r] \in Job /\ jobs \in Seq(Job)
  BY DEF TypeOK
<1> QED
  BY <1>1 DEF Slice, Turns, Body

LEMMA AnswerLemma ==
  ASSUME TypeOK, NEW v \in Views, Answer(v)
  PROVE  /\ run[v] \in DOMAIN jobs /\ jobs[run[v]].at \in Asleep /\ Turns(run[v], "running")
         /\ request' = [request EXCEPT ![v] = 0]
         /\ shown' = [shown EXCEPT ![v] = WakeState(v)]
<1>1. jobs \in Seq(Job) /\ run[v] \in DOMAIN jobs
  BY DEF TypeOK, Answer, Running
<1>2. jobs[run[v]] \in Job
  BY <1>1
<1> QED
  BY <1>1, <1>2 DEF Answer, Turns, JobOf, Body

LEMMA JobLemma ==
  ASSUME TypeOK
  PROVE  /\ jobs \in Seq(Job) /\ DOMAIN jobs = 1 .. Len(jobs) /\ Len(jobs) \in Nat
         /\ run \in [Views -> 0 .. Len(jobs)]
         /\ \A r \in DOMAIN jobs : jobs[r] \in Job /\ jobs[r].view \in Views /\ r # 0
         /\ \A v \in Views : Running(v) => run[v] \in DOMAIN jobs
<1>1. jobs \in Seq(Job) /\ run \in [Views -> 0 .. Len(jobs)]
  BY DEF TypeOK
<1>2. DOMAIN jobs = 1 .. Len(jobs) /\ Len(jobs) \in Nat
  BY <1>1
<1>3. \A r \in DOMAIN jobs : jobs[r] \in Job
  BY <1>1
<1>4. \A r \in DOMAIN jobs : jobs[r].view \in Views
  BY <1>3 DEF Job
<1> QED
  BY <1>1, <1>2, <1>3, <1>4 DEF Running

LEMMA TurnsLemma ==
  ASSUME TypeOK, NEW r \in DOMAIN jobs, NEW to \in Body, Turns(r, to)
  PROVE  jobs' \in Seq(Job) /\ Len(jobs') = Len(jobs)
<1>1. jobs[r] \in Job /\ jobs \in Seq(Job)
  BY DEF TypeOK
<1>2. [jobs[r] EXCEPT !.at = to] \in Job
  BY <1>1 DEF Job
<1> QED
  BY <1>1, <1>2 DEF Turns

-----------------------------------------------------------------------------
(* The evaluations, the chain and the controllers *)

Closes(r, how) ==
  /\ AtHead(r) /\ jobs[r].at \notin Ended
  /\ IF how = "done" THEN jobs[r].at = "running" ELSE jobs[r].aborted
  /\ Ends(r, how) /\ run' = run

Starts(r) == AtHead(r) /\ jobs[r].at = "queued" /\ Begins(r)

Settles(v) ==
  /\ Running(v) /\ Settled(v)
  /\ run' = [run EXCEPT ![v] = 0] /\ UNCHANGED <<jobs, chain>>

Moves ==
  \/ UNCHANGED <<jobs, chain, run>>
  \/ \E r \in DOMAIN jobs, how \in Ended : Closes(r, how)
  \/ \E r \in DOMAIN jobs : Starts(r)
  \/ \E r \in DOMAIN jobs, to \in Body : Turns(r, to)
  \/ \E v \in Views : Settles(v)
  \/ \E v \in Views : ~Running(v) /\ Enqueue(v)
  \/ \E v \in Views : Running(v) /\ Abort(v)

LEMMA MoveLemma == TypeOK /\ [Next]_vars => Moves
<1> SUFFICES ASSUME TypeOK, [Next]_vars PROVE Moves
  OBVIOUS
<1>1. ASSUME NEW r \in DOMAIN jobs, StartNext(r) PROVE Moves
  <2>1. AtHead(r) /\ jobs[r].at = "queued"
    BY <1>1 DEF StartNext
  <2>2. Begins(r) \/ Closes(r, "dropped")
    BY <1>1, <2>1, StartLemma DEF Closes, Ended
  <2> QED
    BY <2>1, <2>2 DEF Moves, Starts, Ended
<1>2. ASSUME NEW r \in DOMAIN jobs, Unwind(r) \/ AbortedSlice(r) PROVE Moves
  <2>1. Closes(r, "failed")
    BY <1>2 DEF Unwind, AbortedSlice, Closes, Asleep, Ended
  <2> QED
    BY <2>1 DEF Moves, Ended
<1>3. ASSUME NEW v \in Views, Settle(v) PROVE Moves
  BY <1>3 DEF Settle, Settles, Moves
<1>4. ASSUME NEW r \in DOMAIN jobs, Slice(r) PROVE Moves
  <2>1. Closes(r, "done") \/ \E to \in Body : Turns(r, to)
    BY <1>4, SliceLemma DEF Closes, Ended, Slice, Body, Asleep
  <2> QED
    BY <2>1 DEF Moves, Ended
<1>5. ASSUME NEW v \in Views, Answer(v) PROVE Moves
  BY <1>5, AnswerLemma DEF Moves, Body
<1>6. ASSUME NEW v \in Views, StopIfRunning(v) PROVE Moves
  BY <1>6, StopLemma DEF Moves
<1>7. ASSUME NEW v \in Views, ~Running(v), Enqueue(v) PROVE Moves
  BY <1>7 DEF Moves
<1>8. ASSUME NEW v \in Views, Stop(v) PROVE Moves
  BY <1>8 DEF Stop, Moves
<1>9. CASE UNCHANGED <<jobs, chain, run>>
  BY <1>9 DEF Moves
<1> QED
  BY <1>1, <1>2, <1>3, <1>4, <1>5, <1>6, <1>7, <1>8, <1>9
  DEF Next, Reaction, Event, Submit, Reset, CloseRepl, TimerFires, Supersede,
    Replot, Refresh, Change, ToggleAutoRun, ClosePlot, vars, Views

LEMMA ChainStep == TypeOK /\ ChainInv /\ [Next]_vars => ChainInv'
<1> SUFFICES ASSUME TypeOK, ChainInv, [Next]_vars PROVE ChainInv'
  OBVIOUS
<1>0. jobs \in Seq(Job) /\ chain \in Seq(1 .. Len(jobs))
  BY DEF TypeOK
<1>1. CASE UNCHANGED <<jobs, chain, run>>
  BY <1>1 DEF ChainInv, AtHead
<1>2. ASSUME NEW r \in DOMAIN jobs, NEW how \in Ended, Closes(r, how)
      PROVE  ChainInv'
  <2>1. /\ AtHead(r) /\ Ends(r, how) /\ chain # <<>> /\ chain[1] = r
    BY <1>2 DEF Closes, AtHead
  <2>2. /\ jobs' = [jobs EXCEPT ![r] = [jobs[r] EXCEPT !.at = how]]
        /\ jobs' \in Seq(Job) /\ Len(jobs') = Len(jobs)
        /\ Len(chain') = Len(chain) - 1 /\ chain' \in Seq(1 .. Len(jobs))
        /\ \A i \in DOMAIN chain' : i + 1 \in DOMAIN chain /\ chain'[i] = chain[i + 1]
    BY <2>1, EndsLemma
  <2>3. \A i, j \in DOMAIN chain' : i < j => chain'[i] < chain'[j]
    BY <1>0, <2>2 DEF ChainInv
  <2>4. /\ jobs'[r].at = how
        /\ \A q \in DOMAIN jobs : q # r => jobs'[q] = jobs[q]
    BY <1>0, <2>2 DEF Job
  <2>5. ASSUME NEW q \in DOMAIN jobs, q # r
        PROVE  (\E i \in DOMAIN chain' : chain'[i] = q) <=> (\E i \in DOMAIN chain : chain[i] = q)
    <3>1. ASSUME NEW i \in DOMAIN chain, chain[i] = q
          PROVE  \E k \in DOMAIN chain' : chain'[k] = q
      <4>1. i # 1 /\ i - 1 \in DOMAIN chain'
        BY <1>0, <2>1, <2>2, <2>5, <3>1
      <4>2. chain'[i - 1] = chain[i]
        BY <1>0, <2>2, <4>1
      <4> QED
        BY <3>1, <4>1, <4>2
    <3> QED
      BY <2>2, <3>1
  <2>6. ASSUME NEW i \in DOMAIN chain' PROVE chain'[i] # r
    <3>1. 1 \in DOMAIN chain /\ i + 1 \in DOMAIN chain /\ 1 < i + 1
      BY <1>0, <2>1, <2>2
    <3>2. chain[1] < chain[i + 1] /\ chain'[i] = chain[i + 1]
      BY <2>2, <3>1 DEF ChainInv
    <3> QED
      BY <1>0, <2>1, <3>1, <3>2
  <2>7. \A q \in DOMAIN jobs : jobs'[q].at \notin Body
    BY <1>0, <2>1, <2>4 DEF ChainInv, AtHead, Body, Asleep, Ended
  <2> QED
    BY <2>2, <2>3, <2>4, <2>5, <2>6, <2>7 DEF ChainInv
<1>3. ASSUME NEW r \in DOMAIN jobs, NEW to \in Body, AtHead(r), jobs[r].at \notin Ended,
             chain' = chain, DOMAIN jobs' = DOMAIN jobs, jobs'[r].at = to,
             \A q \in DOMAIN jobs : q # r => jobs'[q] = jobs[q]
      PROVE  ChainInv'
  BY <1>0, <1>3 DEF ChainInv, AtHead, Body, Asleep, Ended
<1>4. ASSUME NEW r \in DOMAIN jobs, Starts(r) PROVE ChainInv'
  <2>1. jobs[r] \in Job
    BY <1>0
  <2>2. /\ DOMAIN jobs' = DOMAIN jobs /\ jobs'[r].at = "running"
        /\ \A q \in DOMAIN jobs : q # r => jobs'[q] = jobs[q]
    BY <1>0, <1>4, <2>1 DEF Starts, Begins, Job
  <2> QED
    BY <1>3, <1>4, <2>2 DEF Starts, Begins, Body, Ended
<1>5. ASSUME NEW r \in DOMAIN jobs, NEW to \in Body, Turns(r, to) PROVE ChainInv'
  <2>1. jobs[r] \in Job
    BY <1>0
  <2>2. /\ DOMAIN jobs' = DOMAIN jobs /\ jobs'[r].at = to
        /\ \A q \in DOMAIN jobs : q # r => jobs'[q] = jobs[q]
    BY <1>0, <1>5, <2>1 DEF Turns, Job
  <2>3. AtHead(r) /\ jobs[r].at \notin Ended
    BY <1>5 DEF Turns, ChainInv, Body, Asleep, Ended
  <2> QED
    BY <1>3, <1>5, <2>2, <2>3 DEF Turns
<1>6. ASSUME NEW v \in Views, Settles(v) PROVE ChainInv'
  BY <1>6 DEF Settles, ChainInv, AtHead
<1>7. ASSUME NEW v \in Views, Enqueue(v) PROVE ChainInv'
  <2> DEFINE n == Len(jobs')
  <2>1. /\ jobs' \in Seq(Job) /\ n = Len(jobs) + 1
        /\ \A r \in DOMAIN jobs : jobs'[r] = jobs[r]
        /\ jobs'[n] = [view |-> v, aborted |-> FALSE, at |-> "queued", uses |-> 0]
        /\ chain' \in Seq(1 .. n) /\ Len(chain') = Len(chain) + 1
        /\ \A i \in DOMAIN chain : chain'[i] = chain[i]
        /\ chain'[Len(chain) + 1] = n
    BY <1>7, EnqueueLemma, Zenon
  <2>2. PICK m \in Nat : m = Len(chain)
    BY <1>0
  <2>3. /\ DOMAIN chain = 1 .. m /\ DOMAIN chain' = 1 .. m + 1
        /\ DOMAIN jobs = 1 .. Len(jobs) /\ DOMAIN jobs' = 1 .. Len(jobs) + 1
        /\ Len(jobs) \in Nat /\ \A i \in DOMAIN chain : chain[i] \in 1 .. Len(jobs)
    BY <1>0, <2>1, <2>2
  <2>4. /\ \A i \in 1 .. m : chain'[i] = chain[i]
        /\ chain'[m + 1] = Len(jobs) + 1
    BY <2>1, <2>2, <2>3
  <2>5. ASSUME NEW i \in DOMAIN chain', NEW j \in DOMAIN chain', i < j
        PROVE  chain'[i] < chain'[j]
    BY <2>3, <2>4, <2>5 DEF ChainInv
  <2>6. \A r \in DOMAIN jobs' :
          (\E i \in DOMAIN chain' : chain'[i] = r)
            <=> (r = Len(jobs) + 1 \/ \E i \in DOMAIN chain : chain[i] = r)
    BY <2>3, <2>4
  <2>7. /\ jobs'[Len(jobs) + 1].at = "queued"
        /\ \A r \in DOMAIN jobs' : r \in DOMAIN jobs \/ r = Len(jobs) + 1
        /\ \A r \in DOMAIN jobs : jobs'[r] = jobs[r] /\ r # Len(jobs) + 1
    BY <2>1, <2>3
  <2>8. \A r \in DOMAIN jobs : AtHead(r) => AtHead(r)'
    <3>1. CASE chain # <<>>
      <4>1. 1 \in 1 .. m /\ chain' # <<>> /\ Head(chain') = chain'[1]
        BY <1>0, <2>1, <2>2, <2>3, <3>1
      <4> QED
        BY <1>0, <2>4, <3>1, <4>1 DEF AtHead
    <3> QED
      BY <3>1 DEF AtHead
  <2> QED
    BY <2>5, <2>6, <2>7, <2>8 DEF ChainInv, Body, Asleep, Ended
<1>8. ASSUME NEW v \in Views, Running(v), Abort(v) PROVE ChainInv'
  <2>1. run[v] \in DOMAIN jobs
    BY <1>8, AbortLemma, Zenon
  <2>2. /\ jobs' = [jobs EXCEPT ![run[v]] = [jobs[run[v]] EXCEPT !.aborted = TRUE]]
        /\ chain' = chain
    BY <1>8, AbortLemma, Zenon
  <2>3. jobs[run[v]] \in Job
    BY <1>0, <2>1
  <2>4. /\ DOMAIN jobs' = DOMAIN jobs
        /\ \A q \in DOMAIN jobs : jobs'[q].at = jobs[q].at
    BY <1>0, <2>1, <2>2, <2>3 DEF Job
  <2> QED
    BY <2>2, <2>4 DEF ChainInv, AtHead
<1> QED
  BY <1>1, <1>2, <1>4, <1>5, <1>6, <1>7, <1>8, MoveLemma DEF Moves

LEMMA BeginsLemma ==
  ASSUME TypeOK, NEW r \in DOMAIN jobs, Begins(r)
  PROVE  /\ DOMAIN jobs' = DOMAIN jobs
         /\ \A q \in DOMAIN jobs : q # r => jobs'[q] = jobs[q]
         /\ jobs'[r].view = jobs[r].view /\ jobs'[r].aborted = jobs[r].aborted
         /\ jobs'[r].at = "running" /\ ~jobs[r].aborted
         /\ jobs[r].view \in Plots => jobs'[r].uses = plot[jobs[r].view].version
         /\ jobs[r].view \in Repls => jobs'[r].uses = repl'[jobs[r].view].session
<1>1. jobs[r] \in Job /\ jobs \in Seq(Job)
  BY JobLemma
<1> QED
  BY <1>1 DEF Begins, Job

LEMMA TurnedLemma ==
  ASSUME TypeOK, NEW r \in DOMAIN jobs, NEW to \in Body, Turns(r, to)
  PROVE  /\ DOMAIN jobs' = DOMAIN jobs
         /\ \A q \in DOMAIN jobs : q # r => jobs'[q] = jobs[q]
         /\ jobs'[r].view = jobs[r].view /\ jobs'[r].aborted = jobs[r].aborted
         /\ jobs'[r].at = to /\ jobs'[r].uses = jobs[r].uses
<1>1. jobs[r] \in Job /\ jobs \in Seq(Job)
  BY JobLemma
<1> QED
  BY <1>1 DEF Turns, Job

LEMMA OwnStep == TypeOK /\ OwnInv /\ [Next]_vars => OwnInv'
<1> SUFFICES ASSUME TypeOK, OwnInv, [Next]_vars PROVE OwnInv'
  OBVIOUS
<1>0. /\ jobs \in Seq(Job) /\ run \in [Views -> 0 .. Len(jobs)]
      /\ \A r \in DOMAIN jobs : jobs[r] \in Job /\ jobs[r].view \in Views /\ r # 0
      /\ \A v \in Views : Running(v) => run[v] \in DOMAIN jobs
  BY JobLemma
<1>1. CASE UNCHANGED <<jobs, chain, run>>
  BY <1>1 DEF OwnInv, Running, JobOf
<1>2. ASSUME NEW r \in DOMAIN jobs, run' = run, DOMAIN jobs' = DOMAIN jobs,
             \A q \in DOMAIN jobs : q # r => jobs'[q] = jobs[q],
             jobs'[r].view = jobs[r].view,
             jobs[r].aborted => jobs'[r].aborted,
             jobs'[r].at \in {"failed", "dropped"} => jobs'[r].aborted,
             jobs'[r].at \in Body \/ (jobs'[r].at = "queued" /\ ~jobs'[r].aborted)
               => run[jobs[r].view] = r
      PROVE  OwnInv'
  BY <1>0, <1>2 DEF OwnInv, Running, JobOf
<1>3. ASSUME NEW r \in DOMAIN jobs, NEW how \in Ended, Closes(r, how) PROVE OwnInv'
  <2>1. jobs' = [jobs EXCEPT ![r] = [jobs[r] EXCEPT !.at = how]]
    BY <1>3, EndsLemma DEF Closes
  <2>2. /\ DOMAIN jobs' = DOMAIN jobs
        /\ \A q \in DOMAIN jobs : q # r => jobs'[q] = jobs[q]
        /\ jobs'[r].view = jobs[r].view /\ jobs'[r].aborted = jobs[r].aborted
        /\ jobs'[r].at = how
    BY <1>0, <2>1 DEF Job
  <2>3. how \notin Body \cup {"queued"} /\ (how \in {"failed", "dropped"} => jobs'[r].aborted)
    BY <1>3, <2>2 DEF Closes, Ended, Body, Asleep
  <2> QED
    BY <1>2, <1>3, <2>2, <2>3 DEF Closes
<1>4. ASSUME NEW r \in DOMAIN jobs, Starts(r) PROVE OwnInv'
  <2>1. /\ DOMAIN jobs' = DOMAIN jobs
        /\ \A q \in DOMAIN jobs : q # r => jobs'[q] = jobs[q]
        /\ jobs'[r].view = jobs[r].view /\ jobs'[r].aborted = jobs[r].aborted
        /\ jobs'[r].at = "running" /\ ~jobs[r].aborted /\ run' = run
        /\ jobs[r].at = "queued"
    BY <1>0, <1>4 DEF Starts, Begins, Job
  <2>2. run[jobs[r].view] = r
    BY <2>1 DEF OwnInv
  <2> QED
    BY <1>2, <2>1, <2>2
<1>5. ASSUME NEW r \in DOMAIN jobs, NEW to \in Body, Turns(r, to) PROVE OwnInv'
  <2>1. /\ DOMAIN jobs' = DOMAIN jobs
        /\ \A q \in DOMAIN jobs : q # r => jobs'[q] = jobs[q]
        /\ jobs'[r].view = jobs[r].view /\ jobs'[r].aborted = jobs[r].aborted
        /\ jobs'[r].at = to /\ run' = run
    BY <1>0, <1>5 DEF Turns, Job
  <2>2. run[jobs[r].view] = r /\ to \notin {"failed", "dropped"}
    BY <1>5 DEF OwnInv, Turns, Body, Asleep
  <2> QED
    BY <1>2, <2>1, <2>2
<1>6. ASSUME NEW v \in Views, Settles(v) PROVE OwnInv'
  BY <1>0, <1>6 DEF Settles, Settled, OwnInv, Running, JobOf, Body, Asleep
<1>7. ASSUME NEW v \in Views, ~Running(v), Enqueue(v) PROVE OwnInv'
  <2> DEFINE n == Len(jobs')
  <2>1. /\ jobs' \in Seq(Job) /\ n = Len(jobs) + 1
        /\ \A r \in DOMAIN jobs : jobs'[r] = jobs[r]
        /\ jobs'[n] = [view |-> v, aborted |-> FALSE, at |-> "queued", uses |-> 0]
        /\ run' = [run EXCEPT ![v] = n]
    BY <1>7, EnqueueLemma, Zenon
  <2>2. /\ jobs'[n].view = v /\ jobs'[n].at = "queued" /\ n \notin DOMAIN jobs /\ n # 0
        /\ \A r \in DOMAIN jobs' : r \in DOMAIN jobs \/ r = n
        /\ n \in DOMAIN jobs'
    BY <1>0, <2>1
  <2>3. run'[v] = n /\ \A u \in Views : u # v => run'[u] = run[u]
    BY <1>0, <2>1
  <2>4. \A r \in DOMAIN jobs : run[jobs[r].view] = r => jobs[r].view # v
    BY <1>0, <1>7 DEF Running
  <2> QED
    BY <1>0, <2>1, <2>2, <2>3, <2>4 DEF OwnInv, Running, JobOf
<1>8. ASSUME NEW v \in Views, Running(v), Abort(v) PROVE OwnInv'
  <2>1. /\ jobs' = [jobs EXCEPT ![run[v]] = [jobs[run[v]] EXCEPT !.aborted = TRUE]]
        /\ run' = run
    BY <1>8, AbortLemma, Zenon
  <2>2. /\ DOMAIN jobs' = DOMAIN jobs
        /\ \A q \in DOMAIN jobs : q # run[v] => jobs'[q] = jobs[q]
        /\ jobs'[run[v]].view = jobs[run[v]].view /\ jobs'[run[v]].aborted
        /\ jobs'[run[v]].at = jobs[run[v]].at
    BY <1>0, <1>8, <2>1 DEF Job
  <2>3. jobs[run[v]].view = v
    BY <1>8 DEF OwnInv, JobOf
  <2> QED
    BY <1>0, <1>2, <1>8, <2>1, <2>2, <2>3
<1> QED
  BY <1>1, <1>3, <1>4, <1>5, <1>6, <1>7, <1>8, MoveLemma DEF Moves

-----------------------------------------------------------------------------
(* Types *)

LEMMA JobsTyped ==
  TypeOK /\ [Next]_vars =>
    /\ jobs' \in Seq(Job) /\ Len(jobs') <= MaxJobs
    /\ chain' \in Seq(1 .. Len(jobs'))
    /\ run' \in [Views -> 0 .. Len(jobs')]
    /\ Len(jobs) <= Len(jobs') /\ Len(jobs) \in Nat /\ Len(jobs') \in Nat
<1> DEFINE Typed ==
      /\ jobs' \in Seq(Job) /\ Len(jobs') <= MaxJobs
      /\ chain' \in Seq(1 .. Len(jobs'))
      /\ run' \in [Views -> 0 .. Len(jobs')]
      /\ Len(jobs) <= Len(jobs') /\ Len(jobs) \in Nat /\ Len(jobs') \in Nat
<1> SUFFICES ASSUME TypeOK, [Next]_vars PROVE Typed
  OBVIOUS
<1>0. /\ jobs \in Seq(Job) /\ Len(jobs) <= MaxJobs /\ chain \in Seq(1 .. Len(jobs))
      /\ run \in [Views -> 0 .. Len(jobs)] /\ Len(jobs) \in Nat
  BY JobLemma DEF TypeOK
<1>1. CASE UNCHANGED <<jobs, chain, run>>
  BY <1>0, <1>1
<1>2. ASSUME jobs' \in Seq(Job), Len(jobs') = Len(jobs),
             chain' \in Seq(1 .. Len(jobs)), run' = run
      PROVE  Typed
  BY <1>0, <1>2
<1>3. ASSUME NEW r \in DOMAIN jobs, NEW how \in Ended, Closes(r, how) PROVE Typed
  <2>1. jobs' \in Seq(Job) /\ Len(jobs') = Len(jobs) /\ chain' \in Seq(1 .. Len(jobs))
    BY <1>3, EndsLemma DEF Closes
  <2> QED
    BY <1>2, <1>3, <2>1 DEF Closes
<1>4. ASSUME NEW r \in DOMAIN jobs, Starts(r) PROVE Typed
  <2>1. jobs[r] \in Job
    BY JobLemma
  <2>2. PICK u \in Nat :
          jobs' = [jobs EXCEPT ![r] = [jobs[r] EXCEPT !.at = "running", !.uses = u]]
    BY <1>4 DEF Starts, Begins
  <2>3. PICK j \in Job : j = [jobs[r] EXCEPT !.at = "running"]
    BY <2>1 DEF Job, Body
  <2>4. [j EXCEPT !.uses = u] \in Job
    BY DEF Job
  <2>5. jobs' = [jobs EXCEPT ![r] = [j EXCEPT !.uses = u]]
    BY <2>2, <2>3
  <2>6. jobs' \in Seq(Job) /\ Len(jobs') = Len(jobs)
    BY <1>0, <2>4, <2>5
  <2> QED
    BY <1>0, <1>2, <1>4, <2>6 DEF Starts, Begins
<1>5. ASSUME NEW r \in DOMAIN jobs, NEW to \in Body, Turns(r, to) PROVE Typed
  <2>1. jobs' \in Seq(Job) /\ Len(jobs') = Len(jobs)
    BY <1>5, TurnsLemma
  <2> QED
    BY <1>0, <1>2, <1>5, <2>1 DEF Turns
<1>6. ASSUME NEW v \in Views, Settles(v) PROVE Typed
  BY <1>0, <1>6 DEF Settles
<1>7. ASSUME NEW v \in Views, Enqueue(v) PROVE Typed
  <2>1. /\ jobs' \in Seq(Job) /\ Len(jobs') = Len(jobs) + 1 /\ Len(jobs') <= MaxJobs
        /\ chain' \in Seq(1 .. Len(jobs')) /\ run' = [run EXCEPT ![v] = Len(jobs')]
    BY <1>7, EnqueueLemma, Zenon
  <2>2. PICK n \in Nat : n = Len(jobs) /\ Len(jobs') = n + 1
    BY <1>0, <2>1
  <2>3. run \in [Views -> 0 .. n] /\ run' = [run EXCEPT ![v] = n + 1]
    BY <1>0, <2>1, <2>2
  <2>4. run' \in [Views -> 0 .. n + 1]
    BY <2>3
  <2> QED
    BY <1>0, <2>1, <2>2, <2>4
<1>8. ASSUME NEW v \in Views, Running(v), Abort(v) PROVE Typed
  <2>1. jobs' \in Seq(Job) /\ Len(jobs') = Len(jobs) /\ chain' = chain /\ run' = run
    BY <1>8, AbortLemma, Zenon
  <2> QED
    BY <1>0, <1>2, <2>1
<1> QED
  BY <1>1, <1>3, <1>4, <1>5, <1>6, <1>7, <1>8, MoveLemma DEF Moves

ShownState == Body \cup {"idle", "queued", "stopping"}

LEMMA StopTyped ==
  ASSUME TypeOK, NEW v \in Views, StopIfRunning(v)
  PROVE  shown' \in [Views -> ShownState] /\ request' \in [Views -> 0 .. Len(jobs)]
<1>1. /\ shown \in [Views -> ShownState] /\ request \in [Views -> 0 .. Len(jobs)]
      /\ Len(jobs) \in Nat
  BY JobLemma DEF TypeOK, ShownState
<1>2. CASE Abort(v)
  BY <1>1, <1>2 DEF Abort, ShownState
<1>3. CASE UNCHANGED <<jobs, shown, request, chain, run>>
  BY <1>1, <1>3
<1> QED
  BY <1>2, <1>3, StopLemma

LEMMA PlotTyped ==
  ASSUME NEW p \in PlotView, NEW b \in BOOLEAN, NEW c \in BOOLEAN
  PROVE  /\ [p EXCEPT !.timer = b] \in PlotView /\ [p EXCEPT !.pendingRun = b] \in PlotView
         /\ [p EXCEPT !.silenced = b] \in PlotView /\ [p EXCEPT !.autoRun = b] \in PlotView
         /\ \A n \in Nat : [p EXCEPT !.output = n] \in PlotView
         /\ \A n \in 0 .. MaxChanges : [p EXCEPT !.version = n] \in PlotView
         /\ [p EXCEPT !.timer = b, !.pendingRun = c] \in PlotView
         /\ [p EXCEPT !.pendingRun = b, !.silenced = c] \in PlotView
BY DEF PlotView

\* What an event does to the controls, the timer and the marks of a plot.
Controls(v, version, autoRun, timer, pendingRun, silenced) ==
  /\ plot' \in [Plots -> PlotView]
  /\ \A w \in Plots : w # v => plot'[w] = plot[w]
  /\ plot'[v].version = version /\ plot'[v].autoRun = autoRun
  /\ plot'[v].timer = timer /\ plot'[v].pendingRun = pendingRun
  /\ plot'[v].silenced = silenced /\ plot'[v].output = plot[v].output

LEMMA ControlsLemma ==
  ASSUME TypeOK, NEW v \in Plots
  PROVE  LET p == plot[v] IN
         /\ Supersede(v) =>
              Controls(v, p.version, p.autoRun, FALSE, TRUE, p.silenced)
         /\ Replot(v) => Controls(v, p.version, p.autoRun, FALSE, FALSE, p.silenced)
         /\ Refresh(v) => Controls(v, p.version, p.autoRun, FALSE, FALSE, FALSE)
         /\ Change(v) =>
              Controls(v, p.version + 1, p.autoRun, p.autoRun, p.pendingRun, FALSE)
         /\ ToggleAutoRun(v) =>
              Controls(v, p.version, ~p.autoRun, ~p.autoRun, p.pendingRun, FALSE)
         /\ ClosePlot(v) => Controls(v, p.version, p.autoRun, FALSE, FALSE, TRUE)
         /\ Stop(v) => Controls(v, p.version, p.autoRun, p.timer, FALSE, TRUE)
<1> DEFINE p == plot[v]
<1>1. plot \in [Plots -> PlotView] /\ plot[v] \in PlotView /\ v \notin Repls
  BY DEF TypeOK
<1>2. ASSUME Supersede(v) PROVE Controls(v, p.version, p.autoRun, FALSE, TRUE, p.silenced)
  <2>1. plot' \in [Plots -> PlotView] /\ \A w \in Plots : w # v => plot'[w] = plot[w]
    BY <1>1, <1>2 DEF Supersede, PlotView
  <2>2. /\ plot'[v].version = p.version /\ plot'[v].autoRun = p.autoRun
        /\ plot'[v].timer = FALSE /\ plot'[v].pendingRun = TRUE
        /\ plot'[v].silenced = p.silenced /\ plot'[v].output = p.output
    BY <1>1, <1>2 DEF Supersede, PlotView
  <2> QED
    BY <2>1, <2>2 DEF Controls
<1>3. ASSUME Replot(v) PROVE Controls(v, p.version, p.autoRun, FALSE, FALSE, p.silenced)
  <2>1. plot' \in [Plots -> PlotView] /\ \A w \in Plots : w # v => plot'[w] = plot[w]
    BY <1>1, <1>3 DEF Replot, PlotView
  <2>2. /\ plot'[v].version = p.version /\ plot'[v].autoRun = p.autoRun
        /\ plot'[v].timer = FALSE /\ plot'[v].pendingRun = FALSE
        /\ plot'[v].silenced = p.silenced /\ plot'[v].output = p.output
    BY <1>1, <1>3 DEF Replot, PlotView
  <2> QED
    BY <2>1, <2>2 DEF Controls
<1>4. ASSUME Refresh(v) PROVE Controls(v, p.version, p.autoRun, FALSE, FALSE, FALSE)
  <2>1. plot' \in [Plots -> PlotView] /\ \A w \in Plots : w # v => plot'[w] = plot[w]
    BY <1>1, <1>4 DEF Refresh, PlotView
  <2>2. /\ plot'[v].version = p.version /\ plot'[v].autoRun = p.autoRun
        /\ plot'[v].timer = FALSE /\ plot'[v].pendingRun = FALSE
        /\ plot'[v].silenced = FALSE /\ plot'[v].output = p.output
    BY <1>1, <1>4 DEF Refresh, PlotView
  <2> QED
    BY <2>1, <2>2 DEF Controls
<1>5. ASSUME Change(v) PROVE Controls(v, p.version + 1, p.autoRun, p.autoRun, p.pendingRun, FALSE)
  <2>0. p.version + 1 \in 0 .. MaxChanges
    BY <1>1, <1>5 DEF Change, PlotView
  <2>1. plot' \in [Plots -> PlotView] /\ \A w \in Plots : w # v => plot'[w] = plot[w]
    BY <1>1, <1>5, <2>0 DEF Change, PlotView
  <2>2. /\ plot'[v].version = p.version + 1 /\ plot'[v].autoRun = p.autoRun
        /\ plot'[v].timer = p.autoRun /\ plot'[v].pendingRun = p.pendingRun
        /\ plot'[v].silenced = FALSE /\ plot'[v].output = p.output
    BY <1>1, <1>5 DEF Change, PlotView
  <2> QED
    BY <2>1, <2>2 DEF Controls
<1>6. ASSUME ToggleAutoRun(v) PROVE Controls(v, p.version, ~p.autoRun, ~p.autoRun, p.pendingRun, FALSE)
  <2>1. plot' \in [Plots -> PlotView] /\ \A w \in Plots : w # v => plot'[w] = plot[w]
    BY <1>1, <1>6 DEF ToggleAutoRun, PlotView
  <2>2. /\ plot'[v].version = p.version /\ plot'[v].autoRun = ~p.autoRun
        /\ plot'[v].timer = ~p.autoRun /\ plot'[v].pendingRun = p.pendingRun
        /\ plot'[v].silenced = FALSE /\ plot'[v].output = p.output
    BY <1>1, <1>6 DEF ToggleAutoRun, PlotView
  <2> QED
    BY <2>1, <2>2 DEF Controls
<1>7. ASSUME ClosePlot(v) PROVE Controls(v, p.version, p.autoRun, FALSE, FALSE, TRUE)
  <2>1. plot' \in [Plots -> PlotView] /\ \A w \in Plots : w # v => plot'[w] = plot[w]
    BY <1>1, <1>7 DEF ClosePlot, PlotView
  <2>2. /\ plot'[v].version = p.version /\ plot'[v].autoRun = p.autoRun
        /\ plot'[v].timer = FALSE /\ plot'[v].pendingRun = FALSE
        /\ plot'[v].silenced = TRUE /\ plot'[v].output = p.output
    BY <1>1, <1>7 DEF ClosePlot, PlotView
  <2> QED
    BY <2>1, <2>2 DEF Controls
<1>8. ASSUME Stop(v) PROVE Controls(v, p.version, p.autoRun, p.timer, FALSE, TRUE)
  <2>1. plot' \in [Plots -> PlotView] /\ \A w \in Plots : w # v => plot'[w] = plot[w]
    BY <1>1, <1>8 DEF Stop, PlotView
  <2>2. /\ plot'[v].version = p.version /\ plot'[v].autoRun = p.autoRun
        /\ plot'[v].timer = p.timer /\ plot'[v].pendingRun = FALSE
        /\ plot'[v].silenced = TRUE /\ plot'[v].output = p.output
    BY <1>1, <1>8 DEF Stop, PlotView
  <2> QED
    BY <2>1, <2>2 DEF Controls
<1> QED
  BY <1>2, <1>3, <1>4, <1>5, <1>6, <1>7, <1>8

LEMMA TypeStep == TypeOK /\ [Next]_vars => TypeOK'
<1> DEFINE Shown == shown' \in [Views -> ShownState]
           Request == request' \in [Views -> 0 .. Len(jobs')]
           Repl == repl' \in [Repls -> ReplView]
           Plot == plot' \in [Plots -> PlotView]
<1> SUFFICES ASSUME TypeOK, [Next]_vars PROVE Shown /\ Request /\ Repl /\ Plot
  BY JobsTyped DEF TypeOK, ShownState
<1>0. /\ shown \in [Views -> ShownState] /\ request \in [Views -> 0 .. Len(jobs)]
      /\ repl \in [Repls -> ReplView] /\ plot \in [Plots -> PlotView]
      /\ "idle" \in ShownState /\ "queued" \in ShownState /\ "running" \in ShownState
      /\ "awaiting-input" \in ShownState /\ "paused" \in ShownState
      /\ "stopping" \in ShownState
  BY DEF TypeOK, ShownState, Body, Asleep
<1>1. request' = request => Request
  BY <1>0, JobsTyped
<1>2. repl' = repl => Repl
  BY <1>0
<1>3. plot' = plot => Plot
  BY <1>0
<1>4. shown' = shown => Shown
  BY <1>0
<1>5. \A v \in Views, s \in ShownState : shown' = [shown EXCEPT ![v] = s] => Shown
  BY <1>0
<1>6. \A v \in Views, r \in 0 .. Len(jobs) : request' = [request EXCEPT ![v] = r] => Request
  BY <1>0, JobsTyped
<1>7. \A v \in Plots, p \in PlotView : plot' = [plot EXCEPT ![v] = p] => Plot
  BY <1>0
<1>8. \A v \in Repls, q \in ReplView : repl' = [repl EXCEPT ![v] = q] => Repl
  BY <1>0
<1>9. \A v \in Views : WakeState(v) \in ShownState
  BY <1>0 DEF WakeState
<1>10. ASSUME NEW r \in DOMAIN jobs, StartNext(r) PROVE Shown /\ Request /\ Repl /\ Plot
  <2>1. jobs[r].view \in Views
    BY JobLemma
  <2> QED
    BY <1>0, <1>1, <1>2, <1>3, <1>4, <1>5, <1>10, <2>1, StartLemma DEF Begins
<1>11. ASSUME NEW r \in DOMAIN jobs, Unwind(r) PROVE Shown /\ Request /\ Repl /\ Plot
  <2>1. jobs[r].view \in Views
    BY JobLemma
  <2> QED
    BY <1>1, <1>2, <1>3, <1>5, <1>9, <1>11, <2>1 DEF Unwind
<1>12. ASSUME NEW v \in Views, Settle(v) PROVE Shown /\ Request /\ Repl /\ Plot
  <2>1. Shown /\ Request
    BY <1>0, <1>1, <1>5, <1>12 DEF Settle
  <2>2. CASE v \in Repls
    <3>1. FreshSession(repl[v]) \in ReplView
      BY <1>0, <2>2 DEF FreshSession, ReplView
    <3> QED
      BY <1>2, <1>3, <1>8, <1>12, <2>1, <2>2, <3>1 DEF Settle
  <2>3. CASE v \notin Repls
    <3>1. v \in Plots /\ plot[v] \in PlotView /\ run[v] \in DOMAIN jobs
      BY <1>0, <1>12, <2>3, JobLemma DEF Views, Settle
    <3>2. JobOf(v) \in Job /\ JobOf(v).uses \in Nat
      BY <3>1, JobLemma DEF JobOf, Job
    <3>3. PICK p \in PlotView : /\ p = IF JobOf(v).at = "done"
                                       THEN [plot[v] EXCEPT !.output = JobOf(v).uses]
                                       ELSE plot[v]
      BY <3>1, <3>2, PlotTyped
    <3>4. Reschedule(p) \in PlotView
      BY <3>3, PlotTyped DEF Reschedule
    <3>5. plot' = [plot EXCEPT ![v] = Reschedule(p)]
      BY <1>12, <2>3, <3>3 DEF Settle
    <3> QED
      BY <1>2, <1>7, <1>12, <2>1, <2>3, <3>1, <3>4, <3>5 DEF Settle
  <2> QED
    BY <2>2, <2>3
<1>13. ASSUME NEW r \in DOMAIN jobs, Slice(r) PROVE Shown /\ Request /\ Repl /\ Plot
  <2>1. jobs[r].view \in Views /\ r \in 0 .. Len(jobs)
    BY JobLemma
  <2> QED
    BY <1>0, <1>1, <1>2, <1>3, <1>4, <1>5, <1>6, <1>13, <2>1, SliceLemma
<1>14. ASSUME NEW r \in DOMAIN jobs, AbortedSlice(r) PROVE Shown /\ Request /\ Repl /\ Plot
  BY <1>1, <1>2, <1>3, <1>4, <1>14 DEF AbortedSlice
<1>15. 0 \in 0 .. Len(jobs)
  BY JobLemma
<1>16. ASSUME NEW v \in Views, Answer(v) PROVE Shown /\ Request /\ Repl /\ Plot
  BY <1>2, <1>3, <1>5, <1>6, <1>9, <1>15, <1>16 DEF Answer
<1>17. ASSUME NEW v \in Views, StopIfRunning(v) PROVE Shown /\ Request
  <2>1. Shown /\ request' \in [Views -> 0 .. Len(jobs)]
    BY <1>17, StopTyped
  <2> QED
    BY <2>1, JobsTyped
<1>18. ASSUME NEW v \in Views, Enqueue(v) PROVE Shown /\ Request
  BY <1>0, <1>1, <1>5, <1>18 DEF Enqueue
<1>19. ASSUME NEW v \in Views, Stop(v) PROVE Shown /\ Request /\ Repl /\ Plot
  <2>1. Shown /\ Request
    BY <1>0, <1>5, <1>6, <1>15, <1>19 DEF Stop, Abort
  <2>2. Plot
    BY <1>3, <1>19, ControlsLemma DEF Stop, Controls, Views
  <2> QED
    BY <1>2, <1>19, <2>1, <2>2 DEF Stop
<1>20. ASSUME NEW v \in Repls, Submit(v) \/ Reset(v) \/ CloseRepl(v)
       PROVE  Shown /\ Request /\ Repl /\ Plot
  <2>1. v \in Views /\ repl[v] \in ReplView
    BY <1>0 DEF Views
  <2>2. /\ [repl[v] EXCEPT !.resetRequested = TRUE] \in ReplView
        /\ FreshSession(repl[v]) \in ReplView
        /\ [repl[v] EXCEPT !.closed = TRUE, !.session = 0] \in ReplView
    BY <2>1 DEF ReplView, FreshSession
  <2>3. CASE Submit(v)
    BY <1>2, <1>3, <1>18, <2>1, <2>3 DEF Submit
  <2>4. CASE Reset(v)
    BY <1>3, <1>8, <1>17, <2>1, <2>2, <2>4 DEF Reset
  <2>5. CASE CloseRepl(v)
    <3>1. repl' = [repl EXCEPT ![v] = [repl[v] EXCEPT !.closed = TRUE, !.session = 0]]
      BY <1>0, <2>1, <2>5 DEF CloseRepl
    <3> QED
      BY <1>3, <1>8, <1>17, <2>1, <2>2, <2>5, <3>1 DEF CloseRepl
  <2> QED
    BY <1>20, <2>3, <2>4, <2>5
<1>21. ASSUME NEW v \in Plots, Change(v) \/ ToggleAutoRun(v)
       PROVE  Shown /\ Request /\ Repl /\ Plot
  <2>2. plot' \in [Plots -> PlotView]
    BY <1>21, ControlsLemma, Zenon DEF Controls
  <2> QED
    BY <1>1, <1>2, <1>4, <1>21, <2>2 DEF Change, ToggleAutoRun
<1>22. ASSUME NEW v \in Plots, TimerFires(v) \/ Refresh(v) \/ ClosePlot(v)
       PROVE  Shown /\ Request /\ Repl /\ Plot
  <2>1. v \in Views
    BY DEF Views
  <2>2. plot' \in [Plots -> PlotView]
    BY <1>22, ControlsLemma, Zenon DEF TimerFires, Controls
  <2> QED
    BY <1>2, <1>17, <1>18, <1>22, <2>1, <2>2
    DEF TimerFires, Supersede, Replot, Refresh, ClosePlot
<1>23. CASE UNCHANGED vars
  BY <1>1, <1>2, <1>3, <1>4, <1>23 DEF vars
<1> QED
  BY <1>10, <1>11, <1>12, <1>13, <1>14, <1>16, <1>19, <1>20, <1>21, <1>22, <1>23
  DEF Next, Reaction, Event

-----------------------------------------------------------------------------
(* What a view shows *)

Shows(v) ==
  IF Running(v)
  THEN /\ JobOf(v).aborted => shown[v] = "stopping"
       /\ (~JobOf(v).aborted /\ JobOf(v).at \in Body \cup {"queued"}) =>
            shown[v] = JobOf(v).at
       /\ request[v] = IF JobOf(v).at = "awaiting-input" /\ ~JobOf(v).aborted
                       THEN run[v] ELSE 0
  ELSE shown[v] = "idle" /\ request[v] = 0

\* An evaluation that settles leaves alone what its view shows.
LEMMA EndsShows ==
  ASSUME TypeOK, OwnInv, ShownIsTrue, NEW r \in DOMAIN jobs, NEW how \in Ended,
         Closes(r, how),
         UNCHANGED <<shown, request>>, NEW w \in Views
  PROVE  Shows(w)'
<1>1. jobs' = [jobs EXCEPT ![r] = [jobs[r] EXCEPT !.at = how]] /\ run' = run
  BY EndsLemma DEF Closes
<1>2. /\ \A q \in DOMAIN jobs : q # r => jobs'[q] = jobs[q]
      /\ jobs'[r].aborted = jobs[r].aborted /\ jobs'[r].at = how
  BY <1>1, JobLemma DEF Job
<1>3. Shows(w)
  BY DEF ShownIsTrue, Shows
<1>4. CASE run[w] = r /\ Running(w)
  <2>1. how \notin Body \cup {"queued"} /\ ~ (jobs[r].at = "awaiting-input" /\ ~jobs[r].aborted)
    BY DEF Closes, Ended, Body, Asleep
  <2> QED
    BY <1>1, <1>2, <1>3, <1>4, <2>1 DEF Shows, Running, JobOf, Body, Asleep
<1>5. CASE ~ (run[w] = r /\ Running(w))
  <2>1. Running(w) => jobs'[run[w]] = jobs[run[w]]
    BY <1>2, <1>5, JobLemma
  <2> QED
    BY <1>1, <1>3, <2>1 DEF Shows, Running, JobOf
<1> QED
  BY <1>4, <1>5

\* A stop shows, and closes the request for input.
LEMMA AbortShows ==
  ASSUME TypeOK, OwnInv, ShownIsTrue, NEW v \in Views, Running(v), Abort(v), NEW w \in Views
  PROVE  Shows(w)'
<1>1. /\ jobs' = [jobs EXCEPT ![run[v]] = [jobs[run[v]] EXCEPT !.aborted = TRUE]]
      /\ shown' = [shown EXCEPT ![v] = "stopping"]
      /\ request' = [request EXCEPT ![v] = 0]
      /\ run' = run /\ run[v] \in DOMAIN jobs
  BY AbortLemma, Zenon
<1>2. /\ \A q \in DOMAIN jobs : q # run[v] => jobs'[q] = jobs[q]
      /\ jobs'[run[v]].aborted
  BY <1>1, JobLemma DEF Job
<1>3. shown \in [Views -> ShownState] /\ request \in [Views -> 0 .. Len(jobs)] /\ Shows(w)
  BY DEF TypeOK, ShownState, ShownIsTrue, Shows
<1>4. CASE w = v
  BY <1>1, <1>2, <1>3, <1>4 DEF Shows, Running, JobOf
<1>5. CASE w # v
  <2>1. Running(w) => run[w] \in DOMAIN jobs /\ run[w] # run[v]
    BY <1>5, JobLemma DEF OwnInv, JobOf
  <2> QED
    BY <1>1, <1>2, <1>3, <1>5, <2>1 DEF Shows, Running, JobOf
<1> QED
  BY <1>4, <1>5

LEMMA EnqueueShows ==
  ASSUME TypeOK, ShownIsTrue, NEW v \in Views, ~Running(v), Enqueue(v), NEW w \in Views
  PROVE  Shows(w)'
<1>1. /\ \A r \in DOMAIN jobs : jobs'[r] = jobs[r]
      /\ jobs'[Len(jobs')] = [view |-> v, aborted |-> FALSE, at |-> "queued", uses |-> 0]
      /\ Len(jobs') = Len(jobs) + 1
      /\ run' = [run EXCEPT ![v] = Len(jobs')] /\ shown' = [shown EXCEPT ![v] = "queued"]
      /\ request' = request
  BY EnqueueLemma, Zenon
<1>2. jobs'[Len(jobs')].at = "queued" /\ ~jobs'[Len(jobs')].aborted /\ Len(jobs') # 0
  BY <1>1, JobLemma
<1>3. shown \in [Views -> ShownState] /\ run \in [Views -> 0 .. Len(jobs)] /\ Shows(w) /\ Shows(v)
  BY DEF TypeOK, ShownState, ShownIsTrue, Shows
<1>4. CASE w = v
  <2>1. run'[v] = Len(jobs') /\ shown'[v] = "queued" /\ request'[v] = 0
    BY <1>1, <1>3 DEF Shows
  <2> QED
    BY <1>2, <1>4, <2>1 DEF Shows, Running, JobOf
<1>5. CASE w # v
  <2>1. run'[w] = run[w] /\ shown'[w] = shown[w] /\ request'[w] = request[w]
    BY <1>1, <1>3, <1>5
  <2>2. Running(w) => jobs'[run[w]] = jobs[run[w]]
    BY <1>1, JobLemma
  <2> QED
    BY <1>3, <2>1, <2>2 DEF Shows, Running, JobOf
<1> QED
  BY <1>4, <1>5

\* The evaluation at the head begins, asks, pauses or goes on, and its view is
\* told so.
LEMMA AdvanceShows ==
  ASSUME TypeOK, OwnInv, ShownIsTrue, NEW r \in DOMAIN jobs, NEW to \in Body,
         DOMAIN jobs' = DOMAIN jobs, \A q \in DOMAIN jobs : q # r => jobs'[q] = jobs[q],
         jobs'[r].aborted = jobs[r].aborted, jobs'[r].at = to, run' = run,
         run[jobs[r].view] = r,
         NEW s, s = IF jobs[r].aborted THEN "stopping" ELSE to,
         shown' = [shown EXCEPT ![jobs[r].view] = s],
         request'[jobs[r].view] = IF to = "awaiting-input" /\ ~jobs[r].aborted THEN r ELSE 0,
         \A u \in Views : u # jobs[r].view => request'[u] = request[u],
         NEW w \in Views
  PROVE  Shows(w)'
<1>1. shown \in [Views -> ShownState] /\ Shows(w) /\ jobs[r].view \in Views /\ r # 0
  BY JobLemma DEF TypeOK, ShownState, ShownIsTrue, Shows
<1>2. CASE w = jobs[r].view
  BY <1>1, <1>2 DEF Shows, Running, JobOf
<1>3. CASE w # jobs[r].view
  <2>1. Running(w) => run[w] \in DOMAIN jobs /\ run[w] # r
    BY <1>3, JobLemma DEF OwnInv, JobOf
  <2> QED
    BY <1>1, <1>3, <2>1 DEF Shows, Running, JobOf
<1> QED
  BY <1>2, <1>3

LEMMA ShownStep == TypeOK /\ OwnInv /\ ShownIsTrue /\ [Next]_vars => ShownIsTrue'
<1> SUFFICES ASSUME TypeOK, OwnInv, ShownIsTrue, [Next]_vars, NEW w \in Views
             PROVE  Shows(w)'
  BY DEF ShownIsTrue, Shows
<1>0. /\ Shows(w) /\ shown \in [Views -> ShownState]
      /\ request \in [Views -> 0 .. Len(jobs)] /\ run \in [Views -> 0 .. Len(jobs)]
  BY DEF ShownIsTrue, Shows, TypeOK, ShownState
<1>1. CASE UNCHANGED <<jobs, run, shown, request>>
  BY <1>0, <1>1 DEF Shows, Running, JobOf
<1>2. ASSUME NEW r \in DOMAIN jobs, StartNext(r) PROVE Shows(w)'
  <2>1. CASE jobs[r].aborted /\ Ends(r, "dropped") /\ UNCHANGED <<run, shown, request>>
    <3>1. Closes(r, "dropped")
      BY <1>2, <2>1 DEF StartNext, Closes, Ended
    <3> QED
      BY <2>1, <3>1, EndsShows DEF Ended
  <2>2. CASE Begins(r)
    <3>0. jobs[r].at = "queued"
      BY <1>2 DEF StartNext
    <3>1. /\ DOMAIN jobs' = DOMAIN jobs
          /\ \A q \in DOMAIN jobs : q # r => jobs'[q] = jobs[q]
          /\ jobs'[r].aborted = jobs[r].aborted /\ jobs'[r].at = "running"
          /\ ~jobs[r].aborted /\ run' = run /\ jobs[r].at = "queued"
      BY <2>2, <3>0, BeginsLemma DEF Begins
    <3>2. run[jobs[r].view] = r /\ jobs[r].view \in Views /\ r # 0
      BY <3>1, JobLemma DEF OwnInv
    <3>3. request[jobs[r].view] = 0
      BY <3>1, <3>2 DEF ShownIsTrue, Running, JobOf
    <3> QED
      BY <2>2, <3>1, <3>2, <3>3, AdvanceShows DEF Begins, Body
  <2> QED
    BY <1>2, <2>1, <2>2, StartLemma
<1>3. ASSUME NEW r \in DOMAIN jobs, Unwind(r) PROVE Shows(w)'
  <2>1. run[jobs[r].view] = r /\ jobs[r].view \in Views
    BY <1>3, JobLemma DEF Unwind, OwnInv, Body
  <2>2. UNCHANGED <<shown, request>> /\ Closes(r, "failed")
    BY <1>0, <1>3, <2>1 DEF Unwind, WakeState, JobOf, Closes, Ended, Asleep
  <2> QED
    BY <2>2, EndsShows DEF Ended
<1>4. ASSUME NEW v \in Views, Settle(v) PROVE Shows(w)'
  <2>1. request[v] = 0
    BY <1>4 DEF Settle, Settled, ShownIsTrue
  <2>2. /\ run'[v] = 0 /\ shown'[v] = "idle" /\ request' = request /\ jobs' = jobs
        /\ \A u \in Views : u # v => run'[u] = run[u] /\ shown'[u] = shown[u]
    BY <1>0, <1>4 DEF Settle
  <2> QED
    BY <1>0, <2>1, <2>2 DEF Shows, Running, JobOf
<1>5. ASSUME NEW r \in DOMAIN jobs, Slice(r) PROVE Shows(w)'
  <2>1. /\ AtHead(r) /\ ~jobs[r].aborted /\ jobs[r].at = "running" /\ run' = run
        /\ jobs[r].view \in Views /\ run[jobs[r].view] = r /\ r # 0
    BY <1>5, JobLemma DEF Slice, OwnInv, Body
  <2>2. request[jobs[r].view] = 0
    BY <2>1 DEF ShownIsTrue, Running, JobOf
  <2>3. CASE Ends(r, "done") /\ UNCHANGED <<shown, request>>
    <3>1. Closes(r, "done")
      BY <2>1, <2>3 DEF Closes, Ended
    <3> QED
      BY <2>1, <2>3, <3>1, EndsShows DEF Ended
  <2>4. ASSUME NEW to \in Body, Turns(r, to),
               shown' = [shown EXCEPT ![jobs[r].view] = to],
               request' = IF to = "awaiting-input"
                          THEN [request EXCEPT ![jobs[r].view] = r] ELSE request
        PROVE  Shows(w)'
    <3>1. /\ DOMAIN jobs' = DOMAIN jobs
          /\ \A q \in DOMAIN jobs : q # r => jobs'[q] = jobs[q]
          /\ jobs'[r].aborted = jobs[r].aborted /\ jobs'[r].at = to
      BY <2>4, TurnedLemma
    <3>2. /\ request'[jobs[r].view] = IF to = "awaiting-input" THEN r ELSE 0
          /\ \A u \in Views : u # jobs[r].view => request'[u] = request[u]
      BY <1>0, <2>1, <2>2, <2>4
    <3> QED
      BY <2>1, <2>4, <3>1, <3>2, AdvanceShows
  <2> QED
    BY <1>5, <2>3, <2>4, SliceLemma DEF Body, Asleep
<1>6. ASSUME NEW r \in DOMAIN jobs, AbortedSlice(r) PROVE Shows(w)'
  <2>1. Closes(r, "failed") /\ UNCHANGED <<shown, request>>
    BY <1>6 DEF AbortedSlice, Closes, Ended
  <2> QED
    BY <2>1, EndsShows DEF Ended
<1>7. ASSUME NEW v \in Views, Answer(v) PROVE Shows(w)'
  <2> DEFINE r == run[v]
  <2>1. /\ r \in DOMAIN jobs /\ jobs[r].view = v /\ Turns(r, "running") /\ Running(v)
        /\ jobs[r].at \in Asleep
        /\ request' = [request EXCEPT ![v] = 0]
        /\ shown' = [shown EXCEPT ![v] = WakeState(v)]
    BY <1>7, AnswerLemma DEF OwnInv, JobOf, Answer
  <2>2. /\ DOMAIN jobs' = DOMAIN jobs
        /\ \A q \in DOMAIN jobs : q # r => jobs'[q] = jobs[q]
        /\ jobs'[r].aborted = jobs[r].aborted /\ jobs'[r].at = "running" /\ run' = run
    BY <2>1, TurnedLemma DEF Turns, Body
  <2>3. WakeState(v) = IF jobs[r].aborted THEN "stopping" ELSE "running"
    BY <2>1 DEF WakeState, JobOf, ShownIsTrue
  <2>4. request'[v] = 0 /\ \A u \in Views : u # v => request'[u] = request[u]
    BY <1>0, <2>1
  <2> HIDE DEF r
  <2>5. "running" \in Body /\ run[v] = r
    BY DEF Body, r
  <2> QED
    BY <2>1, <2>2, <2>3, <2>4, <2>5, AdvanceShows
<1>8. ASSUME NEW v \in Views, StopIfRunning(v) PROVE Shows(w)'
  BY <1>1, <1>8, StopLemma, AbortShows
<1>9. ASSUME NEW v \in Views, ~Running(v), Enqueue(v) PROVE Shows(w)'
  BY <1>9, EnqueueShows
<1>10. ASSUME NEW v \in Views, Stop(v) PROVE Shows(w)'
  BY <1>10, AbortShows DEF Stop
<1>11. CASE UNCHANGED vars
  BY <1>1, <1>11 DEF vars
<1> QED
  BY <1>1, <1>2, <1>3, <1>4, <1>5, <1>6, <1>7, <1>8, <1>9, <1>10, <1>11
  DEF Next, Reaction, Event, Submit, Reset, CloseRepl, TimerFires, Supersede,
    Replot, Refresh, Change, ToggleAutoRun, ClosePlot, Views

-----------------------------------------------------------------------------
(* The session of a view *)

Owns(v) ==
  (Running(v) /\ JobOf(v).at \in Body /\ ~repl[v].closed) => JobOf(v).uses = repl[v].session

\* What the evaluation at the head becomes changes neither its session nor, for
\* other views, anything.
LEMMA AdvanceOwns ==
  ASSUME TypeOK, OwnInv, NEW r \in DOMAIN jobs,
         \A q \in DOMAIN jobs : q # r => jobs'[q] = jobs[q],
         jobs'[r].uses = jobs[r].uses, jobs'[r].at \in Body => jobs[r].at \in Body,
         UNCHANGED <<run, repl>>, NEW w \in Repls, Owns(w)
  PROVE  Owns(w)'
<1>1. Running(w) => run[w] \in DOMAIN jobs
  BY JobLemma DEF Views
<1> QED
  BY <1>1 DEF Owns, Running, JobOf

LEMMA AbortOwns ==
  ASSUME TypeOK, NEW v \in Views, Running(v), Abort(v), NEW w \in Repls,
         Owns(w), repl'[w].closed = repl[w].closed, repl'[w].session = repl[w].session
  PROVE  Owns(w)'
<1>1. /\ jobs' = [jobs EXCEPT ![run[v]] = [jobs[run[v]] EXCEPT !.aborted = TRUE]]
      /\ run' = run /\ run[v] \in DOMAIN jobs
  BY AbortLemma, Zenon
<1>2. \A q \in DOMAIN jobs : jobs'[q].at = jobs[q].at /\ jobs'[q].uses = jobs[q].uses
  BY <1>1, JobLemma DEF Job
<1>3. Running(w) => run[w] \in DOMAIN jobs
  BY JobLemma DEF Views
<1> QED
  BY <1>1, <1>2, <1>3 DEF Owns, Running, JobOf

LEMMA EnqueueOwns ==
  ASSUME TypeOK, NEW v \in Views, Enqueue(v), repl' = repl, NEW w \in Repls, Owns(w)
  PROVE  Owns(w)'
<1>1. /\ \A r \in DOMAIN jobs : jobs'[r] = jobs[r]
      /\ jobs'[Len(jobs')] = [view |-> v, aborted |-> FALSE, at |-> "queued", uses |-> 0]
      /\ run' = [run EXCEPT ![v] = Len(jobs')]
  BY EnqueueLemma, Zenon
<1>2. jobs'[Len(jobs')].at \notin Body
  BY <1>1 DEF Body, Asleep
<1>3. w \in Views /\ run \in [Views -> 0 .. Len(jobs)] /\ (Running(w) => run[w] \in DOMAIN jobs)
  BY JobLemma DEF Views
<1>4. CASE w = v
  BY <1>1, <1>2, <1>3, <1>4 DEF Owns, Running, JobOf
<1>5. CASE w # v
  <2>1. run'[w] = run[w]
    BY <1>1, <1>3, <1>5
  <2> QED
    BY <1>1, <1>3, <2>1 DEF Owns, Running, JobOf
<1> QED
  BY <1>4, <1>5

LEMMA SessionStep ==
  TypeOK /\ OwnInv /\ (\A v \in Repls : Owns(v)) /\ [Next]_vars => (\A v \in Repls : Owns(v))'
<1> SUFFICES ASSUME TypeOK, OwnInv, \A v \in Repls : Owns(v), [Next]_vars, NEW w \in Repls
             PROVE  Owns(w)'
  OBVIOUS
<1>0. /\ Owns(w) /\ w \in Views /\ repl \in [Repls -> ReplView]
      /\ run \in [Views -> 0 .. Len(jobs)]
  BY DEF TypeOK, Views
<1>1. CASE UNCHANGED <<jobs, run, repl>>
  BY <1>0, <1>1 DEF Owns, Running, JobOf
<1>2. ASSUME NEW r \in DOMAIN jobs, NEW how \in Ended, Ends(r, how), UNCHANGED <<run, repl>>,
             AtHead(r)
      PROVE  Owns(w)'
  <2>1. jobs' = [jobs EXCEPT ![r] = [jobs[r] EXCEPT !.at = how]]
    BY <1>2, EndsLemma
  <2>2. /\ \A q \in DOMAIN jobs : q # r => jobs'[q] = jobs[q]
        /\ jobs'[r].uses = jobs[r].uses /\ jobs'[r].at \notin Body
    BY <2>1, JobLemma DEF Job, Body, Asleep, Ended
  <2> QED
    BY <1>0, <1>2, <2>2, AdvanceOwns
<1>3. ASSUME NEW r \in DOMAIN jobs, Begins(r), jobs[r].at = "queued" PROVE Owns(w)'
  <2>1. /\ \A q \in DOMAIN jobs : q # r => jobs'[q] = jobs[q]
        /\ jobs[r].view \in Repls => jobs'[r].uses = repl'[jobs[r].view].session
        /\ ~jobs[r].aborted
    BY <1>3, BeginsLemma
  <2>2. run[jobs[r].view] = r /\ run' = run
    BY <1>3, <2>1 DEF OwnInv, Begins
  <2>3. CASE w = jobs[r].view
    BY <2>1, <2>2, <2>3 DEF Owns, JobOf
  <2>4. CASE w # jobs[r].view
    <3>1. Running(w) => run[w] \in DOMAIN jobs /\ run[w] # r
      BY <1>0, <2>4, JobLemma DEF OwnInv, JobOf
    <3>2. repl'[w] = repl[w]
      BY <1>3, <2>4 DEF Begins
    <3> QED
      BY <1>0, <2>1, <2>2, <3>1, <3>2 DEF Owns, Running, JobOf
  <2> QED
    BY <2>3, <2>4
<1>4. ASSUME NEW r \in DOMAIN jobs, NEW to \in Body, Turns(r, to) PROVE Owns(w)'
  <2>1. /\ \A q \in DOMAIN jobs : q # r => jobs'[q] = jobs[q]
        /\ jobs'[r].uses = jobs[r].uses /\ jobs[r].at \in Body /\ UNCHANGED <<run, repl>>
    BY <1>4, TurnedLemma DEF Turns
  <2> QED
    BY <1>0, <2>1, AdvanceOwns
<1>5. ASSUME NEW r \in DOMAIN jobs, StartNext(r) PROVE Owns(w)'
  <2>1. jobs[r].at = "queued" /\ AtHead(r)
    BY <1>5 DEF StartNext
  <2> QED
    BY <1>2, <1>3, <1>5, <2>1, StartLemma DEF Ended
<1>6. ASSUME NEW r \in DOMAIN jobs, Unwind(r) \/ AbortedSlice(r) PROVE Owns(w)'
  BY <1>2, <1>6 DEF Unwind, AbortedSlice, Ended
<1>7. ASSUME NEW v \in Views, Settle(v) PROVE Owns(w)'
  <2>1. run' = [run EXCEPT ![v] = 0] /\ jobs' = jobs
    BY <1>7 DEF Settle
  <2>2. CASE w = v
    BY <1>0, <2>1, <2>2 DEF Owns, Running
  <2>3. CASE w # v
    <3>1. run'[w] = run[w] /\ repl'[w] = repl[w]
      BY <1>0, <1>7, <2>1, <2>3 DEF Settle
    <3> QED
      BY <1>0, <2>1, <3>1 DEF Owns, Running, JobOf
  <2> QED
    BY <2>2, <2>3
<1>8. ASSUME NEW r \in DOMAIN jobs, Slice(r) PROVE Owns(w)'
  BY <1>2, <1>4, <1>8, SliceLemma DEF Ended, Body, Asleep
<1>9. ASSUME NEW v \in Views, Answer(v) PROVE Owns(w)'
  <2>1. run[v] \in DOMAIN jobs /\ Turns(run[v], "running") /\ "running" \in Body
    BY <1>9, AnswerLemma DEF Body
  <2> QED
    BY <1>4, <2>1
<1>10. ASSUME NEW v \in Views, StopIfRunning(v), repl'[w].closed = repl[w].closed,
              repl'[w].session = repl[w].session
       PROVE  Owns(w)'
  <2>1. CASE Running(v) /\ Abort(v)
    BY <1>0, <1>10, <2>1, AbortOwns
  <2>2. CASE UNCHANGED <<jobs, run>>
    BY <1>0, <1>10, <2>2 DEF Owns, Running, JobOf
  <2> QED
    BY <1>10, <2>1, <2>2, StopLemma
<1>11. ASSUME NEW v \in Views, Stop(v) PROVE Owns(w)'
  BY <1>0, <1>11, AbortOwns DEF Stop
<1>12. ASSUME NEW v \in Repls, Reset(v) PROVE Owns(w)'
  <2>0. v \in Views
    BY DEF Views
  <2>1. CASE Running(v) \/ w # v
    <3>1. repl'[w].closed = repl[w].closed /\ repl'[w].session = repl[w].session
      BY <1>0, <1>12, <2>1 DEF Reset, ReplView
    <3> QED
      BY <1>10, <1>12, <2>0, <3>1 DEF Reset
  <2>2. CASE ~Running(v) /\ w = v
    <3>1. run' = run
      BY <1>12, <2>0, <2>2, StopLemma DEF Reset
    <3> QED
      BY <2>2, <3>1 DEF Owns, Running
  <2> QED
    BY <2>1, <2>2
<1>13. ASSUME NEW v \in Repls, CloseRepl(v) PROVE Owns(w)'
  <2>0. v \in Views
    BY DEF Views
  <2>1. CASE w # v
    <3>1. repl'[w] = repl[w]
      BY <1>0, <1>13, <2>1 DEF CloseRepl
    <3> QED
      BY <1>10, <1>13, <2>0, <3>1 DEF CloseRepl
  <2>2. CASE w = v
    <3>1. repl'[w].closed
      BY <1>0, <1>13, <2>2 DEF CloseRepl, ReplView
    <3> QED
      BY <3>1 DEF Owns
  <2> QED
    BY <2>1, <2>2
<1>14. ASSUME NEW v \in Views, Enqueue(v), repl' = repl PROVE Owns(w)'
  BY <1>0, <1>14, EnqueueOwns
<1>15. CASE UNCHANGED vars
  BY <1>1, <1>15 DEF vars
<1> QED
  BY <1>1, <1>5, <1>6, <1>7, <1>8, <1>9, <1>10, <1>11, <1>12, <1>13, <1>14, <1>15
  DEF Next, Reaction, Event, Submit, TimerFires, Supersede, Replot, Refresh,
    Change, ToggleAutoRun, ClosePlot, Views

-----------------------------------------------------------------------------
(* The controls and the output of a plot *)

Follows(v) ==
  /\ plot[v].output <= plot[v].version
  /\ (Running(v) /\ JobOf(v).at \in Body \cup {"done"}) =>
       plot[v].output <= JobOf(v).uses /\ JobOf(v).uses <= plot[v].version

Due(v) ==
  plot[v].autoRun /\ ~plot[v].silenced =>
    \/ plot[v].output = plot[v].version
    \/ plot[v].timer
    \/ /\ Running(v)
       /\ \/ plot[v].pendingRun
          \/ /\ ~JobOf(v).aborted
             /\ JobOf(v).at = "queued" \/ JobOf(v).uses = plot[v].version

PlotOK(v) == Follows(v) /\ Due(v)

\* What may happen to the run of a plot that is not the view of the step.
LEMMA OtherPlot ==
  ASSUME TypeOK, NEW w \in Plots, PlotOK(w), plot'[w] = plot[w],
         run'[w] = run[w], Running(w) => jobs'[run[w]] = jobs[run[w]]
  PROVE  PlotOK(w)'
BY DEF PlotOK, Follows, Due, Running, JobOf

\* The evaluation r goes on, or ends, with the controls it began with.
LEMMA AdvancePlot ==
  ASSUME TypeOK, OwnInv, NEW r \in DOMAIN jobs,
         \A q \in DOMAIN jobs : q # r => jobs'[q] = jobs[q],
         jobs'[r].uses = jobs[r].uses, jobs'[r].aborted = jobs[r].aborted,
         jobs'[r].at \in Body \cup {"done"} => jobs[r].at \in Body,
         jobs[r].at = "queued" => jobs[r].aborted,
         UNCHANGED <<run, plot>>, NEW w \in Plots, PlotOK(w)
  PROVE  PlotOK(w)'
<1>1. Running(w) => run[w] \in DOMAIN jobs
  BY JobLemma DEF Views
<1>2. CASE run[w] # r
  BY <1>1, <1>2, OtherPlot
<1>3. CASE run[w] = r
  BY <1>1, <1>3 DEF PlotOK, Follows, Due, Running, JobOf
<1> QED
  BY <1>2, <1>3

\* The evaluation begins with the controls of the moment.
LEMMA BeginPlot ==
  ASSUME TypeOK, OwnInv, NEW r \in DOMAIN jobs, jobs[r].at = "queued", Begins(r),
         NEW w \in Plots, PlotOK(w)
  PROVE  PlotOK(w)'
<1>1. /\ \A q \in DOMAIN jobs : q # r => jobs'[q] = jobs[q]
      /\ jobs[r].view \in Plots => jobs'[r].uses = plot[jobs[r].view].version
      /\ ~jobs[r].aborted /\ jobs'[r].aborted = jobs[r].aborted
      /\ jobs'[r].at = "running"
  BY BeginsLemma
<1>2. run' = run /\ plot' = plot /\ run[jobs[r].view] = r
  BY <1>1 DEF Begins, OwnInv
<1>3. w \in Views /\ (Running(w) => run[w] \in DOMAIN jobs)
  BY JobLemma DEF Views
<1>4. CASE w = jobs[r].view
  <2>1. plot[w].version \in Nat
    BY DEF TypeOK, PlotView
  <2> QED
    BY <1>1, <1>2, <1>4, <2>1 DEF PlotOK, Follows, Due, Running, JobOf
<1>5. CASE w # jobs[r].view
  <2>1. Running(w) => run[w] # r
    BY <1>3, <1>5 DEF OwnInv, JobOf
  <2> QED
    BY <1>1, <1>2, <1>3, <2>1, OtherPlot
<1> QED
  BY <1>4, <1>5

\* A run is told to stop.
LEMMA AbortPlot ==
  ASSUME TypeOK, NEW v \in Views, Running(v), Abort(v), OwnInv
  PROVE  /\ run' = run /\ run[v] \in DOMAIN jobs
         /\ \A w \in Views : Running(w) =>
              /\ run[w] \in DOMAIN jobs
              /\ jobs'[run[w]].at = jobs[run[w]].at /\ jobs'[run[w]].uses = jobs[run[w]].uses
              /\ w # v => jobs'[run[w]] = jobs[run[w]]
<1>1. /\ jobs' = [jobs EXCEPT ![run[v]] = [jobs[run[v]] EXCEPT !.aborted = TRUE]]
      /\ run' = run /\ run[v] \in DOMAIN jobs
  BY AbortLemma, Zenon
<1>2. /\ \A q \in DOMAIN jobs : jobs'[q].at = jobs[q].at /\ jobs'[q].uses = jobs[q].uses
      /\ \A q \in DOMAIN jobs : q # run[v] => jobs'[q] = jobs[q]
  BY <1>1, JobLemma DEF Job
<1>3. \A w \in Views : Running(w) => run[w] \in DOMAIN jobs /\ (w # v => run[w] # run[v])
  BY JobLemma DEF OwnInv, JobOf
<1> QED
  BY <1>1, <1>2, <1>3

\* The caller of a run gets its outcome.
LEMMA SettlePlot ==
  ASSUME TypeOK, OwnInv, NEW v \in Plots, Settle(v), PlotOK(v)
  PROVE  PlotOK(v)'
<1> DEFINE p == IF JobOf(v).at = "done" THEN [plot[v] EXCEPT !.output = JobOf(v).uses]
                ELSE plot[v]
<1>1. /\ v \in Views /\ v \notin Repls /\ plot[v] \in PlotView /\ plot \in [Plots -> PlotView]
      /\ run[v] \in DOMAIN jobs
  BY JobLemma DEF TypeOK, Views, Settle
<1>2. JobOf(v) \in Job /\ JobOf(v).uses \in Nat
  BY <1>1, JobLemma DEF JobOf, Job
<1>3. run'[v] = 0 /\ plot'[v] = Reschedule(p)
  BY <1>1 DEF Settle, TypeOK
<1>4. /\ p \in PlotView /\ p.version = plot[v].version /\ p.autoRun = plot[v].autoRun
      /\ p.timer = plot[v].timer /\ p.pendingRun = plot[v].pendingRun
      /\ p.silenced = plot[v].silenced
      /\ p.output = IF JobOf(v).at = "done" THEN JobOf(v).uses ELSE plot[v].output
  BY <1>1, <1>2 DEF PlotView
<1> HIDE DEF p
<1>5. /\ plot'[v].version = p.version /\ plot'[v].autoRun = p.autoRun
      /\ plot'[v].output = p.output /\ plot'[v].silenced = p.silenced
      /\ (p.timer \/ (p.pendingRun /\ p.autoRun)) => plot'[v].timer
  BY <1>3, <1>4 DEF Reschedule, PlotView
<1>6. plot[v].version \in Nat /\ plot[v].output \in Nat
  BY <1>1 DEF PlotView
<1>7. p.output <= p.version /\ (plot[v].output = plot[v].version => p.output = p.version)
  BY <1>1, <1>2, <1>4, <1>6 DEF PlotOK, Follows, Settle, Running
<1>8. Follows(v)'
  BY <1>3, <1>5, <1>7 DEF Follows, Running
<1>9. ASSUME p.autoRun, ~p.silenced, ~p.pendingRun, ~p.timer PROVE p.output = p.version
  <2>1. CASE plot[v].output = plot[v].version
    BY <1>7, <2>1
  <2>2. CASE /\ ~JobOf(v).aborted
             /\ JobOf(v).at = "queued" \/ JobOf(v).uses = plot[v].version
    <3>1. JobOf(v).at = "done"
      BY <1>1, <2>2 DEF Settle, Settled, OwnInv, JobOf
    <3> QED
      BY <1>4, <2>2, <3>1
  <2> QED
    BY <1>4, <1>9, <2>1, <2>2 DEF PlotOK, Due
<1>10. Due(v)'
  BY <1>5, <1>9 DEF Due
<1> QED
  BY <1>8, <1>10 DEF PlotOK

\* Another evaluation of v begins to wait.
LEMMA EnqueuePlot ==
  ASSUME TypeOK, NEW v \in Views, Enqueue(v)
  PROVE  /\ run'[v] # 0 /\ jobs'[run'[v]].at = "queued" /\ ~jobs'[run'[v]].aborted
         /\ \A w \in Views : w # v =>
              run'[w] = run[w] /\ (Running(w) => jobs'[run[w]] = jobs[run[w]])
<1>1. /\ \A r \in DOMAIN jobs : jobs'[r] = jobs[r]
      /\ jobs'[Len(jobs')] = [view |-> v, aborted |-> FALSE, at |-> "queued", uses |-> 0]
      /\ run' = [run EXCEPT ![v] = Len(jobs')] /\ Len(jobs') = Len(jobs) + 1
  BY EnqueueLemma, Zenon
<1>2. Len(jobs') # 0 /\ run \in [Views -> 0 .. Len(jobs)]
  BY <1>1, JobLemma
<1>3. run'[v] = Len(jobs')
  BY <1>1, <1>2
<1>4. jobs'[run'[v]].at = "queued" /\ ~jobs'[run'[v]].aborted
  BY <1>1, <1>3
<1> QED
  BY <1>1, <1>2, <1>3, <1>4, JobLemma

LEMMA PlotStep ==
  TypeOK /\ OwnInv /\ (\A v \in Plots : PlotOK(v)) /\ [Next]_vars
    => (\A v \in Plots : PlotOK(v))'
<1> SUFFICES ASSUME TypeOK, OwnInv, \A v \in Plots : PlotOK(v), [Next]_vars, NEW w \in Plots
             PROVE  PlotOK(w)'
  OBVIOUS
<1>0. /\ PlotOK(w) /\ w \in Views /\ plot \in [Plots -> PlotView]
      /\ run \in [Views -> 0 .. Len(jobs)] /\ plot[w] \in PlotView
      /\ plot[w].output \in Nat /\ plot[w].version \in Nat
  BY DEF TypeOK, Views, PlotView
<1>1. CASE UNCHANGED <<jobs, run, plot>>
  BY <1>0, <1>1, OtherPlot
<1>2. ASSUME NEW r \in DOMAIN jobs, NEW how \in Ended, Ends(r, how), UNCHANGED <<run, plot>>,
             AtHead(r), how = "done" => jobs[r].at = "running",
             jobs[r].at = "queued" => jobs[r].aborted
      PROVE  PlotOK(w)'
  <2>1. jobs' = [jobs EXCEPT ![r] = [jobs[r] EXCEPT !.at = how]]
    BY <1>2, EndsLemma
  <2>2. /\ \A q \in DOMAIN jobs : q # r => jobs'[q] = jobs[q]
        /\ jobs'[r].uses = jobs[r].uses /\ jobs'[r].aborted = jobs[r].aborted
        /\ jobs'[r].at = how
    BY <2>1, JobLemma DEF Job
  <2>3. how \in Body \cup {"done"} => jobs[r].at \in Body
    BY <1>2 DEF Ended, Body, Asleep
  <2> QED
    BY <1>0, <1>2, <2>2, <2>3, AdvancePlot
<1>3. ASSUME NEW r \in DOMAIN jobs, NEW to \in Body, Turns(r, to) PROVE PlotOK(w)'
  <2>1. /\ \A q \in DOMAIN jobs : q # r => jobs'[q] = jobs[q]
        /\ jobs'[r].uses = jobs[r].uses /\ jobs'[r].aborted = jobs[r].aborted
        /\ jobs[r].at \in Body /\ UNCHANGED <<run, plot>>
    BY <1>3, TurnedLemma DEF Turns
  <2>2. jobs[r].at # "queued"
    BY <2>1 DEF Body, Asleep
  <2> QED
    BY <1>0, <2>1, <2>2, AdvancePlot
<1>4. ASSUME NEW r \in DOMAIN jobs, StartNext(r) PROVE PlotOK(w)'
  <2>1. jobs[r].at = "queued" /\ AtHead(r)
    BY <1>4 DEF StartNext
  <2> QED
    BY <1>0, <1>2, <1>4, <2>1, StartLemma, BeginPlot DEF Ended
<1>5. ASSUME NEW r \in DOMAIN jobs, Unwind(r) \/ AbortedSlice(r) PROVE PlotOK(w)'
  BY <1>2, <1>5 DEF Unwind, AbortedSlice, Ended
<1>6. ASSUME NEW v \in Views, Settle(v) PROVE PlotOK(w)'
  <2>1. CASE w = v
    BY <1>0, <1>6, <2>1, SettlePlot
  <2>2. CASE w # v
    <3>1. run'[w] = run[w] /\ plot'[w] = plot[w] /\ jobs' = jobs
      BY <1>0, <1>6, <2>2 DEF Settle
    <3> QED
      BY <1>0, <3>1, OtherPlot
  <2> QED
    BY <2>1, <2>2
<1>7. ASSUME NEW r \in DOMAIN jobs, Slice(r) PROVE PlotOK(w)'
  <2>1. jobs[r].at = "running"
    BY <1>7 DEF Slice
  <2> QED
    BY <1>2, <1>3, <1>7, <2>1, SliceLemma DEF Ended, Body, Asleep
<1>8. ASSUME NEW v \in Views, Answer(v) PROVE PlotOK(w)'
  <2>1. run[v] \in DOMAIN jobs /\ Turns(run[v], "running") /\ "running" \in Body
    BY <1>8, AnswerLemma DEF Body
  <2> QED
    BY <1>3, <2>1
<1>9. ASSUME NEW v \in Repls, Enqueue(v), plot' = plot PROVE PlotOK(w)'
  <2>1. v \in Views /\ w # v
    BY DEF Views
  <2> QED
    BY <1>0, <1>9, <2>1, EnqueuePlot, OtherPlot
<1>10. ASSUME NEW v \in Views, v # w, StopIfRunning(v) \/ (Running(v) /\ Abort(v)), plot'[w] = plot[w]
       PROVE  PlotOK(w)'
  <2>1. CASE Running(v) /\ Abort(v)
    BY <1>0, <1>10, <2>1, AbortPlot, OtherPlot
  <2>2. CASE UNCHANGED <<jobs, run>>
    BY <1>0, <1>10, <2>2, OtherPlot
  <2> QED
    BY <1>10, <2>1, <2>2, StopLemma
<1>11. ASSUME StopIfRunning(w) \/ (Running(w) /\ Abort(w)), plot'[w].output = plot[w].output,
              plot'[w].version = plot[w].version,
              plot'[w].silenced \/ (Running(w) /\ plot'[w].pendingRun)
       PROVE  PlotOK(w)'
  <2>1. /\ run' = run
        /\ Running(w) => /\ jobs'[run[w]].at = jobs[run[w]].at
                         /\ jobs'[run[w]].uses = jobs[run[w]].uses
    BY <1>0, <1>11, AbortPlot, StopLemma
  <2> QED
    BY <1>0, <1>11, <2>1 DEF PlotOK, Follows, Due, Running, JobOf
<1>12. ASSUME NEW v \in Views, Stop(v) PROVE PlotOK(w)'
  <2>1. CASE w = v
    <3>1. Controls(w, plot[w].version, plot[w].autoRun, plot[w].timer, FALSE, TRUE)
      BY <1>12, <2>1, ControlsLemma
    <3> QED
      BY <1>11, <1>12, <2>1, <3>1 DEF Controls, Stop
  <2>2. CASE w # v
    <3>1. plot'[w] = plot[w]
      BY <1>0, <1>12, <2>2 DEF Stop
    <3> QED
      BY <1>10, <1>12, <2>2, <3>1 DEF Stop
  <2> QED
    BY <2>1, <2>2
<1>13. ASSUME NEW v \in Repls, Reset(v) \/ CloseRepl(v) PROVE PlotOK(w)'
  <2>1. v \in Views /\ v # w /\ StopIfRunning(v) /\ plot' = plot
    BY <1>13 DEF Reset, CloseRepl, Views
  <2> QED
    BY <1>10, <2>1
<1>14. ASSUME NEW v \in Plots, Supersede(v) \/ ClosePlot(v) PROVE PlotOK(w)'
  <2>1. /\ v \in Views /\ StopIfRunning(v)
        /\ \A u \in Plots : u # v => plot'[u] = plot[u]
        /\ plot'[v].output = plot[v].output /\ plot'[v].version = plot[v].version
    BY <1>14, ControlsLemma DEF Supersede, ClosePlot, Controls, Views
  <2>2. plot'[v].silenced \/ (Running(v) /\ plot'[v].pendingRun)
    BY <1>14, ControlsLemma DEF Supersede, Controls
  <2> QED
    BY <1>10, <1>11, <2>1, <2>2
<1>15. ASSUME NEW v \in Plots, Replot(v) \/ Refresh(v) PROVE PlotOK(w)'
  <2>1. /\ v \in Views /\ Enqueue(v)
        /\ \A u \in Plots : u # v => plot'[u] = plot[u]
        /\ plot'[v].output = plot[v].output /\ plot'[v].version = plot[v].version
    BY <1>15, ControlsLemma DEF Replot, Refresh, Controls, Views
  <2>2. CASE w = v
    BY <1>0, <2>1, <2>2, EnqueuePlot DEF PlotOK, Follows, Due, Running, JobOf, Body, Asleep
  <2>3. CASE w # v
    BY <1>0, <2>1, <2>3, EnqueuePlot, OtherPlot
  <2> QED
    BY <2>2, <2>3
<1>16. ASSUME NEW v \in Plots, Change(v) \/ ToggleAutoRun(v) PROVE PlotOK(w)'
  <2>1. jobs' = jobs /\ run' = run
    BY <1>16 DEF Change, ToggleAutoRun
  <2>2. /\ \A u \in Plots : u # v => plot'[u] = plot[u]
        /\ plot'[v].output = plot[v].output
        /\ plot'[v].version \in {plot[v].version, plot[v].version + 1}
        /\ plot'[v].autoRun => plot'[v].timer
    BY <1>16, ControlsLemma DEF Controls
  <2>3. CASE w = v
    <3>1. Due(w)'
      BY <2>2, <2>3 DEF Due
    <3>2. Running(w) => JobOf(w).uses \in Nat
      BY <1>0, JobLemma DEF JobOf, Job
    <3>3. Follows(w)'
      BY <1>0, <2>1, <2>2, <2>3, <3>2 DEF PlotOK, Follows, Running, JobOf
    <3> QED
      BY <3>1, <3>3 DEF PlotOK
  <2>4. CASE w # v
    BY <1>0, <2>1, <2>2, <2>4, OtherPlot
  <2> QED
    BY <2>3, <2>4
<1>17. CASE UNCHANGED vars
  BY <1>1, <1>17 DEF vars
<1> QED
  BY <1>1, <1>4, <1>5, <1>6, <1>7, <1>8, <1>9, <1>12, <1>13, <1>14, <1>15, <1>16, <1>17
  DEF Next, Reaction, Event, Submit, TimerFires

-----------------------------------------------------------------------------
(* The queue that the page promises *)

Waiting == {r \in DOMAIN jobs : Waits(r)}
Busy == IF chain # <<>> /\ jobs[Head(chain)].at \in Body THEN Head(chain) ELSE 0
Issued == Len(jobs)

\* Only the evaluation that has begun makes the queue busy.
BusyIsTrue ==
  /\ \A r \in DOMAIN jobs : jobs[r].at \in Body => Busy = r
  /\ Busy # 0 => Busy \in DOMAIN jobs /\ jobs[Busy].at \in Body
  /\ 0 \notin DOMAIN jobs

LEMMA BusyLemma == TypeOK /\ ChainInv => BusyIsTrue
<1> SUFFICES ASSUME TypeOK, ChainInv PROVE BusyIsTrue
  OBVIOUS
<1>1. chain # <<>> => Head(chain) \in DOMAIN jobs
  BY JobLemma DEF TypeOK
<1>2. 0 \notin DOMAIN jobs
  BY JobLemma
<1> QED
  BY <1>1, <1>2 DEF BusyIsTrue, Busy, ChainInv, AtHead

\* The evaluation at the head is the first of those that wait.
LEMMA FirstLemma ==
  ASSUME TypeOK, ChainInv, NEW r \in DOMAIN jobs, AtHead(r), NEW k \in Waiting
  PROVE  r <= k
<1>1. chain \in Seq(1 .. Len(jobs)) /\ chain # <<>> /\ chain[1] = r
  BY DEF TypeOK, AtHead
<1>2. k \in DOMAIN jobs /\ jobs[k].at \notin Ended
  BY DEF Waiting, Waits, Ended
<1>3. PICK i \in DOMAIN chain : chain[i] = k
  BY <1>2 DEF ChainInv
<1>4. i = 1 \/ chain[1] < chain[i]
  BY <1>1, <1>3 DEF ChainInv
<1> QED
  BY <1>1, <1>2, <1>3, <1>4, JobLemma

LEMMA QueueStep ==
  ASSUME TypeOK, TypeOK', ChainInv, ChainInv', [Next]_vars
  PROVE  \/ UNCHANGED <<Waiting, Busy, Issued>>
         \/ /\ Issued' = Issued + 1 /\ Waiting' = Waiting \cup {Issued'} /\ Busy' = Busy
         \/ /\ Busy # 0 /\ Busy' = 0 /\ UNCHANGED <<Waiting, Issued>>
         \/ \E r \in Waiting :
              /\ Waiting' = Waiting \ {r} /\ Issued' = Issued
              /\ \/ Busy = 0 /\ Busy' = r /\ \A k \in Waiting : r <= k
                 \/ Busy' = Busy
<1> DEFINE Goal ==
      \/ UNCHANGED <<Waiting, Busy, Issued>>
      \/ /\ Issued' = Issued + 1 /\ Waiting' = Waiting \cup {Issued'} /\ Busy' = Busy
      \/ /\ Busy # 0 /\ Busy' = 0 /\ UNCHANGED <<Waiting, Issued>>
      \/ \E r \in Waiting :
           /\ Waiting' = Waiting \ {r} /\ Issued' = Issued
           /\ \/ Busy = 0 /\ Busy' = r /\ \A k \in Waiting : r <= k
              \/ Busy' = Busy
<1>0. /\ \A r \in DOMAIN jobs' : jobs'[r].at \in Body => Busy' = r
      /\ Busy' # 0 => Busy' \in DOMAIN jobs' /\ jobs'[Busy'].at \in Body
      /\ 0 \notin DOMAIN jobs'
  <2>1. (TypeOK /\ ChainInv => BusyIsTrue)'
    BY BusyLemma, PTL
  <2> QED
    BY <2>1 DEF BusyIsTrue
<1>1. /\ \A r \in DOMAIN jobs : jobs[r].at \in Body => Busy = r
      /\ Busy # 0 => Busy \in DOMAIN jobs /\ jobs[Busy].at \in Body
      /\ 0 \notin DOMAIN jobs
  BY BusyLemma DEF BusyIsTrue
<1>2. CASE UNCHANGED <<jobs, chain, run>>
  BY <1>2 DEF Waiting, Waits, Busy, Issued
<1>3. ASSUME DOMAIN jobs' = DOMAIN jobs,
             \A q \in DOMAIN jobs : jobs'[q].at \in Body <=> jobs[q].at \in Body
      PROVE  Busy' = Busy
  BY <1>0, <1>1, <1>3
<1>4. ASSUME NEW r \in DOMAIN jobs, NEW how \in Ended, Closes(r, how) PROVE Goal
  <2>1. /\ jobs' = [jobs EXCEPT ![r] = [jobs[r] EXCEPT !.at = how]]
        /\ Len(jobs') = Len(jobs) /\ jobs' \in Seq(Job)
    BY <1>4, EndsLemma DEF Closes
  <2>2. /\ DOMAIN jobs' = DOMAIN jobs /\ jobs'[r].at = how
        /\ \A q \in DOMAIN jobs : q # r => jobs'[q] = jobs[q]
    BY <2>1, JobLemma DEF Job
  <2>3. how \notin Body /\ how # "queued" /\ ~Waits(r)
    BY <1>4 DEF Closes, Ended, Body, Asleep, Waits
  <2>4. Waiting' = Waiting /\ Issued' = Issued
    BY <2>1, <2>2, <2>3 DEF Waiting, Waits, Issued
  <2>5. CASE jobs[r].at \in Body
    <3>1. Busy = r /\ r # 0
      BY <1>1, <2>5
    <3>2. Busy' = 0
      BY <1>0, <1>1, <2>2, <2>3, <3>1
    <3> QED
      BY <2>4, <3>1, <3>2
  <2>6. CASE jobs[r].at \notin Body
    BY <1>3, <2>2, <2>3, <2>4, <2>6
  <2> QED
    BY <2>5, <2>6
<1>5. ASSUME NEW r \in DOMAIN jobs, Starts(r) PROVE Goal
  <2>1. /\ DOMAIN jobs' = DOMAIN jobs /\ jobs'[r].at = "running"
        /\ \A q \in DOMAIN jobs : q # r => jobs'[q] = jobs[q]
        /\ ~jobs[r].aborted /\ AtHead(r) /\ jobs[r].at = "queued" /\ jobs[r].at \notin Body
    BY <1>5, BeginsLemma DEF Starts, Body, Asleep
  <2>2. Busy' = r
    BY <1>0, <2>1 DEF Body
  <2>3. Busy = 0
    <3>1. chain # <<>> /\ Head(chain) = r
      BY <2>1 DEF AtHead
    <3> QED
      BY <2>1, <3>1 DEF Busy
  <2>4. Len(jobs') = Len(jobs)
    BY <2>1, JobLemma DEF TypeOK
  <2>5. r \in Waiting /\ Waiting' = Waiting \ {r} /\ Issued' = Issued
    BY <2>1, <2>4 DEF Waiting, Waits, Issued
  <2> QED
    BY <2>1, <2>2, <2>3, <2>5, FirstLemma
<1>6. ASSUME NEW r \in DOMAIN jobs, NEW to \in Body, Turns(r, to) PROVE Goal
  <2>1. /\ DOMAIN jobs' = DOMAIN jobs /\ jobs'[r].at = to /\ jobs[r].at \in Body
        /\ \A q \in DOMAIN jobs : q # r => jobs'[q] = jobs[q]
    BY <1>6, TurnedLemma DEF Turns
  <2>2. Busy' = Busy
    BY <1>3, <2>1
  <2>3. Waiting' = Waiting
    BY <2>1 DEF Waiting, Waits, Body, Asleep
  <2>4. Issued' = Issued
    BY <2>1, JobLemma DEF TypeOK, Issued
  <2> QED
    BY <2>2, <2>3, <2>4
<1>7. ASSUME NEW v \in Views, Settles(v) PROVE Goal
  BY <1>7 DEF Settles, Waiting, Waits, Busy, Issued
<1>8. ASSUME NEW v \in Views, Enqueue(v) PROVE Goal
  <2> DEFINE n == Len(jobs')
  <2>1. /\ \A r \in DOMAIN jobs : jobs'[r] = jobs[r]
        /\ jobs'[n] = [view |-> v, aborted |-> FALSE, at |-> "queued", uses |-> 0]
        /\ n = Len(jobs) + 1 /\ jobs' \in Seq(Job)
    BY <1>8, EnqueueLemma, Zenon
  <2>2. /\ DOMAIN jobs' = DOMAIN jobs \cup {n} /\ n \notin DOMAIN jobs
        /\ jobs'[n].at = "queued" /\ ~jobs'[n].aborted
    BY <2>1, JobLemma
  <2>3. Waiting' = Waiting \cup {n}
    BY <2>1, <2>2 DEF Waiting, Waits
  <2>4. Busy' = Busy
    BY <1>0, <1>1, <2>1, <2>2 DEF Body, Asleep
  <2> QED
    BY <2>1, <2>3, <2>4 DEF Issued
<1>9. ASSUME NEW v \in Views, Running(v), Abort(v) PROVE Goal
  <2> DEFINE r == run[v]
  <2>1. /\ jobs' = [jobs EXCEPT ![r] = [jobs[r] EXCEPT !.aborted = TRUE]]
        /\ r \in DOMAIN jobs /\ Len(jobs') = Len(jobs)
    BY <1>9, AbortLemma, Zenon
  <2>2. /\ DOMAIN jobs' = DOMAIN jobs
        /\ \A q \in DOMAIN jobs : jobs'[q].at = jobs[q].at
        /\ \A q \in DOMAIN jobs : q # r => jobs'[q] = jobs[q]
        /\ jobs'[r].aborted
    BY <2>1, JobLemma DEF Job
  <2>3. Busy' = Busy
    BY <1>3, <2>2
  <2>4. Waiting' = Waiting \ {r} /\ Issued' = Issued
    BY <2>1, <2>2 DEF Waiting, Waits, Issued
  <2> QED
    BY <2>3, <2>4
<1> QED
  BY <1>2, <1>4, <1>5, <1>6, <1>7, <1>8, <1>9, MoveLemma DEF Moves

-----------------------------------------------------------------------------
(* Theorems *)

IInv ==
  /\ TypeOK /\ ChainInv /\ OwnInv /\ ShownIsTrue
  /\ \A v \in Repls : Owns(v)
  /\ \A v \in Plots : PlotOK(v)

LEMMA InitInv == Init => IInv
<1> SUFFICES ASSUME Init PROVE IInv
  OBVIOUS
<1>1. TypeOK
  BY DEF Init, TypeOK, ReplView, PlotView
<1>2. ChainInv /\ OwnInv
  BY DEF Init, ChainInv, OwnInv, Running
<1>3. ShownIsTrue
  BY DEF Init, ShownIsTrue, Running
<1>4. ASSUME NEW v \in Repls PROVE Owns(v)
  BY <1>4 DEF Init, Owns, Running, Views
<1>5. ASSUME NEW v \in Plots PROVE PlotOK(v)
  BY <1>5 DEF Init, PlotOK, Follows, Due, Running, Views
<1> QED
  BY <1>1, <1>2, <1>3, <1>4, <1>5 DEF IInv

LEMMA InvStep == IInv /\ [Next]_vars => IInv'
BY TypeStep, ChainStep, OwnStep, ShownStep, SessionStep, PlotStep DEF IInv

\* The queue, the controllers, the views and the sessions always have the
\* shape of the model.
THEOREM TypeTheorem == Spec => []TypeOK
<1>1. IInv => TypeOK
  BY DEF IInv
<1> QED
  BY <1>1, InitInv, InvStep, PTL DEF Spec

\* What a view shows is what its evaluation does
\* (createEvaluationController, createStdinRequester).
THEOREM ShownTheorem == Spec => []ShownIsTrue
<1>1. IInv => ShownIsTrue
  BY DEF IInv
<1> QED
  BY <1>1, InitInv, InvStep, PTL DEF Spec

\* An idle view has no task left, and a task has the session of its view
\* (queueEval, the reset of a session).
THEOREM SessionTheorem == Spec => []SessionIsOwn
<1>1. IInv => SessionIsOwn
  BY DEF IInv, OwnInv, Owns, SessionIsOwn
<1> QED
  BY <1>1, InitInv, InvStep, PTL DEF Spec

\* No change of the controls is lost (runViz, scheduleRun).
THEOREM UpdateTheorem == Spec => []UpdateNotLost
<1>1. IInv => UpdateNotLost
  BY DEF IInv, PlotOK, Due, UpdateNotLost
<1> QED
  BY <1>1, InitInv, InvStep, PTL DEF Spec

\* The page serves evaluations one at a time and in their order, and none that
\* was stopped before it began (queueEval).
THEOREM QueueTheorem == Spec => QueueSpec
<1>1. Init => Q!Init
  BY DEF Init, Q!Init
<1>2. ASSUME IInv, IInv', [Next]_vars PROVE [Q!Next]_(Q!vars)
  <2>1. \/ UNCHANGED <<Waiting, Busy, Issued>>
        \/ /\ Issued' = Issued + 1 /\ Waiting' = Waiting \cup {Issued'} /\ Busy' = Busy
        \/ /\ Busy # 0 /\ Busy' = 0 /\ UNCHANGED <<Waiting, Issued>>
        \/ \E r \in Waiting :
             /\ Waiting' = Waiting \ {r} /\ Issued' = Issued
             /\ \/ Busy = 0 /\ Busy' = r /\ \A k \in Waiting : r <= k
                \/ Busy' = Busy
    BY <1>2, QueueStep DEF IInv
  <2> QED
    BY <2>1 DEF Waiting, Busy, Issued, Q!Next, Q!Ask, Q!Finish, Q!Serve, Q!Cancel, Q!vars
<1>3. IInv /\ IInv' /\ [Next]_vars => [Q!Next]_(Q!vars)
  BY <1>2
<1> QED
  BY <1>1, <1>3, InitInv, InvStep, PTL DEF Spec, QueueSpec, Q!Spec
=============================================================================
