----------------------- MODULE BrowserSession_proofs -----------------------
(***************************************************************************)
(* The browser session, proved for any number of evaluations, requests and *)
(* notifications and scripts of any length.  The invariant says, for each  *)
(* place the evaluation loop can be in, what the core is in the middle of. *)
(***************************************************************************)
EXTENDS BrowserSession, TLAPS

USE BoundsAssumption

\* No evaluation, and nothing of one.
Clear(c) ==
  /\ c.evaluation = NoEval /\ c.token = NoEval /\ c.input = NoId /\ c.pause = NoId
  /\ ~c.hostError

\* The evaluation e is the core's and the session's.
Owned(c, e) == e # NoEval /\ c.evaluation = e /\ c.token = e

\* Nothing is pending but, after a read that failed, the error of it.
Idle(c) == c.input = NoId /\ c.pause = NoId /\ (c.hostError => c.fragment)
Silent(c) == c.input = NoId /\ c.pause = NoId /\ ~c.hostError

\* The request i, or the pause i, is all that is pending.
Asked(c, i) == c.input = i /\ i # NoId /\ c.pause = NoId /\ ~c.hostError /\ c.fragment
Stopped(c, i) == c.pause = i /\ i # NoId /\ c.input = NoId /\ ~c.hostError

\* The core when the loop has still to act on a slice that ended with status.
Fits(c, status, e, ref) ==
  /\ status = "ready" => Clear(c)
  /\ status = "yielded" => Owned(c, e) /\ Silent(c)
  /\ status = "paused" => Owned(c, e) /\ Stopped(c, ref)

\* Where the loop is, and what the core is in the middle of.
CoreOK(c, r) ==
  /\ r.at = "none" => Clear(c)
  /\ r.at \in {"top", "slice"} => Owned(c, r.eval) /\ Idle(c)
  /\ r.at = "yield" => Fits(c, "yielded", r.eval, r.ref)
  /\ r.at = "input" => Owned(c, r.eval) /\ Asked(c, r.ref)
  /\ r.at = "pause" => Fits(c, "paused", r.eval, r.ref)
  /\ r.at = "note" => Fits(c, r.then, r.eval, r.ref)

\* The facade's fields, the loop, and the calls on the stack.
HostOK(j, c, r, h) ==
  /\ j.activeEvaluation <=> r.at # "none"
  /\ h = "slice" <=> r.at = "slice"
  /\ h = "call" => r.at = "none"
  /\ j.activeCalls = IF h = "none" THEN 0 ELSE 1
  /\ j.session <=> c.frees = 0
  /\ ~j.session => j.disposeRequested /\ r.at = "none" /\ h = "none"
  /\ j.activePauseId # NoId => r.at = "pause" /\ r.ref = j.activePauseId
  /\ j.disposeRequested /\ j.session => r.at # "none" \/ h # "none"

Hosts == {"none", "call", "slice"}
Worlds == [js : JsState, core : CoreState, run : RunState]

WorldOK(w, h) ==
  /\ w \in Worlds /\ h \in Hosts
  /\ CoreOK(w.core, w.run) /\ HostOK(w.js, w.core, w.run, h)

\* The inductive invariant.
IInv == WorldOK(Now, host)

-----------------------------------------------------------------------------
(* Worlds, field by field *)

LEMMA WorldLemma ==
  ASSUME NEW j, NEW c, NEW r
  PROVE  /\ World(j, c, r).js = j /\ World(j, c, r).core = c
         /\ World(j, c, r).run = r
         /\ j \in JsState /\ c \in CoreState /\ r \in RunState
              <=> World(j, c, r) \in Worlds
BY DEF World, Worlds

LEMMA PartsLemma ==
  ASSUME NEW w \in Worlds
  PROVE  /\ w.js \in JsState /\ w.core \in CoreState /\ w.run \in RunState
         /\ w = World(w.js, w.core, w.run)
BY DEF World, Worlds

LEMMA TypeLemma == IInv => TypeOK
BY WorldLemma DEF IInv, WorldOK, Now, TypeOK, Hosts

LEMMA BecomeLemma ==
  ASSUME NEW w, Become(w), WorldOK(w, host')
  PROVE  IInv'
<1>1. w = World(js', core', run')
  BY PartsLemma DEF WorldOK, Become
<1> QED
  BY <1>1 DEF IInv, Now

-----------------------------------------------------------------------------
(* The ways out of an evaluation *)

\* Between two sections of an evaluation that is in flight, or that has just
\* been refused under a call on the stack.
Leaving(w, h) ==
  /\ w \in Worlds /\ h \in {"none", "call"}
  /\ w.js.session /\ w.core.frees = 0
  /\ w.js.activeCalls = IF h = "none" THEN 0 ELSE 1

LEMMA RangesLemma ==
  /\ NoEval \in EvalIds \cup {NoEval} /\ NoId \in Ids \cup {NoId}
  /\ 0 \in 0 .. MaxItems /\ 0 \in 0 .. MaxNotes /\ 0 \in 0 .. 1 /\ 1 \in 0 .. 1
  /\ FALSE \in BOOLEAN /\ TRUE \in BOOLEAN
BY DEF BoundsAssumption

LEMMA LoadLemma ==
  ASSUME NEW c \in CoreState
  PROVE  /\ LoadInstructions(c) \in CoreState
         /\ LoadInstructions(c).frees = c.frees
         /\ LoadInstructions(c).evaluation = c.evaluation
         /\ LoadInstructions(c).token = c.token
         /\ LoadInstructions(c).left = c.left
         /\ LoadInstructions(c).input = NoId
         /\ LoadInstructions(c).pause = NoId
         /\ LoadInstructions(c).hostError = FALSE
BY DEF LoadInstructions, CoreState, NoId, Ids, EvalIds

LEMMA ResetLemma ==
  ASSUME NEW c \in CoreState
  PROVE  /\ ResetExecution(c) \in CoreState
         /\ ResetExecution(c).frees = c.frees
         /\ ResetExecution(c).evaluation = c.evaluation
         /\ ResetExecution(c).token = NoEval
         /\ ResetExecution(c).input = NoId
         /\ ResetExecution(c).pause = NoId
         /\ ResetExecution(c).hostError = FALSE
<1> DEFINE l == LoadInstructions(c)
           d == [l EXCEPT !.token = NoEval, !.halted = FALSE, !.notes = 0]
<1>1. /\ l \in CoreState /\ l.frees = c.frees /\ l.evaluation = c.evaluation
      /\ l.input = NoId /\ l.pause = NoId /\ l.hostError = FALSE
  BY LoadLemma
<1> HIDE DEF l
<1>2. d \in CoreState
  BY <1>1, RangesLemma, Zenon DEF CoreState
<1>4. /\ d.frees = l.frees /\ d.evaluation = l.evaluation /\ d.token = NoEval
      /\ d.input = l.input /\ d.pause = l.pause /\ d.hostError = l.hostError
  BY <1>1, Zenon DEF CoreState
<1> HIDE DEF d
<1>3. ResetExecution(c) = d
  BY Zenon DEF ResetExecution, d, l
<1> QED
  BY <1>1, <1>2, <1>3, <1>4

LEMMA CancelLemma ==
  ASSUME NEW c \in CoreState,
         Clear(c) \/ (c.evaluation # NoEval /\ c.token = c.evaluation)
  PROVE  /\ CancelEvaluation(c) \in CoreState /\ CancelEvaluation(c).frees = c.frees
         /\ Clear(CancelEvaluation(c))
<1>1. CASE c.evaluation = NoEval
  <2>1. CancelEvaluation(c) = c
    BY <1>1, Zenon DEF CancelEvaluation
  <2> QED
    BY <1>1, <2>1 DEF Clear
<1>2. CASE c.evaluation # NoEval
  <2> DEFINE d == ResetExecution(c)
             z == [d EXCEPT !.evaluation = NoEval, !.fragment = FALSE, !.left = 0]
  <2>1. c.token = c.evaluation
    BY <1>2 DEF Clear
  <2>2. /\ d \in CoreState /\ d.frees = c.frees /\ d.token = NoEval
        /\ d.input = NoId /\ d.pause = NoId /\ d.hostError = FALSE
    BY ResetLemma
  <2> HIDE DEF d
  <2>3. z \in CoreState
    BY <2>2, RangesLemma, Zenon DEF CoreState
  <2>5. /\ z.frees = d.frees /\ z.evaluation = NoEval
        /\ z.token = d.token /\ z.input = d.input /\ z.pause = d.pause
        /\ z.hostError = d.hostError
    BY <2>2, Zenon DEF CoreState
  <2> HIDE DEF z
  <2>4. CancelEvaluation(c) = z
    BY <1>2, <2>1, Zenon DEF CancelEvaluation, z, d
  <2> QED
    BY <2>2, <2>3, <2>4, <2>5 DEF Clear
<1> QED
  BY <1>1, <1>2

LEMMA FlushLemma ==
  ASSUME NEW w, NEW h, Leaving(w, h), ~w.js.activeEvaluation,
         w.js.activePauseId = NoId, w.run.at = "none", Clear(w.core)
  PROVE  WorldOK(FlushDisposal(w), h)
<1> DEFINE j == [w.js EXCEPT !.session = FALSE]
           c == [w.core EXCEPT !.frees = 1]
<1>1. /\ w.js \in JsState /\ w.core \in CoreState /\ w.run \in RunState
      /\ w = World(w.js, w.core, w.run)
  BY PartsLemma DEF Leaving
<1>2. CASE ~CanFlush(w.js)
  <2>1. FlushDisposal(w) = w
    BY <1>2 DEF FlushDisposal
  <2>2. w.js.disposeRequested => h # "none"
    BY <1>2 DEF CanFlush, Leaving
  <2>3. HostOK(w.js, w.core, w.run, h)
    BY <2>2 DEF HostOK, Leaving
  <2>4. CoreOK(w.core, w.run)
    BY DEF CoreOK
  <2> QED
    BY <2>1, <2>3, <2>4 DEF WorldOK, Leaving, Hosts
<1>3. CASE CanFlush(w.js)
  <2>1. j \in JsState /\ c \in CoreState
    BY <1>1, RangesLemma, Zenon DEF JsState, CoreState
  <2>2. /\ j.activeCalls = w.js.activeCalls /\ j.activePauseId = w.js.activePauseId
        /\ j.activeEvaluation = w.js.activeEvaluation /\ ~j.session
        /\ c.frees = 1 /\ c.evaluation = w.core.evaluation /\ c.token = w.core.token
        /\ c.input = w.core.input /\ c.pause = w.core.pause
        /\ c.hostError = w.core.hostError
    BY <1>1, Zenon DEF JsState, CoreState
  <2>3. FlushDisposal(w) = World(j, c, w.run)
    <3>1. w.core.frees + 1 = 1
      BY DEF Leaving
    <3> QED
      BY <1>3, <3>1, Zenon DEF FlushDisposal
  <2>8. j.disposeRequested = w.js.disposeRequested
    BY <1>1, Zenon DEF JsState
  <2> HIDE DEF j, c
  <2>4. h = "none" /\ j.disposeRequested
    BY <1>3, <2>8 DEF CanFlush, Leaving
  <2>5. HostOK(j, c, w.run, h)
    BY <2>2, <2>4 DEF HostOK, Leaving
  <2>6. CoreOK(c, w.run)
    BY <2>2 DEF CoreOK, Clear
  <2>7. World(j, c, w.run) \in Worlds
    BY <1>1, <2>1, WorldLemma
  <2> QED
    BY <2>3, <2>4, <2>5, <2>6, <2>7, WorldLemma DEF WorldOK, Hosts
<1> QED
  BY <1>2, <1>3

LEMMA SettledLemma ==
  ASSUME NEW r \in RunState, NEW outcome \in Outcomes
  PROVE  Settled(r, outcome) \in RunState /\ Settled(r, outcome).at = "none"
<1>1. r.eval \in EvalIds \cup {NoEval}
  BY DEF RunState
<1>2. InitRun \in RunState /\ InitRun.at = "none"
  BY RangesLemma DEF InitRun, RunState, Phases, Wakes, Statuses, Outcomes
<1> HIDE DEF InitRun
<1>3. [InitRun EXCEPT !.eval = r.eval, !.outcome = outcome] \in RunState
  BY <1>1, <1>2, Zenon DEF RunState
<1>4. [InitRun EXCEPT !.eval = r.eval, !.outcome = outcome].at = "none"
  BY <1>2, Zenon DEF RunState
<1> QED
  BY <1>3, <1>4, Zenon DEF Settled

\* What an evaluation is when its loop is left: over, or still the session's.
Cancellable(c) == Clear(c) \/ (c.evaluation # NoEval /\ c.token = c.evaluation)

LEMMA FinishLemma ==
  ASSUME NEW w, NEW h, Leaving(w, h), NEW finished \in BOOLEAN,
         NEW outcome \in Outcomes, Cancellable(w.core), finished => Clear(w.core)
  PROVE  WorldOK(FinishEvaluation(w, finished, outcome), h)
<1> DEFINE c == IF ~finished /\ w.js.session THEN CancelEvaluation(w.core) ELSE w.core
           j == [w.js EXCEPT !.activePauseId = NoId, !.activeEvaluation = FALSE]
           r == Settled(w.run, outcome)
           v == World(j, c, r)
<1>1. /\ w.js \in JsState /\ w.core \in CoreState /\ w.run \in RunState
      /\ w = World(w.js, w.core, w.run)
  BY PartsLemma DEF Leaving
<1>2. c \in CoreState /\ c.frees = 0 /\ Clear(c)
  BY <1>1, CancelLemma DEF Leaving, Cancellable
<1>3. j \in JsState
  BY <1>1, RangesLemma, Zenon DEF JsState
<1>4. /\ j.session = w.js.session /\ j.activeCalls = w.js.activeCalls
      /\ j.activePauseId = NoId /\ ~j.activeEvaluation
  BY <1>1, Zenon DEF JsState
<1>5. r \in RunState /\ r.at = "none"
  BY <1>1, SettledLemma
<1>6. FinishEvaluation(w, finished, outcome) = FlushDisposal(v)
  BY Zenon DEF FinishEvaluation
<1>7. v \in Worlds /\ v.js = j /\ v.core = c /\ v.run = r
  BY <1>2, <1>3, <1>5, WorldLemma
<1> HIDE DEF c, j, r, v
<1>8. Leaving(v, h)
  BY <1>2, <1>4, <1>7 DEF Leaving
<1>9. WorldOK(FlushDisposal(v), h)
  BY <1>2, <1>4, <1>5, <1>7, <1>8, FlushLemma
<1> QED
  BY <1>6, <1>9

-----------------------------------------------------------------------------
(* The ways on *)

\* A section of the loop is running.
Looping(w) ==
  /\ w \in Worlds
  /\ w.js.session /\ w.core.frees = 0 /\ w.js.activeCalls = 0 /\ w.js.activeEvaluation

LEMMA LoopingLemma ==
  ASSUME NEW w, Looping(w)
  PROVE  /\ w.js \in JsState /\ w.core \in CoreState /\ w.run \in RunState
         /\ w.run.ref \in Ids \cup {NoId} /\ w.run.eval \in EvalIds \cup {NoEval}
         /\ w.core.notes \in 0 .. MaxNotes
         /\ Leaving(w, "none")
<1>1. w.js \in JsState /\ w.core \in CoreState /\ w.run \in RunState
  BY PartsLemma DEF Looping
<1>2. w.run.ref \in Ids \cup {NoId} /\ w.run.eval \in EvalIds \cup {NoEval}
  BY <1>1, Zenon DEF RunState
<1>3. w.core.notes \in 0 .. MaxNotes
  BY <1>1, Zenon DEF CoreState
<1> QED
  BY <1>1, <1>2, <1>3 DEF Looping, Leaving

LEMMA PlacedLemma ==
  ASSUME NEW w, Looping(w), NEW r, r \in RunState, r.at \in Phases \ {"none", "slice"},
         CoreOK(w.core, r),
         w.js.activePauseId # NoId => r.at = "pause" /\ r.ref = w.js.activePauseId
  PROVE  WorldOK(World(w.js, w.core, r), "none")
<1>1. w.js \in JsState /\ w.core \in CoreState
  BY LoopingLemma
<1>2. World(w.js, w.core, r) \in Worlds
  BY <1>1, WorldLemma
<1>3. HostOK(w.js, w.core, r, "none")
  BY DEF HostOK, Looping
<1> QED
  BY <1>2, <1>3, WorldLemma DEF WorldOK, Hosts

LEMMA AwaitLemma ==
  ASSUME NEW w, Looping(w), NEW at \in {"note", "input", "pause"},
         NEW ref \in Ids \cup {NoId},
         w.js.activePauseId # NoId => at = "pause" /\ ref = w.js.activePauseId,
         at = "input" => Owned(w.core, w.run.eval) /\ Asked(w.core, ref),
         at = "pause" => Fits(w.core, "paused", w.run.eval, ref),
         at = "note" => Fits(w.core, w.run.then, w.run.eval, ref)
  PROVE  WorldOK(Await(w, at, ref), "none")
<1> DEFINE wake == EntryWake(w)
           r == [w.run EXCEPT !.at = at, !.ref = ref, !.wake = wake]
<1>1. w.run \in RunState
  BY LoopingLemma
<1>2. wake \in Wakes /\ at \in Phases
  BY DEF EntryWake, Wakes, Phases
<1> HIDE DEF wake
<1>3. r \in RunState
  BY <1>1, <1>2, Zenon DEF RunState
<1>4. r.at = at /\ r.ref = ref /\ r.eval = w.run.eval /\ r.then = w.run.then
  BY <1>1, Zenon DEF RunState
<1> HIDE DEF r
<1>5. CoreOK(w.core, r)
  BY <1>4 DEF CoreOK
<1>6. WorldOK(World(w.js, w.core, r), "none")
  BY <1>2, <1>3, <1>4, <1>5, PlacedLemma
<1>7. Await(w, at, ref) = World(w.js, w.core, r)
  BY Zenon DEF Await, r, wake
<1> QED
  BY <1>6, <1>7

LEMMA GoOnLemma ==
  ASSUME NEW w, Looping(w), NEW c, c \in CoreState, c.frees = 0,
         NEW at \in {"top", "yield"}, w.js.activePauseId = NoId,
         Owned(c, w.run.eval), at = "top" => Idle(c), at = "yield" => Silent(c)
  PROVE  WorldOK(GoOn(w, c, at), "none")
<1> DEFINE r == [w.run EXCEPT !.at = at, !.wake = "none"]
           v == World(w.js, c, w.run)
<1>1. w.js \in JsState /\ w.run \in RunState
  BY LoopingLemma
<1>2. "none" \in Wakes /\ at \in Phases
  BY DEF Wakes, Phases
<1>3. r \in RunState
  BY <1>1, <1>2, Zenon DEF RunState
<1>4. r.at = at /\ r.eval = w.run.eval /\ r.ref = w.run.ref
  BY <1>1, Zenon DEF RunState
<1> HIDE DEF r
<1>5. v \in Worlds /\ v.js = w.js /\ v.core = c /\ v.run = w.run
  BY <1>1, WorldLemma
<1> HIDE DEF v
<1>6. Looping(v)
  BY <1>5 DEF Looping
<1>7. CoreOK(c, r)
  BY <1>4 DEF CoreOK, Fits
<1>8. WorldOK(World(v.js, v.core, r), "none")
  BY <1>2, <1>3, <1>4, <1>5, <1>6, <1>7, PlacedLemma
<1>9. GoOn(w, c, at) = World(w.js, c, r)
  BY Zenon DEF GoOn, r
<1> QED
  BY <1>5, <1>8, <1>9

LEMMA ResumePauseLemma ==
  ASSUME NEW c \in CoreState, NEW e, NEW i, Owned(c, e), Stopped(c, i)
  PROVE  /\ CanResumePause(c, i)
         /\ ResumePause(c) \in CoreState /\ ResumePause(c).frees = c.frees
         /\ Owned(ResumePause(c), e) /\ Idle(ResumePause(c))
<1> DEFINE d == [c EXCEPT !.pause = NoId]
<1>1. d \in CoreState
  BY RangesLemma, Zenon DEF CoreState
<1>2. /\ d.frees = c.frees /\ d.evaluation = c.evaluation /\ d.token = c.token
      /\ d.input = c.input /\ d.pause = NoId /\ d.hostError = c.hostError
  BY Zenon DEF CoreState
<1> HIDE DEF d
<1>3. ResumePause(c) = d
  BY Zenon DEF ResumePause, d
<1> QED
  BY <1>1, <1>2, <1>3 DEF Owned, Stopped, Idle, CanResumePause

LEMMA ResumeInputLemma ==
  ASSUME NEW c \in CoreState, NEW e, NEW i, NEW kind, Owned(c, e), Asked(c, i)
  PROVE  /\ CanResumeInput(c, i)
         /\ ResumeInput(c, kind) \in CoreState /\ ResumeInput(c, kind).frees = c.frees
         /\ Owned(ResumeInput(c, kind), e) /\ Idle(ResumeInput(c, kind))
<1> DEFINE failed == kind = "error"
           d == [c EXCEPT !.input = NoId, !.hostError = failed]
<1>1. failed \in BOOLEAN
  OBVIOUS
<1> HIDE DEF failed
<1>2. d \in CoreState
  BY <1>1, RangesLemma, Zenon DEF CoreState
<1>3. /\ d.frees = c.frees /\ d.evaluation = c.evaluation /\ d.token = c.token
      /\ d.input = NoId /\ d.pause = c.pause
  BY Zenon DEF CoreState
<1>4. d.fragment = c.fragment
  BY Zenon DEF CoreState
<1> HIDE DEF d
<1>5. ResumeInput(c, kind) = d
  BY Zenon DEF ResumeInput, d, failed
<1> QED
  BY <1>2, <1>3, <1>4, <1>5 DEF Owned, Asked, Idle, CanResumeInput

LEMMA ContinueLemma ==
  ASSUME NEW w, Looping(w), w.js.activePauseId = NoId, NEW status \in Statuses,
         Fits(w.core, status, w.run.eval, w.run.ref)
  PROVE  WorldOK(Continue(w, status), "none")
<1>1. /\ w.js \in JsState /\ w.core \in CoreState /\ w.run \in RunState
      /\ w.run.ref \in Ids \cup {NoId} /\ Leaving(w, "none")
  BY LoopingLemma
<1>2. CASE status = "ready"
  <2>1. Clear(w.core)
    BY <1>2 DEF Fits
  <2>2. WorldOK(FinishEvaluation(w, TRUE, "value"), "none")
    BY <1>1, <2>1, FinishLemma DEF Cancellable, Outcomes
  <2>3. Continue(w, status) = FinishEvaluation(w, TRUE, "value")
    BY <1>2 DEF Continue
  <2> QED
    BY <2>2, <2>3
<1>3. CASE status = "yielded"
  <2>1. Owned(w.core, w.run.eval) /\ Silent(w.core)
    BY <1>3 DEF Fits
  <2>2. WorldOK(GoOn(w, w.core, "yield"), "none")
    BY <1>1, <2>1, GoOnLemma DEF Looping
  <2>3. Continue(w, status) = GoOn(w, w.core, "yield")
    BY <1>3 DEF Continue
  <2> QED
    BY <2>2, <2>3
<1>4. CASE status = "paused" /\ w.run.pauser
  <2> DEFINE j == [w.js EXCEPT !.activePauseId = w.run.ref]
             v == World(j, w.core, w.run)
  <2>1. j \in JsState
    BY <1>1, Zenon DEF JsState
  <2>2. /\ j.activePauseId = w.run.ref /\ j.activeCalls = w.js.activeCalls
        /\ j.session = w.js.session /\ j.activeEvaluation = w.js.activeEvaluation
    BY <1>1, Zenon DEF JsState
  <2> HIDE DEF j
  <2>3. v \in Worlds /\ v.js = j /\ v.core = w.core /\ v.run = w.run
    BY <1>1, <2>1, WorldLemma
  <2> HIDE DEF v
  <2>4. Looping(v)
    BY <2>2, <2>3 DEF Looping
  <2>5. WorldOK(Await(v, "pause", w.run.ref), "none")
    BY <1>1, <1>4, <2>2, <2>3, <2>4, AwaitLemma
  <2>6. Continue(w, status) = Await(v, "pause", w.run.ref)
    BY <1>4, Zenon DEF Continue, v, j
  <2> QED
    BY <2>5, <2>6
<1>5. CASE status = "paused" /\ ~w.run.pauser
  <2>1. Owned(w.core, w.run.eval) /\ Stopped(w.core, w.run.ref)
    BY <1>5 DEF Fits
  <2> DEFINE c == ResumePause(w.core)
  <2>2. /\ CanResumePause(w.core, w.run.ref) /\ c \in CoreState /\ c.frees = w.core.frees
        /\ Owned(c, w.run.eval) /\ Idle(c)
    BY <1>1, <2>1, ResumePauseLemma
  <2> HIDE DEF c
  <2>3. WorldOK(GoOn(w, c, "top"), "none")
    BY <2>2, GoOnLemma DEF Looping
  <2>4. Continue(w, status) = GoOn(w, c, "top")
    BY <1>5, <2>2 DEF Continue, c
  <2> QED
    BY <2>3, <2>4
<1> QED
  BY <1>2, <1>3, <1>4, <1>5 DEF Statuses

LEMMA DeliverLemma ==
  ASSUME NEW w, Looping(w), w.js.activePauseId = NoId, NEW status \in Statuses,
         Fits(w.core, status, w.run.eval, w.run.ref)
  PROVE  WorldOK(Deliver(w, status), "none")
<1>1. /\ w.js \in JsState /\ w.core \in CoreState /\ w.run \in RunState
      /\ w.run.ref \in Ids \cup {NoId} /\ w.core.notes \in 0 .. MaxNotes
  BY LoopingLemma
<1>2. CASE w.run.notifier /\ w.core.notes > 0
  <2> DEFINE c == [w.core EXCEPT !.notes = 0]
             r == [w.run EXCEPT !.notes = w.core.notes, !.then = status]
             v == World(w.js, c, r)
  <2>1. c \in CoreState /\ r \in RunState
    BY <1>1, RangesLemma, Zenon DEF CoreState, RunState
  <2>2. /\ c.frees = w.core.frees /\ c.evaluation = w.core.evaluation
        /\ c.token = w.core.token /\ c.input = w.core.input
        /\ c.pause = w.core.pause /\ c.hostError = w.core.hostError
    BY <1>1, Zenon DEF CoreState
  <2>3. r.eval = w.run.eval /\ r.then = status
    BY <1>1, Zenon DEF RunState
  <2> HIDE DEF c, r
  <2>4. v \in Worlds /\ v.js = w.js /\ v.core = c /\ v.run = r
    BY <1>1, <2>1, WorldLemma
  <2> HIDE DEF v
  <2>5. Looping(v)
    BY <2>2, <2>4 DEF Looping
  <2>6. Fits(c, status, w.run.eval, w.run.ref)
    BY <2>2 DEF Fits, Owned, Silent, Stopped, Clear
  <2>7. WorldOK(Await(v, "note", w.run.ref), "none")
    BY <1>1, <2>3, <2>4, <2>5, <2>6, AwaitLemma
  <2>8. Deliver(w, status) = Await(v, "note", w.run.ref)
    BY <1>2, Zenon DEF Deliver, v, c, r
  <2> QED
    BY <2>7, <2>8
<1>3. CASE ~(w.run.notifier /\ w.core.notes > 0)
  <2>1. Deliver(w, status) = Continue(w, status)
    BY <1>3, Zenon DEF Deliver
  <2> QED
    BY <2>1, ContinueLemma
<1> QED
  BY <1>2, <1>3

LEMMA AnswerLemma ==
  ASSUME NEW w, Looping(w), w.js.activePauseId = NoId, NEW kind,
         Owned(w.core, w.run.eval), Asked(w.core, w.run.ref)
  PROVE  WorldOK(Answer(w, kind), "none")
<1> DEFINE c == ResumeInput(w.core, kind)
<1>1. w.core \in CoreState
  BY LoopingLemma
<1>2. /\ CanResumeInput(w.core, w.run.ref) /\ c \in CoreState /\ c.frees = w.core.frees
      /\ Owned(c, w.run.eval) /\ Idle(c)
  BY <1>1, ResumeInputLemma
<1> HIDE DEF c
<1>3. WorldOK(GoOn(w, c, "top"), "none")
  BY <1>2, GoOnLemma DEF Looping
<1>4. Answer(w, kind) = GoOn(w, c, "top")
  BY <1>2 DEF Answer, c
<1> QED
  BY <1>3, <1>4

-----------------------------------------------------------------------------
(* The outcome of a slice *)

\* The core as the poll that ended with this status leaves it.
Outcome(p, e) ==
  /\ p.core \in CoreState /\ p.ref \in Ids \cup {NoId}
  /\ p.status \in Statuses \cup {"error", "awaiting"}
  /\ p.status = "error" => Clear(p.core)
  /\ p.status = "awaiting" => Owned(p.core, e) /\ Asked(p.core, p.ref)
  /\ Fits(p.core, p.status, e, p.ref)

LEMMA HandleSliceLemma ==
  ASSUME NEW w, Looping(w), w.js.activePauseId = NoId,
         NEW p, Outcome(p, w.run.eval), p.core.frees = 0
  PROVE  WorldOK(HandleSlice(w, p), "none")
<1> DEFINE r == [w.run EXCEPT !.ref = p.ref]
           v == World(w.js, p.core, r)
<1>1. w.js \in JsState /\ w.run \in RunState
  BY LoopingLemma
<1>2. p.core \in CoreState /\ p.ref \in Ids \cup {NoId}
  BY DEF Outcome
<1>3. r \in RunState
  BY <1>1, <1>2, Zenon DEF RunState
<1>4. r.ref = p.ref /\ r.eval = w.run.eval
  BY <1>1, Zenon DEF RunState
<1>a. r.stdin = w.run.stdin
  BY <1>1, Zenon DEF RunState
<1> HIDE DEF r
<1>5. v \in Worlds /\ v.js = w.js /\ v.core = p.core /\ v.run = r
  BY <1>1, <1>2, <1>3, WorldLemma
<1>b. HandleSlice(w, p) =
        CASE p.status = "error" -> FinishEvaluation(v, FALSE, "error")
          [] p.status = "awaiting" ->
               IF v.run.stdin THEN Await(v, "input", p.ref) ELSE Answer(v, "error")
          [] OTHER -> Deliver(v, p.status)
  BY Zenon DEF HandleSlice, r
<1> HIDE DEF v
<1>6. Looping(v)
  BY <1>5 DEF Looping
<1>7. CASE p.status = "error"
  <2>1. WorldOK(FinishEvaluation(v, FALSE, "error"), "none")
    BY <1>5, <1>6, <1>7, LoopingLemma, FinishLemma DEF Outcome, Outcomes, Cancellable
  <2>2. HandleSlice(w, p) = FinishEvaluation(v, FALSE, "error")
    BY <1>7, <1>b
  <2> QED
    BY <2>1, <2>2
<1>8. CASE p.status = "awaiting"
  <2>1. Owned(v.core, v.run.eval) /\ Asked(v.core, p.ref) /\ v.run.ref = p.ref
    BY <1>4, <1>5, <1>8 DEF Outcome
  <2>2. WorldOK(Await(v, "input", p.ref), "none")
    BY <1>2, <1>5, <1>6, <2>1, AwaitLemma
  <2>3. WorldOK(Answer(v, "error"), "none")
    BY <1>5, <1>6, <2>1, AnswerLemma
  <2>4. HandleSlice(w, p) = IF v.run.stdin THEN Await(v, "input", p.ref)
                                           ELSE Answer(v, "error")
    BY <1>8, <1>b
  <2> QED
    BY <2>2, <2>3, <2>4
<1>9. CASE p.status \in Statuses
  <2>1. Fits(v.core, p.status, v.run.eval, v.run.ref)
    BY <1>4, <1>5 DEF Outcome
  <2>2. WorldOK(Deliver(v, p.status), "none")
    BY <1>5, <1>6, <1>9, <2>1, DeliverLemma
  <2>3. HandleSlice(w, p) = Deliver(v, p.status)
    BY <1>9, <1>b DEF Statuses
  <2> QED
    BY <2>2, <2>3
<1> QED
  BY <1>7, <1>8, <1>9 DEF Outcome

LEMMA EndLemma ==
  ASSUME NEW c \in CoreState, Silent(c)
  PROVE  /\ EndEvaluation(c) \in CoreState /\ EndEvaluation(c).frees = c.frees
         /\ Clear(EndEvaluation(c))
<1> DEFINE d == [c EXCEPT !.evaluation = NoEval, !.token = NoEval,
                          !.fragment = FALSE, !.left = 0]
<1>1. d \in CoreState
  BY RangesLemma, Zenon DEF CoreState
<1>2. /\ d.frees = c.frees /\ d.evaluation = NoEval /\ d.token = NoEval
      /\ d.input = c.input /\ d.pause = c.pause /\ d.hostError = c.hostError
  BY Zenon DEF CoreState
<1> HIDE DEF d
<1>3. EndEvaluation(c) = d
  BY Zenon DEF EndEvaluation, d
<1> QED
  BY <1>1, <1>2, <1>3 DEF Clear, Silent

\* A slice of a fragment as the interpreter leaves it; n is its count of frees.
Sliced(p, e, n) ==
  /\ p.core \in CoreState /\ p.core.frees = n /\ Owned(p.core, e)
  /\ p.ref \in Ids \cup {NoId}
  /\ p.status \in {"yielded", "awaiting", "paused", "error", "end"}
  /\ p.status = "awaiting" => Asked(p.core, p.ref)
  /\ p.status = "paused" => Stopped(p.core, p.ref)
  /\ p.status \in {"yielded", "error", "end"} => Silent(p.core)

LEMMA PollPartsLemma ==
  ASSUME NEW status, NEW c, NEW ref
  PROVE  /\ Poll(status, c, ref).status = status /\ Poll(status, c, ref).core = c
         /\ Poll(status, c, ref).ref = ref
BY DEF Poll

LEMMA QuietLemma ==
  ASSUME NEW c \in CoreState, NEW e, Owned(c, e), Silent(c),
         NEW status \in {"yielded", "error", "end"}
  PROVE  Sliced(Poll(status, c, NoId), e, c.frees)
BY PollPartsLemma, RangesLemma DEF Sliced

LEMMA RunningLemma ==
  ASSUME NEW c \in CoreState, NEW e, Owned(c, e), Silent(c), c.fragment,
         NEW p \in Running(c)
  PROVE  Sliced(p, e, c.frees)
<1>1. CASE p \in {Poll("yielded", c, NoId), Poll("error", c, NoId), Poll("end", c, NoId)}
  BY <1>1, QuietLemma
<1>2. CASE p = Poll("end", [c EXCEPT !.halted = TRUE], NoId)
  <2> DEFINE d == [c EXCEPT !.halted = TRUE]
  <2>1. d \in CoreState
    BY RangesLemma, Zenon DEF CoreState
  <2>2. /\ d.frees = c.frees /\ d.evaluation = c.evaluation /\ d.token = c.token
        /\ d.input = c.input /\ d.pause = c.pause /\ d.hostError = c.hostError
    BY Zenon DEF CoreState
  <2> HIDE DEF d
  <2>3. Owned(d, e) /\ Silent(d)
    BY <2>2 DEF Owned, Silent
  <2>4. Sliced(Poll("end", d, NoId), e, d.frees)
    BY <2>1, <2>3, QuietLemma
  <2> QED
    BY <1>2, <2>2, <2>4 DEF d
<1>3. ASSUME NEW i \in {c.nextInput} \cap Ids,
             p = Poll("awaiting", [c EXCEPT !.input = i, !.nextInput = i + 1], i)
      PROVE  Sliced(p, e, c.frees)
  <2> DEFINE k == i + 1
             d == [c EXCEPT !.input = i, !.nextInput = k]
  <2>1. i # NoId /\ i \in Ids \cup {NoId} /\ k \in 1 .. MaxRequests + 1
    BY DEF Ids, NoId
  <2> HIDE DEF k
  <2>2. d \in CoreState
    BY <2>1, Zenon DEF CoreState
  <2>3. /\ d.frees = c.frees /\ d.evaluation = c.evaluation /\ d.token = c.token
        /\ d.input = i /\ d.pause = c.pause
    BY Zenon DEF CoreState
  <2>4. ~d.hostError /\ d.fragment
    BY Zenon DEF CoreState, Silent
  <2> HIDE DEF d
  <2>5. p = Poll("awaiting", d, i)
    BY <1>3, Zenon DEF d, k
  <2> QED
    BY <2>1, <2>2, <2>3, <2>4, <2>5, PollPartsLemma DEF Sliced, Owned, Asked, Silent
<1>4. ASSUME NEW i \in {c.nextPause} \cap Ids,
             p = Poll("paused", [c EXCEPT !.pause = i, !.nextPause = i + 1], i)
      PROVE  Sliced(p, e, c.frees)
  <2> DEFINE k == i + 1
             d == [c EXCEPT !.pause = i, !.nextPause = k]
  <2>1. i # NoId /\ i \in Ids \cup {NoId} /\ k \in 1 .. MaxRequests + 1
    BY DEF Ids, NoId
  <2> HIDE DEF k
  <2>2. d \in CoreState
    BY <2>1, Zenon DEF CoreState
  <2>3. /\ d.frees = c.frees /\ d.evaluation = c.evaluation /\ d.token = c.token
        /\ d.input = c.input /\ d.pause = i /\ d.hostError = c.hostError
    BY Zenon DEF CoreState
  <2> HIDE DEF d
  <2>4. p = Poll("paused", d, i)
    BY <1>4, Zenon DEF d, k
  <2> QED
    BY <2>1, <2>2, <2>3, <2>4, PollPartsLemma DEF Sliced, Owned, Stopped, Silent
<1> QED
  BY <1>1, <1>2, <1>3, <1>4, Zenon DEF Running

LEMMA InterpretLemma ==
  ASSUME NEW c \in CoreState, NEW e, Owned(c, e), Idle(c), c.fragment,
         NEW p \in Interpret(c)
  PROVE  Sliced(p, e, c.frees)
<1>1. CASE c.hostError
  <2> DEFINE d == [c EXCEPT !.hostError = FALSE]
  <2>1. d \in CoreState
    BY RangesLemma, Zenon DEF CoreState
  <2>2. /\ d.frees = c.frees /\ d.evaluation = c.evaluation /\ d.token = c.token
        /\ d.input = c.input /\ d.pause = c.pause /\ ~d.hostError
    BY Zenon DEF CoreState
  <2>3. d.fragment = c.fragment
    BY Zenon DEF CoreState
  <2>4. \/ p = Poll("error", d, NoId) \/ p = Poll("end", d, NoId) \/ p \in Running(d)
    BY <1>1, Zenon DEF Interpret
  <2> HIDE DEF d
  <2>5. Owned(d, e) /\ Silent(d)
    BY <2>2 DEF Owned, Silent, Idle
  <2> QED
    BY <2>1, <2>2, <2>3, <2>4, <2>5, QuietLemma, RunningLemma
<1>2. CASE ~c.hostError
  <2>1. p = Poll("end", c, NoId) \/ p \in Running(c)
    BY <1>2 DEF Interpret, Idle
  <2>2. Silent(c)
    BY <1>2 DEF Silent, Idle
  <2> QED
    BY <2>1, <2>2, QuietLemma, RunningLemma
<1> QED
  BY <1>1, <1>2

LEMMA AfterFragmentLemma ==
  ASSUME NEW p, NEW e, NEW n, Sliced(p, e, n)
  PROVE  Outcome(AfterFragment(p), e) /\ AfterFragment(p).core.frees = n
<1> DEFINE c == p.core
           d == EndEvaluation(c)
           z == [c EXCEPT !.fragment = FALSE]
<1>1. c \in CoreState /\ c.left \in 0 .. MaxItems
  BY DEF Sliced, CoreState
<1>2. CASE p.status = "error" \/ (p.status = "end" /\ (c.halted \/ c.left = 0))
  <2>1. d \in CoreState /\ d.frees = n /\ Clear(d)
    BY <1>1, <1>2, EndLemma DEF Sliced
  <2> HIDE DEF d
  <2>2. CASE p.status = "error"
    <3>1. AfterFragment(p) = Poll("error", d, NoId)
      BY <2>2 DEF AfterFragment, d
    <3> QED
      BY <2>1, <3>1, PollPartsLemma, RangesLemma DEF Outcome, Fits
  <2>3. CASE p.status = "end" /\ (c.halted \/ c.left = 0)
    <3>1. AfterFragment(p) = Poll("ready", d, NoId)
      BY <2>3 DEF AfterFragment, d
    <3> QED
      BY <2>1, <3>1, PollPartsLemma, RangesLemma DEF Outcome, Fits, Statuses
  <2> QED
    BY <1>2, <2>2, <2>3
<1>3. CASE p.status = "end" /\ ~(c.halted \/ c.left = 0)
  <2>1. z \in CoreState
    BY <1>1, RangesLemma, Zenon DEF CoreState
  <2>2. /\ z.frees = c.frees /\ z.evaluation = c.evaluation /\ z.token = c.token
        /\ z.input = c.input /\ z.pause = c.pause /\ z.hostError = c.hostError
    BY <1>1, Zenon DEF CoreState
  <2>3. c.left > 0 /\ ~c.halted
    BY <1>1, <1>3
  <2>4. AfterFragment(p) = Poll("yielded", z, NoId)
    BY <1>3, <2>3 DEF AfterFragment
  <2> HIDE DEF z
  <2> QED
    BY <1>3, <2>1, <2>2, <2>4, PollPartsLemma, RangesLemma
       DEF Sliced, Outcome, Fits, Statuses, Owned, Silent
<1>4. CASE p.status \notin {"error", "end"}
  <2>1. AfterFragment(p) = p
    BY <1>4 DEF AfterFragment
  <2> QED
    BY <1>4, <2>1 DEF Sliced, Outcome, Fits, Statuses
<1> QED
  BY <1>2, <1>3, <1>4

LEMMA PollLemma ==
  ASSUME NEW c \in CoreState, NEW e, Owned(c, e), Idle(c),
         NEW p \in PollEvaluation(c)
  PROVE  Outcome(p, e) /\ p.core.frees = c.frees
<1>1. c.token = c.evaluation /\ c.left \in 0 .. MaxItems
  BY DEF Owned, CoreState
<1>2. CASE c.fragment
  <2>1. PICK q \in Interpret(c) : p = AfterFragment(q)
    BY <1>1, <1>2 DEF PollEvaluation
  <2>2. Sliced(q, e, c.frees)
    BY <1>2, InterpretLemma
  <2> QED
    BY <2>1, <2>2, AfterFragmentLemma
<1>3. CASE ~c.fragment /\ c.left = 0
  <2>1. p = Poll("ready", EndEvaluation(c), NoId)
    BY <1>1, <1>3 DEF PollEvaluation
  <2>2. Silent(c)
    BY <1>3 DEF Idle, Silent
  <2> QED
    BY <2>1, <2>2, EndLemma, PollPartsLemma, RangesLemma DEF Outcome, Fits, Statuses
<1>4. CASE ~c.fragment /\ c.left # 0
  <2> DEFINE k == c.left - 1
             item == [c EXCEPT !.left = k]
             l == LoadInstructions(item)
             loaded == [l EXCEPT !.fragment = TRUE]
  <2>1. k \in 0 .. MaxItems
    BY <1>1, <1>4
  <2>2. p = Poll("error", EndEvaluation(item), NoId)
        \/ \E q \in Interpret(loaded) : p = AfterFragment(q)
    BY <1>1, <1>4, Zenon DEF PollEvaluation
  <2> HIDE DEF k
  <2>3. item \in CoreState
    BY <2>1, Zenon DEF CoreState
  <2>4. /\ item.frees = c.frees /\ item.evaluation = c.evaluation
        /\ item.token = c.token /\ item.input = c.input
        /\ item.pause = c.pause /\ item.hostError = c.hostError
    BY Zenon DEF CoreState
  <2> HIDE DEF item
  <2>5. Silent(item)
    BY <1>4, <2>4 DEF Idle, Silent
  <2>6. /\ l \in CoreState /\ l.frees = c.frees /\ l.evaluation = c.evaluation
        /\ l.token = c.token /\ l.input = NoId /\ l.pause = NoId /\ l.hostError = FALSE
    BY <2>3, <2>4, LoadLemma
  <2> HIDE DEF l
  <2>7. loaded \in CoreState /\ loaded.fragment
    BY <2>6, RangesLemma, Zenon DEF CoreState
  <2>8. /\ loaded.frees = l.frees /\ loaded.evaluation = l.evaluation
        /\ loaded.token = l.token /\ loaded.input = l.input
        /\ loaded.pause = l.pause /\ loaded.hostError = l.hostError
    BY <2>6, Zenon DEF CoreState
  <2> HIDE DEF loaded
  <2>9. Owned(loaded, e) /\ Idle(loaded)
    BY <2>6, <2>8 DEF Owned, Idle
  <2>10. CASE p = Poll("error", EndEvaluation(item), NoId)
    BY <2>3, <2>4, <2>5, <2>10, EndLemma, PollPartsLemma, RangesLemma DEF Outcome, Fits
  <2>11. ASSUME NEW q \in Interpret(loaded), p = AfterFragment(q)
         PROVE  Outcome(p, e) /\ p.core.frees = c.frees
    <3>1. Sliced(q, e, c.frees)
      BY <2>6, <2>7, <2>8, <2>9, InterpretLemma
    <3> QED
      BY <2>11, <3>1, AfterFragmentLemma
  <2> QED
    BY <2>2, <2>10, <2>11
<1> QED
  BY <1>2, <1>3, <1>4

LEMMA NotesLemma ==
  ASSUME NEW c \in CoreState, NEW n \in 0 .. MaxNotes
  PROVE  /\ [c EXCEPT !.notes = n] \in CoreState
         /\ \A r : CoreOK(c, r) => CoreOK([c EXCEPT !.notes = n], r)
         /\ \A status, e, ref : Outcome(Poll(status, c, ref), e)
              => Outcome(Poll(status, [c EXCEPT !.notes = n], ref), e)
         /\ [c EXCEPT !.notes = n].frees = c.frees
<1> DEFINE d == [c EXCEPT !.notes = n]
<1>1. d \in CoreState
  BY Zenon DEF CoreState
<1>2. /\ d.frees = c.frees /\ d.evaluation = c.evaluation /\ d.token = c.token
      /\ d.input = c.input /\ d.pause = c.pause
  BY Zenon DEF CoreState
<1>3. d.hostError <=> c.hostError
  BY Zenon DEF CoreState
<1>4. d.fragment <=> c.fragment
  BY Zenon DEF CoreState
<1> HIDE DEF d
<1>5. /\ Clear(d) <=> Clear(c)
      /\ Idle(d) <=> Idle(c)
      /\ Silent(d) <=> Silent(c)
  BY <1>2, <1>3, <1>4 DEF Clear, Idle, Silent
<1>6. /\ \A e : Owned(d, e) <=> Owned(c, e)
      /\ \A i : Asked(d, i) <=> Asked(c, i)
      /\ \A i : Stopped(d, i) <=> Stopped(c, i)
  BY <1>2, <1>3, <1>4 DEF Owned, Asked, Stopped
<1>7. \A status, e, ref : Fits(d, status, e, ref) <=> Fits(c, status, e, ref)
  BY <1>5, <1>6 DEF Fits
<1>8. \A r : CoreOK(c, r) => CoreOK(d, r)
  BY <1>5, <1>6, <1>7 DEF CoreOK
<1>9. \A status, e, ref : Outcome(Poll(status, c, ref), e)
        => Outcome(Poll(status, d, ref), e)
  BY <1>1, <1>5, <1>6, <1>7, PollPartsLemma DEF Outcome
<1> QED
  BY <1>1, <1>2, <1>8, <1>9 DEF d

-----------------------------------------------------------------------------
(* The steps of the loop *)

LEMMA StateLemma ==
  ASSUME IInv
  PROVE  /\ js \in JsState /\ core \in CoreState /\ run \in RunState /\ host \in Hosts
         /\ CoreOK(core, run) /\ HostOK(js, core, run, host)
         /\ Now \in Worlds /\ Now.js = js /\ Now.core = core /\ Now.run = run
BY WorldLemma DEF IInv, WorldOK, Now

LEMMA AwakeLemma ==
  ASSUME IInv, run.at \notin {"none", "slice"}
  PROVE  host = "none" /\ Looping(Now)
<1>1. host = "none"
  BY StateLemma DEF HostOK, Hosts
<1> QED
  BY <1>1, StateLemma DEF HostOK, Looping

\* The loop is left while an evaluation is in flight.
LEMMA LeaveLemma ==
  ASSUME IInv, run.at \notin {"none", "slice"}, NEW outcome \in Outcomes
  PROVE  WorldOK(FinishEvaluation(Now, FALSE, outcome), "none")
<1>1. Looping(Now)
  BY AwakeLemma
<1>2. Cancellable(core)
  <2>1. run.at \in Phases /\ run.then \in Statuses
    BY StateLemma DEF RunState
  <2> QED
    BY <2>1, StateLemma DEF CoreOK, Fits, Cancellable, Owned, Phases, Statuses
<1>3. Leaving(Now, "none") /\ Now.core = core
  BY <1>1, LoopingLemma, StateLemma
<1> QED
  BY <1>2, <1>3, FinishLemma

LEMMA InitLemma == Init => IInv
<1> SUFFICES ASSUME Init PROVE IInv
  OBVIOUS
<1>1. js \in JsState
  BY RangesLemma DEF Init, InitJs, JsState
<1>2. core \in CoreState
  BY RangesLemma DEF Init, InitCore, CoreState
<1>3. run \in RunState
  BY RangesLemma DEF Init, InitRun, RunState, Phases, Wakes, Statuses, Outcomes
<1>4. CoreOK(core, run) /\ HostOK(js, core, run, host)
  BY DEF Init, InitJs, InitCore, InitRun, CoreOK, HostOK, Clear
<1>5. host \in Hosts
  BY DEF Init, Hosts
<1> QED
  BY <1>1, <1>2, <1>3, <1>4, <1>5, WorldLemma DEF IInv, WorldOK, Now

LEMMA EnterSliceLemma ==
  ASSUME IInv, EnterSlice PROVE IInv'
<1>1. run.at = "top" /\ host = "none" /\ Looping(Now)
  BY AwakeLemma DEF EnterSlice
<1>2. CASE js.disposeRequested
  <2>1. Become(FinishEvaluation(Now, FALSE, "disposed")) /\ host' = "none"
    BY <1>1, <1>2 DEF EnterSlice
  <2> QED
    BY <1>1, <2>1, LeaveLemma, BecomeLemma DEF Outcomes
<1>3. CASE ~js.disposeRequested /\ run.aborted
  <2>1. Become(FinishEvaluation(Now, FALSE, "aborted")) /\ host' = "none"
    BY <1>1, <1>3 DEF EnterSlice
  <2> QED
    BY <1>1, <2>1, LeaveLemma, BecomeLemma DEF Outcomes
<1>4. CASE ~js.disposeRequested /\ ~run.aborted
  <2> DEFINE j == [js EXCEPT !.activeCalls = 1]
             r == [run EXCEPT !.at = "slice"]
  <2>1. js.activeCalls + 1 = 1
    BY <1>1, StateLemma DEF Looping
  <2>2. js' = j /\ run' = r /\ host' = "slice" /\ core' = core
    BY <1>1, <1>4, <2>1, Zenon DEF EnterSlice
  <2>3. "slice" \in Phases
    BY DEF Phases
  <2>4. j \in JsState /\ r \in RunState
    BY <2>3, StateLemma, RangesLemma, Zenon DEF JsState, RunState
  <2>5. /\ j.activeCalls = 1 /\ j.session = js.session
        /\ j.activePauseId = js.activePauseId
        /\ j.activeEvaluation = js.activeEvaluation
        /\ j.disposeRequested = js.disposeRequested
    BY StateLemma, Zenon DEF JsState
  <2>6. r.at = "slice" /\ r.eval = run.eval /\ r.ref = run.ref
    BY StateLemma, Zenon DEF RunState
  <2> HIDE DEF j, r
  <2>7. CoreOK(core, r)
    BY <1>1, <2>6, StateLemma DEF CoreOK
  <2>8. HostOK(j, core, r, "slice")
    BY <1>1, <2>5, <2>6, StateLemma DEF HostOK, Looping
  <2>9. WorldOK(World(j, core, r), "slice")
    BY <2>4, <2>7, <2>8, StateLemma, WorldLemma DEF WorldOK, Hosts
  <2> QED
    BY <2>2, <2>9 DEF IInv, Now
<1> QED
  BY <1>2, <1>3, <1>4

LEMMA LeaveSliceLemma ==
  ASSUME IInv, LeaveSlice PROVE IInv'
<1> DEFINE j == [js EXCEPT !.activeCalls = 0]
           v == World(j, core, run)
<1>1. /\ run.at = "slice" /\ host = "slice" /\ host' = "none"
      /\ js.activeCalls = 1 /\ js.activeEvaluation /\ js.session /\ core.frees = 0
      /\ js.activePauseId = NoId /\ Owned(core, run.eval) /\ Idle(core)
  BY StateLemma DEF LeaveSlice, HostOK, CoreOK
<1>2. PICK p \in PollEvaluation(core), n \in core.notes .. MaxNotes :
        Become(HandleSlice(LeaveCall(Now),
                           Poll(p.status, [p.core EXCEPT !.notes = n], p.ref)))
  BY DEF LeaveSlice
<1>3. j \in JsState
  BY StateLemma, RangesLemma, Zenon DEF JsState
<1>4. /\ j.activeCalls = 0 /\ j.session = js.session
      /\ j.activePauseId = js.activePauseId
      /\ j.activeEvaluation = js.activeEvaluation
  BY StateLemma, Zenon DEF JsState
<1>5. LeaveCall(Now) = v
  <2>1. [js EXCEPT !.activeCalls = @ - 1] = j
    BY <1>1
  <2>2. LeaveCall(Now) = FlushDisposal(v)
    BY <2>1, StateLemma, Zenon DEF LeaveCall
  <2>3. ~CanFlush(j)
    BY <1>1, <1>4 DEF CanFlush
  <2> QED
    BY <2>2, <2>3, WorldLemma DEF FlushDisposal
<1> HIDE DEF j
<1>6. v \in Worlds /\ v.js = j /\ v.core = core /\ v.run = run
  BY <1>3, StateLemma, WorldLemma
<1> HIDE DEF v
<1>7. Looping(v)
  BY <1>1, <1>4, <1>6 DEF Looping
<1>8. Outcome(p, run.eval) /\ p.core.frees = 0
  BY <1>1, StateLemma, PollLemma
<1>9. p.core \in CoreState /\ n \in 0 .. MaxNotes
  <2>1. core.notes \in 0 .. MaxNotes
    BY StateLemma DEF CoreState
  <2> QED
    BY <1>8, <2>1 DEF Outcome
<1> DEFINE c == [p.core EXCEPT !.notes = n]
           q == Poll(p.status, c, p.ref)
<1>10. Outcome(Poll(p.status, p.core, p.ref), run.eval)
  BY <1>8, PollPartsLemma DEF Outcome
<1>11. Outcome(q, run.eval) /\ c.frees = 0
  BY <1>8, <1>9, <1>10, NotesLemma
<1> HIDE DEF c
<1>12. q.core.frees = 0
  BY <1>11, PollPartsLemma
<1> HIDE DEF q
<1>13. WorldOK(HandleSlice(v, q), "none")
  BY <1>1, <1>4, <1>6, <1>7, <1>11, <1>12, HandleSliceLemma
<1>14. Become(HandleSlice(v, q))
  BY <1>2, <1>5 DEF q, c
<1> QED
  BY <1>1, <1>13, <1>14, BecomeLemma

LEMMA HostTaskLemma ==
  ASSUME IInv, HostTask PROVE IInv'
<1> DEFINE r == [run EXCEPT !.at = "top"]
<1>1. run.at = "yield" /\ host = "none" /\ Looping(Now)
  BY AwakeLemma DEF HostTask
<1>2. js' = js /\ core' = core /\ run' = r /\ host' = "none"
  BY <1>1, Zenon DEF HostTask
<1>3. "top" \in Phases
  BY DEF Phases
<1>4. r \in RunState
  BY <1>3, StateLemma, Zenon DEF RunState
<1>5. r.at = "top" /\ r.eval = run.eval /\ r.ref = run.ref
  BY StateLemma, Zenon DEF RunState
<1> HIDE DEF r
<1>6. CoreOK(core, r) /\ js.activePauseId = NoId
  BY <1>1, <1>5, StateLemma DEF CoreOK, HostOK, Fits, Silent, Idle
<1>7. WorldOK(World(js, core, r), "none")
  BY <1>1, <1>3, <1>4, <1>5, <1>6, StateLemma, PlacedLemma
<1> QED
  BY <1>2, <1>7 DEF IInv, Now

LEMMA WakeNoteLemma ==
  ASSUME IInv, WakeNote PROVE IInv'
<1> DEFINE k == run.notes - 1
           w(n) == World(js, core, [run EXCEPT !.notes = n])
<1>1. run.at = "note" /\ run.wake \in Wakes \ {"none"} /\ host = "none" /\ Looping(Now)
  BY AwakeLemma, StateLemma DEF WakeNote, RunState
<1>2. host' = "none" /\ js.activePauseId = NoId
  BY <1>1, StateLemma DEF WakeNote, HostOK
<1>3. run.then \in Statuses /\ run.ref \in Ids \cup {NoId} /\ run.notes \in 0 .. MaxNotes
  BY StateLemma DEF RunState
<1>4. Fits(core, run.then, run.eval, run.ref)
  BY <1>1, StateLemma DEF CoreOK
<1>5. ASSUME NEW n \in 0 .. MaxNotes
      PROVE  /\ WorldOK(Await(w(n), "note", run.ref), "none")
             /\ WorldOK(Continue(w(n), run.then), "none")
  <2> DEFINE r == [run EXCEPT !.notes = n]
  <2>1. r \in RunState
    BY StateLemma, Zenon DEF RunState
  <2>2. r.eval = run.eval /\ r.ref = run.ref /\ r.then = run.then
    BY StateLemma, Zenon DEF RunState
  <2> HIDE DEF r
  <2> DEFINE v == World(js, core, r)
  <2>3. v \in Worlds /\ v.js = js /\ v.core = core /\ v.run = r
    BY <2>1, StateLemma, WorldLemma
  <2> HIDE DEF v
  <2>4. Looping(v)
    BY <1>1, <2>3, StateLemma DEF Looping
  <2>5. WorldOK(Await(v, "note", run.ref), "none")
    BY <1>2, <1>3, <1>4, <2>2, <2>3, <2>4, AwaitLemma
  <2>6. WorldOK(Continue(v, run.then), "none")
    BY <1>2, <1>3, <1>4, <2>2, <2>3, <2>4, ContinueLemma
  <2>7. v = w(n)
    BY DEF v, r
  <2> QED
    BY <2>5, <2>6, <2>7
<1> HIDE DEF w
<1>6. CASE run.wake = "value" /\ run.notes > 1
  <2>1. k \in 0 .. MaxNotes
    BY <1>3, <1>6
  <2>2. Become(Await(w(k), "note", run.ref))
    BY <1>6, Zenon DEF WakeNote, w
  <2> QED
    BY <1>2, <1>5, <2>1, <2>2, BecomeLemma
<1>7. CASE run.wake = "value" /\ ~(run.notes > 1)
  <2>1. Become(Continue(w(0), run.then))
    BY <1>7, Zenon DEF WakeNote, w
  <2> QED
    BY <1>2, <1>5, <2>1, RangesLemma, BecomeLemma
<1>8. CASE run.wake # "value"
  <2>1. \E outcome \in Outcomes : Become(FinishEvaluation(Now, FALSE, outcome))
    BY <1>1, <1>8 DEF WakeNote, Wakes, Outcomes
  <2> QED
    BY <1>1, <1>2, <2>1, LeaveLemma, BecomeLemma
<1> QED
  BY <1>6, <1>7, <1>8

LEMMA WakeInputLemma ==
  ASSUME IInv, WakeInput PROVE IInv'
<1>1. run.at = "input" /\ host = "none" /\ Looping(Now) /\ host' = "none"
  BY AwakeLemma DEF WakeInput
<1>2. Owned(core, run.eval) /\ Asked(core, run.ref) /\ js.activePauseId = NoId
  BY <1>1, StateLemma DEF CoreOK, HostOK
<1>3. \/ \E kind \in {"line", "eof", "error"} : Become(Answer(Now, kind))
      \/ \E outcome \in Outcomes : Become(FinishEvaluation(Now, FALSE, outcome))
  BY DEF WakeInput, Outcomes
<1>4. ASSUME NEW kind PROVE WorldOK(Answer(Now, kind), "none")
  BY <1>1, <1>2, StateLemma, AnswerLemma
<1>5. ASSUME NEW outcome \in Outcomes
      PROVE  WorldOK(FinishEvaluation(Now, FALSE, outcome), "none")
  BY <1>1, LeaveLemma
<1> QED
  BY <1>1, <1>3, <1>4, <1>5, BecomeLemma

LEMMA WakePauseLemma ==
  ASSUME IInv, WakePause PROVE IInv'
<1> DEFINE j == [js EXCEPT !.activePauseId = NoId]
           v == ForgetPause(Now)
<1>1. run.at = "pause" /\ host = "none" /\ Looping(Now) /\ host' = "none"
  BY AwakeLemma DEF WakePause
<1>2. Owned(core, run.eval) /\ Stopped(core, run.ref)
  BY <1>1, StateLemma DEF CoreOK, Fits
<1>3. j \in JsState
  BY StateLemma, RangesLemma, Zenon DEF JsState
<1>4. /\ j.activePauseId = NoId /\ j.activeCalls = js.activeCalls
      /\ j.session = js.session /\ j.activeEvaluation = js.activeEvaluation
  BY StateLemma, Zenon DEF JsState
<1>5. v = World(j, core, run)
  BY StateLemma, Zenon DEF ForgetPause
<1> HIDE DEF j, v
<1>6. v \in Worlds /\ v.js = j /\ v.core = core /\ v.run = run
  BY <1>3, <1>5, StateLemma, WorldLemma
<1>7. Looping(v) /\ Leaving(v, "none")
  <2>1. Looping(v)
    BY <1>1, <1>4, <1>6, StateLemma DEF Looping
  <2> QED
    BY <2>1, LoopingLemma
<1>8. \/ Become(GoOn(v, ResumePause(core), "top"))
      \/ \E outcome \in Outcomes : Become(FinishEvaluation(v, FALSE, outcome))
  BY DEF WakePause, Outcomes, v
<1>9. WorldOK(GoOn(v, ResumePause(core), "top"), "none")
  <2> DEFINE c == ResumePause(core)
  <2>1. c \in CoreState /\ c.frees = core.frees /\ Owned(c, run.eval) /\ Idle(c)
    BY <1>2, StateLemma, ResumePauseLemma
  <2> HIDE DEF c
  <2>2. WorldOK(GoOn(v, c, "top"), "none")
    BY <1>4, <1>6, <1>7, <2>1, GoOnLemma DEF Looping
  <2> QED
    BY <2>2 DEF c
<1>10. ASSUME NEW outcome \in Outcomes
       PROVE  WorldOK(FinishEvaluation(v, FALSE, outcome), "none")
  BY <1>2, <1>6, <1>7, FinishLemma DEF Cancellable, Owned
<1> QED
  BY <1>1, <1>8, <1>9, <1>10, BecomeLemma

-----------------------------------------------------------------------------
(* The steps of user code *)

LEMMA EvalAsyncLemma ==
  ASSUME IInv, NEW items \in 0 .. MaxItems, NEW o \in Options,
         NEW refused \in {"none", "directive", "aborted"}, EvalAsync(items, o, refused)
  PROVE  IInv'
<1> DEFINE e == run.eval + 1
           j == [js EXCEPT !.activeEvaluation = TRUE]
           r == [InitRun EXCEPT !.eval = e, !.stdin = o.stdin, !.pauser = o.pauser,
                   !.notifier = o.notifier, !.at = "top"]
           d == [core EXCEPT !.evaluation = e, !.token = e, !.fragment = FALSE,
                   !.left = items]
           v == World(j, core, r)
           outcome == IF refused = "aborted" THEN "aborted" ELSE "error"
<1>1. /\ js.session /\ ~js.disposeRequested /\ run.at = "none" /\ core.frees = 0
      /\ host \in {"none", "call"} /\ host' = host /\ Clear(core)
      /\ js.activeCalls = (IF host = "none" THEN 0 ELSE 1) /\ js.activePauseId = NoId
  BY StateLemma DEF EvalAsync, MayCall, HostOK, CoreOK, Hosts
<1>2. e \in EvalIds /\ e # NoEval
  <2>1. run.eval \in EvalIds \cup {NoEval} /\ run.eval < MaxEvals
    BY StateLemma DEF EvalAsync, RunState
  <2> QED
    BY <2>1 DEF EvalIds, NoEval
<1>3. j \in JsState
  BY StateLemma, RangesLemma, Zenon DEF JsState
<1>4. /\ j.activeEvaluation /\ j.activeCalls = js.activeCalls
      /\ j.session = js.session /\ j.activePauseId = js.activePauseId
  BY StateLemma, RangesLemma, Zenon DEF JsState
<1>5. InitRun \in RunState
  BY RangesLemma DEF InitRun, RunState, Phases, Wakes, Statuses, Outcomes
<1>6. o.stdin \in BOOLEAN /\ o.pauser \in BOOLEAN /\ o.notifier \in BOOLEAN
      /\ "top" \in Phases
  BY DEF Options, Phases
<1>7. /\ host = "none" /\ refused = "none" => Become(World(j, StartEvaluation(core, e, items), r))
      /\ ~(host = "none" /\ refused = "none") => Become(FinishEvaluation(v, TRUE, outcome))
  <2>1. host = "call" <=> host # "none"
    BY <1>1
  <2>2. World(j, core, r).js = j
    BY WorldLemma
  <2> QED
    BY <2>1, <2>2, Zenon DEF EvalAsync
<1> HIDE DEF e
<1>8. r \in RunState /\ r.at = "top" /\ r.eval = e
  <2> HIDE DEF InitRun
  <2>1. r \in RunState
    BY <1>2, <1>5, <1>6, Zenon DEF RunState
  <2>2. r.at = "top" /\ r.eval = e
    BY <1>5, Zenon DEF RunState
  <2> QED
    BY <2>1, <2>2
<1>9. StartEvaluation(core, e, items) = d
  BY Zenon DEF StartEvaluation
<1>10. d \in CoreState
  BY <1>2, StateLemma, RangesLemma, Zenon DEF CoreState
<1>11. /\ d.frees = core.frees /\ d.evaluation = e /\ d.token = e
       /\ d.input = core.input /\ d.pause = core.pause /\ d.hostError = core.hostError
  BY StateLemma, Zenon DEF CoreState
<1> HIDE DEF j, r, d
<1>12. CASE ~(host = "none" /\ refused = "none")
  <2>1. v \in Worlds /\ v.js = j /\ v.core = core /\ v.run = r
    BY <1>3, <1>8, StateLemma, WorldLemma
  <2>2. outcome \in Outcomes
    BY DEF Outcomes
  <2> HIDE DEF v, outcome
  <2>3. Leaving(v, host)
    BY <1>1, <1>4, <2>1 DEF Leaving
  <2>4. WorldOK(FinishEvaluation(v, TRUE, outcome), host)
    BY <1>1, <2>1, <2>2, <2>3, FinishLemma DEF Cancellable
  <2> QED
    BY <1>1, <1>7, <1>12, <2>4, BecomeLemma
<1>13. CASE host = "none" /\ refused = "none"
  <2> DEFINE u == World(j, d, r)
  <2>1. u \in Worlds /\ u.js = j /\ u.core = d /\ u.run = r
    BY <1>3, <1>8, <1>10, WorldLemma
  <2> HIDE DEF u
  <2>2. CoreOK(d, r)
    BY <1>1, <1>2, <1>8, <1>11 DEF CoreOK, Owned, Idle, Clear
  <2>3. HostOK(j, d, r, "none")
    BY <1>1, <1>4, <1>8, <1>11, <1>13 DEF HostOK
  <2>4. WorldOK(u, "none")
    BY <2>1, <2>2, <2>3 DEF WorldOK, Hosts
  <2>5. Become(u)
    BY <1>7, <1>9, <1>13 DEF u
  <2> QED
    BY <1>1, <1>13, <2>4, <2>5, BecomeLemma
<1> QED
  BY <1>12, <1>13

LEMMA EnterEvalWqLemma ==
  ASSUME IInv, EnterEvalWq PROVE IInv'
<1> DEFINE j == [js EXCEPT !.activeCalls = 1]
<1>1. /\ js.session /\ ~js.disposeRequested /\ run.at = "none" /\ core.frees = 0
      /\ host = "none" /\ js.activeCalls = 0 /\ js.activePauseId = NoId
  BY StateLemma DEF EnterEvalWq, MayCall, HostOK
<1>2. js' = j /\ core' = core /\ run' = run /\ host' = "call"
  <2>1. js.activeCalls + 1 = 1
    BY <1>1
  <2> QED
    BY <2>1, Zenon DEF EnterEvalWq
<1>3. j \in JsState
  BY StateLemma, RangesLemma, Zenon DEF JsState
<1>4. /\ j.activeCalls = 1 /\ j.session = js.session
      /\ j.activePauseId = js.activePauseId
      /\ j.activeEvaluation = js.activeEvaluation
      /\ j.disposeRequested = js.disposeRequested
  BY StateLemma, Zenon DEF JsState
<1> HIDE DEF j
<1>5. HostOK(j, core, run, "call")
  BY <1>1, <1>4, StateLemma DEF HostOK
<1>6. WorldOK(World(j, core, run), "call")
  BY <1>3, <1>5, StateLemma, WorldLemma DEF WorldOK, Hosts
<1> QED
  BY <1>2, <1>6 DEF IInv, Now

\* A call leaves with the core it has made.
LEMMA LeaveCallLemma ==
  ASSUME IInv, run.at = "none", js.session, NEW h \in {"none", "call"},
         NEW c \in CoreState, Clear(c), c.frees = 0
  PROVE  WorldOK(FlushDisposal(World([js EXCEPT !.activeCalls = IF h = "none" THEN 0 ELSE 1],
                                     c, run)), h)
<1> DEFINE n == IF h = "none" THEN 0 ELSE 1
           j == [js EXCEPT !.activeCalls = n]
           v == World(j, c, run)
<1>1. n \in 0 .. 1
  BY RangesLemma
<1> HIDE DEF n
<1>2. j \in JsState
  BY <1>1, StateLemma, Zenon DEF JsState
<1>3. /\ j.activeCalls = n /\ j.session = js.session
      /\ j.activePauseId = js.activePauseId
      /\ j.activeEvaluation = js.activeEvaluation
  BY <1>1, StateLemma, Zenon DEF JsState
<1>4. ~js.activeEvaluation /\ js.activePauseId = NoId
  BY StateLemma DEF HostOK
<1> HIDE DEF j
<1>5. v \in Worlds /\ v.js = j /\ v.core = c /\ v.run = run
  BY <1>2, StateLemma, WorldLemma
<1> HIDE DEF v
<1>6. Leaving(v, h)
  BY <1>3, <1>5 DEF Leaving, n
<1>7. WorldOK(FlushDisposal(v), h)
  BY <1>3, <1>4, <1>5, <1>6, FlushLemma
<1> QED
  BY <1>7 DEF v, j, n

LEMMA LeaveEvalWqLemma ==
  ASSUME IInv, LeaveEvalWq PROVE IInv'
<1> DEFINE l == LoadInstructions(core)
           j == [js EXCEPT !.activeCalls = 0]
<1>1. /\ host = "call" /\ host' = "none" /\ run.at = "none" /\ js.session
      /\ core.frees = 0 /\ js.activeCalls = 1 /\ Clear(core)
  BY StateLemma DEF LeaveEvalWq, HostOK, CoreOK
<1>2. PICK h \in {core.halted, TRUE} :
        Become(LeaveCall(World(js, [l EXCEPT !.halted = h], run)))
  BY DEF LeaveEvalWq
<1> DEFINE c == [l EXCEPT !.halted = h]
<1>3. h \in BOOLEAN
  BY StateLemma DEF CoreState
<1>4. /\ l \in CoreState /\ l.frees = core.frees /\ l.evaluation = core.evaluation
      /\ l.token = core.token /\ l.input = NoId /\ l.pause = NoId /\ l.hostError = FALSE
  BY StateLemma, LoadLemma
<1> HIDE DEF l
<1>5. c \in CoreState
  BY <1>3, <1>4, Zenon DEF CoreState
<1>6. /\ c.frees = l.frees /\ c.evaluation = l.evaluation /\ c.token = l.token
      /\ c.input = l.input /\ c.pause = l.pause /\ c.hostError = l.hostError
  BY <1>4, Zenon DEF CoreState
<1> HIDE DEF c
<1>7. Clear(c) /\ c.frees = 0
  BY <1>1, <1>4, <1>6 DEF Clear
<1>8. LeaveCall(World(js, c, run)) = FlushDisposal(World(j, c, run))
  <2>1. js.activeCalls - 1 = 0
    BY <1>1
  <2>2. World(js, c, run).js = js /\ World(js, c, run).core = c
        /\ World(js, c, run).run = run
    BY WorldLemma
  <2> QED
    BY <2>1, <2>2, Zenon DEF LeaveCall
<1>9. WorldOK(FlushDisposal(World(j, c, run)), "none")
  BY <1>1, <1>5, <1>7, LeaveCallLemma
<1>10. Become(FlushDisposal(World(j, c, run)))
  BY <1>2, <1>8 DEF c
<1> QED
  BY <1>1, <1>9, <1>10, BecomeLemma

LEMMA ResetCallLemma ==
  ASSUME IInv, ResetCall PROVE IInv'
<1> DEFINE c == IF host = "none" THEN ResetExecution(core) ELSE core
           n == IF host = "none" THEN 0 ELSE 1
           j == [js EXCEPT !.activeCalls = js.activeCalls + 1]
           k == [js EXCEPT !.activeCalls = n]
<1>1. /\ js.session /\ run.at = "none" /\ core.frees = 0 /\ Clear(core)
      /\ host \in {"none", "call"} /\ host' = host /\ js.activeCalls = n
  BY StateLemma DEF ResetCall, MayCall, HostOK, CoreOK, Hosts
<1>2. Become(LeaveCall(World(j, c, run)))
  BY DEF ResetCall
<1>3. c \in CoreState /\ Clear(c) /\ c.frees = 0
  BY <1>1, StateLemma, ResetLemma DEF Clear
<1> HIDE DEF c
<1>4. LeaveCall(World(j, c, run)) = FlushDisposal(World(k, c, run))
  <2>1. World(j, c, run).js = j /\ World(j, c, run).core = c /\ World(j, c, run).run = run
    BY WorldLemma
  <2>2. [j EXCEPT !.activeCalls = n] = k
    BY StateLemma, Zenon DEF JsState
  <2>3. j.activeCalls - 1 = n
    <3>1. j.activeCalls = js.activeCalls + 1
      BY StateLemma, Zenon DEF JsState
    <3> QED
      BY <1>1, <3>1
  <2> HIDE DEF j, k, n
  <2> QED
    BY <2>1, <2>2, <2>3, Zenon DEF LeaveCall
<1>5. WorldOK(FlushDisposal(World(k, c, run)), host)
  BY <1>1, <1>3, LeaveCallLemma
<1> QED
  BY <1>1, <1>2, <1>4, <1>5, BecomeLemma

\* A run that differs in what no place of the loop depends on.
LEMMA StirLemma ==
  ASSUME IInv, NEW r, r \in RunState, r.at = run.at, r.eval = run.eval, r.ref = run.ref,
         r.then = run.then
  PROVE  CoreOK(core, r) /\ WorldOK(World(js, core, r), host)
<1>1. CoreOK(core, r)
  BY StateLemma DEF CoreOK
<1>2. HostOK(js, core, r, host)
  BY StateLemma DEF HostOK
<1> QED
  BY <1>1, <1>2, StateLemma, WorldLemma DEF WorldOK

LEMMA WakeLemma ==
  ASSUME NEW r \in RunState, NEW how \in Wakes
  PROVE  /\ Wake(r, how) \in RunState
         /\ Wake(r, how).at = r.at /\ Wake(r, how).eval = r.eval
         /\ Wake(r, how).ref = r.ref /\ Wake(r, how).then = r.then
<1> DEFINE u == [r EXCEPT !.wake = how]
<1>1. u \in RunState
  BY Zenon DEF RunState
<1>2. u.at = r.at /\ u.eval = r.eval /\ u.ref = r.ref /\ u.then = r.then
  BY Zenon DEF RunState
<1>3. Wake(r, how) = IF Listening(r) THEN u ELSE r
  BY Zenon DEF Wake
<1> HIDE DEF u
<1> QED
  BY <1>1, <1>2, <1>3

LEMMA FreeLemma ==
  ASSUME IInv, Free PROVE IInv'
<1> DEFINE j == [js EXCEPT !.disposeRequested = TRUE]
           r == Wake(run, "dispose")
           v == World(j, core, r)
<1>1. js.session /\ core.frees = 0 /\ host' = host /\ host \in Hosts
  BY StateLemma DEF Free, HostOK
<1>2. Become(FlushDisposal(v))
  BY DEF Free
<1>3. j \in JsState
  BY StateLemma, RangesLemma, Zenon DEF JsState
<1>4. /\ j.activeCalls = js.activeCalls /\ j.session = js.session
      /\ j.activePauseId = js.activePauseId
      /\ j.activeEvaluation = js.activeEvaluation
  BY StateLemma, Zenon DEF JsState
<1>5. /\ r \in RunState /\ r.at = run.at /\ r.eval = run.eval /\ r.ref = run.ref
      /\ r.then = run.then
  BY StateLemma, WakeLemma DEF Wakes
<1> HIDE DEF j, r
<1>6. v \in Worlds /\ v.js = j /\ v.core = core /\ v.run = r
  BY <1>3, <1>5, StateLemma, WorldLemma
<1> HIDE DEF v
<1>7. CoreOK(core, r)
  BY <1>5, StirLemma
<1>8. CASE run.at = "none" /\ host = "none"
  <2>1. Leaving(v, "none") /\ ~j.activeEvaluation /\ j.activePauseId = NoId /\ Clear(core)
    BY <1>1, <1>4, <1>6, <1>8, StateLemma DEF Leaving, HostOK, CoreOK
  <2>2. WorldOK(FlushDisposal(v), "none")
    BY <1>5, <1>6, <1>8, <2>1, FlushLemma
  <2> QED
    BY <1>1, <1>2, <1>8, <2>2, BecomeLemma
<1>9. CASE ~(run.at = "none" /\ host = "none")
  <2>1. ~CanFlush(j)
    BY <1>4, <1>9, StateLemma DEF CanFlush, HostOK
  <2>2. FlushDisposal(v) = v
    BY <1>6, <2>1 DEF FlushDisposal
  <2>3. HostOK(j, core, r, host)
    BY <1>1, <1>4, <1>5, <1>9, StateLemma DEF HostOK
  <2>4. WorldOK(v, host)
    BY <1>1, <1>6, <1>7, <2>3 DEF WorldOK
  <2> QED
    BY <1>1, <1>2, <2>2, <2>4, BecomeLemma
<1> QED
  BY <1>8, <1>9

LEMMA AbortLemma ==
  ASSUME IInv, Abort PROVE IInv'
<1> DEFINE u == Wake(run, "abort")
           r == [u EXCEPT !.aborted = TRUE]
<1>1. js' = js /\ core' = core /\ run' = r /\ host' = host
  BY Zenon DEF Abort
<1>2. /\ u \in RunState /\ u.at = run.at /\ u.eval = run.eval /\ u.ref = run.ref
      /\ u.then = run.then
  BY StateLemma, WakeLemma DEF Wakes
<1> HIDE DEF u
<1>3. r \in RunState
  BY <1>2, RangesLemma, Zenon DEF RunState
<1>4. r.at = u.at /\ r.eval = u.eval /\ r.ref = u.ref /\ r.then = u.then
  BY <1>2, Zenon DEF RunState
<1> HIDE DEF r
<1>5. WorldOK(World(js, core, r), host)
  BY <1>2, <1>3, <1>4, StirLemma
<1> QED
  BY <1>1, <1>5 DEF IInv, Now

LEMMA SettleCallbackLemma ==
  ASSUME IInv, SettleCallback PROVE IInv'
<1>1. PICK how \in {"value", "error"} : run' = [run EXCEPT !.wake = how]
  BY DEF SettleCallback
<1> DEFINE r == [run EXCEPT !.wake = how]
<1>2. how \in Wakes
  BY DEF Wakes
<1>3. r \in RunState
  BY <1>2, StateLemma, Zenon DEF RunState
<1>4. r.at = run.at /\ r.eval = run.eval /\ r.ref = run.ref /\ r.then = run.then
  BY StateLemma, Zenon DEF RunState
<1>5. js' = js /\ core' = core /\ run' = r /\ host' = host
  BY <1>1, Zenon DEF SettleCallback
<1> HIDE DEF r
<1>6. WorldOK(World(js, core, r), host)
  BY <1>3, <1>4, StirLemma
<1> QED
  BY <1>5, <1>6 DEF IInv, Now

LEMMA StopMethodLemma ==
  ASSUME IInv, NEW id \in Ids, StopMethod(id) PROVE IInv'
<1>1. PICK n \in {0, core.notes} : core' = [core EXCEPT !.notes = n]
  BY DEF StopMethod
<1> DEFINE c == [core EXCEPT !.notes = n]
<1>2. n \in 0 .. MaxNotes
  BY StateLemma, RangesLemma DEF CoreState
<1>3. c \in CoreState /\ CoreOK(c, run) /\ c.frees = core.frees
  BY <1>2, StateLemma, NotesLemma
<1>4. js' = js /\ core' = c /\ run' = run /\ host' = host
  BY <1>1, Zenon DEF StopMethod
<1> HIDE DEF c
<1>5. HostOK(js, c, run, host)
  BY <1>3, StateLemma DEF HostOK
<1>6. WorldOK(World(js, c, run), host)
  BY <1>3, <1>5, StateLemma, WorldLemma DEF WorldOK
<1> QED
  BY <1>4, <1>6 DEF IInv, Now

-----------------------------------------------------------------------------
(* The theorems *)

LEMMA StepLemma == IInv /\ [Next]_vars => IInv'
<1> SUFFICES ASSUME IInv, [Next]_vars PROVE IInv'
  OBVIOUS
<1>1. CASE LoopStep
  BY <1>1, EnterSliceLemma, LeaveSliceLemma, HostTaskLemma, WakeNoteLemma,
     WakeInputLemma, WakePauseLemma DEF LoopStep
<1>2. CASE LeaveEvalWq
  BY <1>2, LeaveEvalWqLemma
<1>3. CASE UserStep
  BY <1>3, EvalAsyncLemma, EnterEvalWqLemma, ResetCallLemma, FreeLemma, AbortLemma,
     SettleCallbackLemma, StopMethodLemma DEF UserStep
<1>4. CASE UNCHANGED vars
  <2>1. js' = js /\ core' = core /\ run' = run /\ host' = host
    BY <1>4 DEF vars
  <2> QED
    BY <2>1 DEF IInv, Now
<1> QED
  BY <1>1, <1>2, <1>3, <1>4 DEF Next

LEMMA InvariantLemma == Spec => []IInv
BY InitLemma, StepLemma, PTL DEF Spec

\* The state keeps its shape: identifiers, notifications and the calls on the
\* stack stay within what the facade and the core were given.
THEOREM TypeTheorem == Spec => []TypeOK
BY InvariantLemma, TypeLemma, PTL

\* The object is freed at most once and only when nothing of it is in use.
\* (#flushDisposal and the counters it looks at.)
THEOREM DisposalTheorem == Spec => []DisposalIsSafe
<1>1. IInv => DisposalIsSafe
  <2> SUFFICES ASSUME IInv PROVE DisposalIsSafe
    OBVIOUS
  <2>1. core.frees \in 0 .. 1
    BY StateLemma DEF CoreState
  <2> QED
    BY <2>1, StateLemma DEF HostOK, DisposalIsSafe
<1> QED
  BY <1>1, InvariantLemma, PTL

\* However an evaluation ends, it leaves nothing of itself in the session.
\* (The finally block of eval_wq_async.)
THEOREM NothingLeftTheorem == Spec => []EvaluationLeavesNothing
<1>1. IInv => EvaluationLeavesNothing
  BY StateLemma DEF CoreOK, Clear, EvaluationLeavesNothing
<1> QED
  BY <1>1, InvariantLemma, PTL

\* What the loop is about to answer or resume is what the core is waiting for.
\* (eval_wq_async against run_eval_wq_slice and the two resume methods.)
THEOREM AgreementTheorem == Spec => []LoopAgreesWithCore
<1>1. IInv => LoopAgreesWithCore
  BY StateLemma DEF CoreOK, Fits, Owned, Asked, Stopped, LoopAgreesWithCore
<1> QED
  BY <1>1, InvariantLemma, PTL

\* A stop object that still works belongs to the pause the core is in.
\* (#debuggerStop and the finally block around the pause handler.)
THEOREM StopsTheorem == Spec => []StopsAreCurrent
<1>1. IInv => StopsAreCurrent
  BY StateLemma DEF CoreOK, HostOK, Fits, Stopped, StopsAreCurrent
<1> QED
  BY <1>1, InvariantLemma, PTL

-----------------------------------------------------------------------------
(* The facade implements the handle *)

\* The world v comes of w by steps that ask for no disposal.
Keeps(w, v) == v.js \in JsState /\ v.js.disposeRequested = w.js.disposeRequested

LEMMA FlushKeeps ==
  ASSUME NEW w, w.js \in JsState
  PROVE  Keeps(w, FlushDisposal(w))
<1> DEFINE j == [w.js EXCEPT !.session = FALSE]
           v == World(j, [w.core EXCEPT !.frees = @ + 1], w.run)
<1>1. j \in JsState
  BY RangesLemma, Zenon DEF JsState
<1>2. j.disposeRequested = w.js.disposeRequested
  BY Zenon DEF JsState
<1> HIDE DEF j
<1>3. v.js = j
  BY WorldLemma
<1>4. FlushDisposal(w) = IF CanFlush(w.js) THEN v ELSE w
  BY Zenon DEF FlushDisposal, j
<1> HIDE DEF v
<1> QED
  BY <1>1, <1>2, <1>3, <1>4, Zenon DEF Keeps

LEMMA FinishKeeps ==
  ASSUME NEW w, w.js \in JsState, NEW finished, NEW outcome
  PROVE  Keeps(w, FinishEvaluation(w, finished, outcome))
<1> DEFINE j == [w.js EXCEPT !.activePauseId = NoId, !.activeEvaluation = FALSE]
           v == World(j, IF ~finished /\ w.js.session THEN CancelEvaluation(w.core)
                                                      ELSE w.core,
                      Settled(w.run, outcome))
<1>1. j \in JsState
  BY RangesLemma, Zenon DEF JsState
<1>2. j.disposeRequested = w.js.disposeRequested
  BY Zenon DEF JsState
<1> HIDE DEF j
<1>3. v.js = j
  BY WorldLemma
<1>4. FinishEvaluation(w, finished, outcome) = FlushDisposal(v)
  BY Zenon DEF FinishEvaluation, j
<1> HIDE DEF v
<1>5. Keeps(v, FlushDisposal(v))
  BY <1>1, <1>3, FlushKeeps
<1> QED
  BY <1>2, <1>3, <1>4, <1>5, Zenon DEF Keeps

LEMMA WaitKeeps ==
  ASSUME NEW w, w.js \in JsState
  PROVE  /\ \A at, ref : Keeps(w, Await(w, at, ref))
         /\ \A c, at : Keeps(w, GoOn(w, c, at))
         /\ \A c, r : Keeps(w, World(w.js, c, r))
<1>1. \A c, r : Keeps(w, World(w.js, c, r))
  BY WorldLemma DEF Keeps
<1>2. \A at, ref : \E r : Await(w, at, ref) = World(w.js, w.core, r)
  BY Zenon DEF Await
<1>3. \A c, at : \E r : GoOn(w, c, at) = World(w.js, c, r)
  BY Zenon DEF GoOn
<1> QED
  BY <1>1, <1>2, <1>3, Zenon

LEMMA ContinueKeeps ==
  ASSUME NEW w, w.js \in JsState, w.run.ref \in Ids \cup {NoId}, NEW status \in Statuses
  PROVE  Keeps(w, Continue(w, status))
<1> DEFINE j == [w.js EXCEPT !.activePauseId = w.run.ref]
           v == World(j, w.core, w.run)
<1>1. j \in JsState
  BY Zenon DEF JsState
<1>2. j.disposeRequested = w.js.disposeRequested
  BY Zenon DEF JsState
<1> HIDE DEF j
<1>3. v.js = j
  BY WorldLemma
<1>4. \/ \E finished \in BOOLEAN, outcome \in Outcomes :
           Continue(w, status) = FinishEvaluation(w, finished, outcome)
      \/ \E c, at : Continue(w, status) = GoOn(w, c, at)
      \/ Continue(w, status) = Await(v, "pause", w.run.ref)
  <2>1. status \in {"ready", "yielded", "paused"}
    BY DEF Statuses
  <2>2. "value" \in Outcomes /\ "error" \in Outcomes
    BY DEF Outcomes
  <2>3. CASE status = "ready"
    BY <2>2, <2>3 DEF Continue
  <2>4. CASE status = "yielded"
    BY <2>4 DEF Continue
  <2>5. CASE status = "paused" /\ w.run.pauser
    BY <2>5, Zenon DEF Continue, j
  <2>6. CASE status = "paused" /\ ~w.run.pauser
    <3>1. \/ Continue(w, status) = FinishEvaluation(w, FALSE, "error")
          \/ Continue(w, status) = GoOn(w, ResumePause(w.core), "top")
      BY <2>6 DEF Continue
    <3> QED
      BY <2>2, <3>1
  <2> QED
    BY <2>1, <2>3, <2>4, <2>5, <2>6
<1> HIDE DEF v
<1>5. Keeps(v, Await(v, "pause", w.run.ref))
  BY <1>1, <1>3, WaitKeeps
<1>6. Keeps(w, Await(v, "pause", w.run.ref))
  BY <1>2, <1>3, <1>5, Zenon DEF Keeps
<1> QED
  BY <1>4, <1>6, FinishKeeps, WaitKeeps

LEMMA DeliverKeeps ==
  ASSUME NEW w, w.js \in JsState, w.run.ref \in Ids \cup {NoId}, NEW status \in Statuses
  PROVE  Keeps(w, Deliver(w, status))
<1> DEFINE v == World(w.js, [w.core EXCEPT !.notes = 0],
                      [w.run EXCEPT !.notes = w.core.notes, !.then = status])
<1>1. \/ Deliver(w, status) = Await(v, "note", w.run.ref)
      \/ Deliver(w, status) = Continue(w, status)
  BY Zenon DEF Deliver
<1>2. v.js = w.js
  BY WorldLemma
<1> HIDE DEF v
<1>3. Keeps(v, Await(v, "note", w.run.ref))
  BY <1>2, WaitKeeps
<1>4. Keeps(w, Await(v, "note", w.run.ref))
  BY <1>2, <1>3, Zenon DEF Keeps
<1> QED
  BY <1>1, <1>4, ContinueKeeps

LEMMA AnswerKeeps ==
  ASSUME NEW w, w.js \in JsState, NEW kind
  PROVE  Keeps(w, Answer(w, kind))
<1>1. \/ Answer(w, kind) = GoOn(w, ResumeInput(w.core, kind), "top")
      \/ Answer(w, kind) = FinishEvaluation(w, FALSE, "error")
  BY DEF Answer
<1> QED
  BY <1>1, FinishKeeps, WaitKeeps

LEMMA HandleSliceKeeps ==
  ASSUME NEW w, w.js \in JsState, w.run \in RunState, NEW p, p.ref \in Ids \cup {NoId},
         p.status \in Statuses \cup {"error", "awaiting"}
  PROVE  Keeps(w, HandleSlice(w, p))
<1> DEFINE r == [w.run EXCEPT !.ref = p.ref]
           v == World(w.js, p.core, r)
<1>1. r.ref = p.ref
  BY Zenon DEF RunState
<1>2. v.js = w.js /\ v.run = r
  BY WorldLemma
<1>3. HandleSlice(w, p) =
        CASE p.status = "error" -> FinishEvaluation(v, FALSE, "error")
          [] p.status = "awaiting" ->
               IF v.run.stdin THEN Await(v, "input", p.ref) ELSE Answer(v, "error")
          [] OTHER -> Deliver(v, p.status)
  BY Zenon DEF HandleSlice
<1> HIDE DEF v, r
<1>4. \/ HandleSlice(w, p) = FinishEvaluation(v, FALSE, "error")
      \/ HandleSlice(w, p) = Await(v, "input", p.ref)
      \/ HandleSlice(w, p) = Answer(v, "error")
      \/ p.status \in Statuses /\ HandleSlice(w, p) = Deliver(v, p.status)
  BY <1>3
<1>5. Keeps(v, HandleSlice(w, p))
  BY <1>1, <1>2, <1>4, FinishKeeps, WaitKeeps, AnswerKeeps, DeliverKeeps
<1> QED
  BY <1>2, <1>5, Zenon DEF Keeps

LEMMA BecomeKeeps ==
  ASSUME NEW w, NEW v, Keeps(w, v), w.js.disposeRequested = js.disposeRequested, Become(v)
  PROVE  js'.disposeRequested = js.disposeRequested
BY Zenon DEF Keeps, Become

\* Disposal is asked for by free() only.
LEMMA ClosingLemma ==
  ASSUME IInv, Next, ~Free
  PROVE  js'.disposeRequested = js.disposeRequested
<1> DEFINE Kept == js'.disposeRequested = js.disposeRequested
<1>1. /\ js \in JsState /\ run \in RunState /\ core \in CoreState
      /\ run.ref \in Ids \cup {NoId} /\ run.then \in Statuses
      /\ Now.js = js /\ Now.run = run /\ Now.core = core
  BY StateLemma DEF RunState
<1>2. js' = js => Kept
  BY Zenon
<1>3. ASSUME NEW finished, NEW outcome, Become(FinishEvaluation(Now, finished, outcome))
      PROVE  Kept
  BY <1>1, <1>3, FinishKeeps, BecomeKeeps
<1>4. ASSUME NEW n PROVE [js EXCEPT !.activeCalls = n].disposeRequested = js.disposeRequested
  BY <1>1, Zenon DEF JsState
<1>5. ASSUME NEW n \in 0 .. 1, NEW c, Become(FlushDisposal(World([js EXCEPT !.activeCalls = n], c, run)))
      PROVE  Kept
  <2> DEFINE j == [js EXCEPT !.activeCalls = n]
             v == World(j, c, run)
  <2>1. j \in JsState
    BY <1>1, Zenon DEF JsState
  <2>2. j.disposeRequested = js.disposeRequested
    BY <1>4
  <2>3. Become(FlushDisposal(v))
    BY <1>5
  <2> HIDE DEF j
  <2>4. v.js = j
    BY WorldLemma
  <2> HIDE DEF v
  <2> QED
    BY <2>1, <2>2, <2>3, <2>4, FlushKeeps, BecomeKeeps
<1>6. CASE EnterSlice
  BY <1>3, <1>4, <1>6, Zenon DEF EnterSlice
<1>7. CASE LeaveSlice
  <2> DEFINE j == [js EXCEPT !.activeCalls = 0]
             v == World(j, core, run)
  <2>1. PICK p \in PollEvaluation(core), n \in core.notes .. MaxNotes :
          Become(HandleSlice(LeaveCall(Now),
                             Poll(p.status, [p.core EXCEPT !.notes = n], p.ref)))
    BY <1>7 DEF LeaveSlice
  <2>2. js.activeCalls = 1 /\ js.activeEvaluation /\ Owned(core, run.eval) /\ Idle(core)
    BY <1>7, StateLemma DEF LeaveSlice, HostOK, CoreOK
  <2>3. Outcome(p, run.eval)
    BY <1>1, <2>2, PollLemma
  <2> DEFINE q == Poll(p.status, [p.core EXCEPT !.notes = n], p.ref)
  <2>4. q.ref \in Ids \cup {NoId} /\ q.status \in Statuses \cup {"error", "awaiting"}
    BY <2>3, PollPartsLemma DEF Outcome
  <2>5. Become(HandleSlice(LeaveCall(Now), q))
    BY <2>1
  <2> HIDE DEF q
  <2>6. LeaveCall(Now) = FlushDisposal(v)
    <3>1. [js EXCEPT !.activeCalls = @ - 1] = j
      BY <2>2
    <3> QED
      BY <1>1, <3>1, Zenon DEF LeaveCall
  <2>7. j \in JsState
    BY <1>1, RangesLemma, Zenon DEF JsState
  <2>8. j.disposeRequested = js.disposeRequested
    BY <1>4
  <2>9. j.activeEvaluation = js.activeEvaluation
    BY <1>1, Zenon DEF JsState
  <2> HIDE DEF j
  <2>10. FlushDisposal(v) = v /\ v.js = j /\ v.run = run
    <3>1. ~CanFlush(j)
      BY <2>2, <2>9 DEF CanFlush
    <3> QED
      BY <3>1, WorldLemma DEF FlushDisposal
  <2> HIDE DEF v
  <2>11. Keeps(v, HandleSlice(v, q))
    BY <1>1, <2>4, <2>7, <2>10, HandleSliceKeeps
  <2> QED
    BY <2>5, <2>6, <2>8, <2>10, <2>11, BecomeKeeps
<1>8. CASE HostTask \/ SettleCallback \/ Abort \/ \E id \in Ids : StopMethod(id)
  BY <1>2, <1>8 DEF HostTask, SettleCallback, Abort, StopMethod
<1>9. CASE WakeNote
  <2> DEFINE w(n) == World(js, core, [run EXCEPT !.notes = n])
  <2>1. ASSUME NEW n
        PROVE  /\ w(n).js = js /\ w(n).run.ref = run.ref
               /\ Keeps(w(n), Await(w(n), "note", run.ref))
               /\ Keeps(w(n), Continue(w(n), run.then))
    <3> DEFINE r == [run EXCEPT !.notes = n]
               v == World(js, core, r)
    <3>1. r.ref = run.ref
      BY <1>1, Zenon DEF RunState
    <3> HIDE DEF r
    <3>2. v.js = js /\ v.run = r
      BY WorldLemma
    <3> HIDE DEF v
    <3>3. Keeps(v, Await(v, "note", run.ref)) /\ Keeps(v, Continue(v, run.then))
      BY <1>1, <3>1, <3>2, WaitKeeps, ContinueKeeps
    <3> QED
      BY <3>1, <3>2, <3>3 DEF v, r
  <2> HIDE DEF w
  <2>2. ASSUME NEW n, Become(Await(w(n), "note", run.ref)) \/ Become(Continue(w(n), run.then))
        PROVE  Kept
    BY <2>1, <2>2, BecomeKeeps
  <2>3. run.wake \in Wakes \ {"none"}
    BY <1>1, <1>9 DEF WakeNote, RunState
  <2>4. CASE run.wake = "value"
    <3>1. \/ Become(Await(w(run.notes - 1), "note", run.ref))
          \/ Become(Continue(w(0), run.then))
      BY <1>9, <2>4, Zenon DEF WakeNote, w
    <3> QED
      BY <2>2, <3>1
  <2>5. CASE run.wake # "value"
    <3>1. \E outcome \in Outcomes : Become(FinishEvaluation(Now, FALSE, outcome))
      BY <1>9, <2>3, <2>5 DEF WakeNote, Wakes, Outcomes
    <3> QED
      BY <1>3, <3>1
  <2> QED
    BY <2>4, <2>5
<1>10. CASE WakeInput
  <2>1. \/ \E kind \in {"line", "eof", "error"} : Become(Answer(Now, kind))
        \/ \E outcome \in Outcomes : Become(FinishEvaluation(Now, FALSE, outcome))
    BY <1>10 DEF WakeInput, Outcomes
  <2> QED
    BY <1>1, <1>3, <2>1, AnswerKeeps, BecomeKeeps
<1>11. CASE WakePause
  <2> DEFINE j == [js EXCEPT !.activePauseId = NoId]
             v == ForgetPause(Now)
  <2>1. j \in JsState
    BY <1>1, RangesLemma, Zenon DEF JsState
  <2>2. j.disposeRequested = js.disposeRequested
    BY <1>1, Zenon DEF JsState
  <2>3. v = World(j, core, run)
    BY <1>1, Zenon DEF ForgetPause
  <2> HIDE DEF j, v
  <2>4. v.js = j
    BY <2>3, WorldLemma
  <2>5. \/ Become(GoOn(v, ResumePause(core), "top"))
        \/ \E outcome \in Outcomes : Become(FinishEvaluation(v, FALSE, outcome))
    BY <1>11 DEF WakePause, Outcomes, v
  <2>6. v.js \in JsState /\ v.js.disposeRequested = js.disposeRequested
    BY <2>1, <2>2, <2>4, Zenon
  <2> QED
    BY <2>5, <2>6, FinishKeeps, WaitKeeps, BecomeKeeps
<1>12. CASE \E items \in 0 .. MaxItems, o \in Options,
              refused \in {"none", "directive", "aborted"} : EvalAsync(items, o, refused)
  <2> DEFINE j == [js EXCEPT !.activeEvaluation = TRUE]
  <2>1. \E c, r :
          \/ Become(World(j, c, r))
          \/ \E outcome : Become(FinishEvaluation(World(j, c, r), TRUE, outcome))
    <3>1. PICK items \in 0 .. MaxItems, o \in Options,
               refused \in {"none", "directive", "aborted"} : EvalAsync(items, o, refused)
      BY <1>12
    <3> DEFINE r == [InitRun EXCEPT !.eval = run.eval + 1, !.stdin = o.stdin,
                       !.pauser = o.pauser, !.notifier = o.notifier, !.at = "top"]
               c == StartEvaluation(core, run.eval + 1, items)
               outcome == IF refused = "aborted" THEN "aborted" ELSE "error"
    <3>2. World(j, core, r).js = j
      BY WorldLemma
    <3>3. \/ Become(World(j, c, r))
          \/ Become(FinishEvaluation(World(j, core, r), TRUE, outcome))
      BY <3>1, <3>2, Zenon DEF EvalAsync
    <3> HIDE DEF c, r, outcome
    <3> QED
      BY <3>3, Zenon
  <2>2. j \in JsState
    BY <1>1, RangesLemma, Zenon DEF JsState
  <2>3. j.disposeRequested = js.disposeRequested
    BY <1>1, Zenon DEF JsState
  <2> HIDE DEF j
  <2>4. PICK c, r :
          \/ Become(World(j, c, r))
          \/ \E outcome : Become(FinishEvaluation(World(j, c, r), TRUE, outcome))
    BY <2>1
  <2> DEFINE v == World(j, c, r)
  <2>5. v.js = j
    BY WorldLemma
  <2>6. Become(v) \/ \E outcome : Become(FinishEvaluation(v, TRUE, outcome))
    BY <2>4
  <2> HIDE DEF v
  <2>7. CASE Become(v)
    BY <2>3, <2>5, <2>7, Zenon DEF Become
  <2>8. ASSUME NEW outcome, Become(FinishEvaluation(v, TRUE, outcome))
        PROVE  Kept
    BY <2>2, <2>3, <2>5, <2>8, FinishKeeps, BecomeKeeps
  <2> QED
    BY <2>6, <2>7, <2>8
<1>13. CASE EnterEvalWq
  BY <1>4, <1>13, Zenon DEF EnterEvalWq
<1>14. CASE LeaveEvalWq
  <2>1. js.activeCalls = 1
    BY <1>14, StateLemma DEF LeaveEvalWq, HostOK
  <2>2. PICK c : Become(LeaveCall(World(js, c, run)))
    BY <1>14, Zenon DEF LeaveEvalWq
  <2>3. LeaveCall(World(js, c, run)) = FlushDisposal(World([js EXCEPT !.activeCalls = 0], c, run))
    <3>1. js.activeCalls - 1 = 0
      BY <2>1
    <3>2. /\ World(js, c, run).js = js /\ World(js, c, run).core = c
          /\ World(js, c, run).run = run
      BY WorldLemma
    <3> QED
      BY <3>1, <3>2, Zenon DEF LeaveCall
  <2> QED
    BY <1>5, <2>2, <2>3, RangesLemma
<1>15. CASE ResetCall
  <2> DEFINE j == [js EXCEPT !.activeCalls = js.activeCalls + 1]
             n == js.activeCalls
             k == [js EXCEPT !.activeCalls = n]
  <2>1. PICK c : Become(LeaveCall(World(j, c, run)))
    BY <1>15, Zenon DEF ResetCall
  <2>2. n \in 0 .. 1
    BY <1>1, Zenon DEF JsState
  <2>3. LeaveCall(World(j, c, run)) = FlushDisposal(World(k, c, run))
    <3>1. /\ World(j, c, run).js = j /\ World(j, c, run).core = c
          /\ World(j, c, run).run = run
      BY WorldLemma
    <3>2. [j EXCEPT !.activeCalls = n] = k
      BY <1>1, Zenon DEF JsState
    <3>3. j.activeCalls - 1 = n
      <4>1. j.activeCalls = js.activeCalls + 1
        BY <1>1, Zenon DEF JsState
      <4> QED
        BY <2>2, <4>1
    <3> HIDE DEF j, k, n
    <3> QED
      BY <3>1, <3>2, <3>3, Zenon DEF LeaveCall
  <2> QED
    BY <1>5, <2>1, <2>2, <2>3
<1> QED
  BY <1>6, <1>7, <1>8, <1>9, <1>10, <1>11, <1>12, <1>13, <1>14, <1>15
     DEF Next, LoopStep, UserStep

\* The two variables of the handle, as the facade has them.
Closed == core.frees > 0
Busy == host # "none" \/ run.at # "none"

Facts ==
  /\ js.disposeRequested \in BOOLEAN
  /\ js.session <=> ~Closed
  /\ Closed => ~Busy /\ js.disposeRequested
  /\ js.disposeRequested /\ ~Closed => Busy

LEMMA FactsLemma == IInv => Facts
<1> SUFFICES ASSUME IInv PROVE Facts
  OBVIOUS
<1>1. js.disposeRequested \in BOOLEAN /\ core.frees \in 0 .. 1
  BY StateLemma DEF JsState, CoreState
<1> QED
  BY <1>1, StateLemma DEF HostOK, Facts, Closed, Busy

\* Nothing happens to a facade that has let go of its object.
LEMMA ClosedLemma ==
  ASSUME IInv, Closed PROVE ~Next
<1>1. ~js.session /\ run.at = "none" /\ host = "none" /\ js.activePauseId = NoId
  BY FactsLemma, StateLemma DEF Facts, Busy, HostOK
<1> QED
  BY <1>1 DEF Next, LoopStep, UserStep, EnterSlice, LeaveSlice, HostTask, WakeNote,
     WakeInput, WakePause, LeaveEvalWq, EvalAsync, EnterEvalWq, ResetCall, MayCall,
     Free, Abort, SettleCallback, Listening, StopMethod

\* free() lets no activity begin or end.
LEMMA FreeIdleLemma ==
  ASSUME IInv, Free
  PROVE  /\ ~js.disposeRequested /\ js'.disposeRequested
         /\ host' = host /\ run'.at = run.at
<1> DEFINE j == [js EXCEPT !.disposeRequested = TRUE]
           r == Wake(run, "dispose")
           v == World(j, core, r)
<1>1. ~js.disposeRequested /\ host' = host /\ Become(FlushDisposal(v))
  BY DEF Free
<1>2. j \in JsState
  BY StateLemma, RangesLemma, Zenon DEF JsState
<1>3. j.disposeRequested
  BY StateLemma, Zenon DEF JsState
<1>4. r.at = run.at
  BY StateLemma, WakeLemma DEF Wakes
<1> HIDE DEF j, r
<1>5. v.js = j /\ v.run = r
  BY WorldLemma
<1> HIDE DEF v
<1>6. Keeps(v, FlushDisposal(v)) /\ FlushDisposal(v).run = v.run
  <2>1. Keeps(v, FlushDisposal(v))
    BY <1>2, <1>5, FlushKeeps
  <2>2. \E x, y : FlushDisposal(v) = World(x, y, v.run) \/ FlushDisposal(v) = v
    BY Zenon DEF FlushDisposal
  <2> QED
    BY <2>1, <2>2, WorldLemma
<1>7. js'.disposeRequested = j.disposeRequested
  BY <1>1, <1>5, <1>6, Zenon DEF Become, Keeps
<1>8. run'.at = run.at
  BY <1>1, <1>4, <1>5, <1>6 DEF Become
<1> QED
  BY <1>1, <1>3, <1>7, <1>8, Zenon

LEMMA HandleInitLemma == Init => Handle!Init
BY DEF Init, InitJs, InitCore, InitRun, Handle!Init

LEMMA HandleStepLemma ==
  ASSUME IInv, Facts, Facts', [Next]_vars
  PROVE  [Handle!Next]_(Handle!vars)
<1>1. CASE UNCHANGED vars
  BY <1>1 DEF vars, Handle!vars
<1>2. CASE Free
  BY <1>2, FreeIdleLemma DEF Facts, Closed, Busy, Handle!Next, Handle!Close, Handle!vars
<1>3. CASE Next /\ ~Free
  <2>1. ~Closed
    BY <1>3, ClosedLemma
  <2>2. js'.disposeRequested = js.disposeRequested
    BY <1>3, ClosingLemma
  <2> QED
    BY <2>1, <2>2 DEF Facts, Closed, Busy, Handle!Next, Handle!Enter, Handle!Leave, Handle!vars
<1> QED
  BY <1>1, <1>2, <1>3

\* The facade is a handle: one activity at a time, none after disposal was asked
\* for, and an object that is given back when the activity that holds it ends.
\* (WasmWqSession as a whole; the safety of what HandleSpec checks.)
THEOREM HandleTheorem == Spec => Handle!Init /\ [][Handle!Next]_(Handle!vars)
<1>1. (IInv => Facts)'
  BY FactsLemma, PTL
<1>2. IInv /\ [Next]_vars => [Handle!Next]_(Handle!vars)
  BY <1>1, FactsLemma, StepLemma, HandleStepLemma
<1> QED
  BY <1>2, InvariantLemma, HandleInitLemma, PTL DEF Spec
=============================================================================
