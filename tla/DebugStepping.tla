--------------------------- MODULE DebugStepping ---------------------------
(***************************************************************************)
(* Breakpoints and stepping: DebugState (wqpl/src/wqdb/state.rs), the      *)
(* check the interpreter makes before every instruction (vm/debug.rs) and  *)
(* the frames whose depth it counts (vm/call.rs, interpret/vanilla.rs).    *)
(*                                                                         *)
(* The program is any program: before an instruction is executed the model *)
(* chooses whether it jumps, calls, tail-calls, returns or fails.  A       *)
(* synchronous host serves a stop in its pause handler, a cooperative one  *)
(* between two polls of the evaluation.                                    *)
(***************************************************************************)
EXTENDS Naturals, Sequences, FiniteSets, SequencesExt

CONSTANTS Fns,        \* functions, each a chunk of its own
          Main,       \* the chunk of the item that is evaluated
          LastPc,     \* instructions of a chunk are 0 .. LastPc
          Stmts,      \* program counters where a statement begins
          LineOf,     \* source line of each program counter
          BreakLocs,  \* locations where breakpoints are set
          PauseLocs,  \* locations of an @p instruction
          MaxDepth,   \* bound: frames
          MaxTails,   \* bound: tail calls since a frame was entered
          MaxMarks,   \* bound: breakpoints that are set at once
          Nesting     \* whether builtins call user functions atomically

Pcs == 0 .. LastPc
Locs == (Fns \cup {Main}) \X Pcs
NoLoc == <<"none", 0>>
\* A chunk that is never executed again.
OldLoc == <<"old", 0>>

ASSUME SteppingAssumption ==
  /\ {LastPc, MaxDepth, MaxTails, MaxMarks} \subseteq Nat
  /\ Stmts \subseteq Pcs
  /\ BreakLocs \subseteq Locs /\ PauseLocs \subseteq Locs
  /\ NoLoc \notin Locs /\ OldLoc \notin Locs

Modes == {"none", "in", "over", "out"}
Granularities == {"line", "expr", "inst"}
\* Where a frame stands in the call tree, seen from the stop of the last request:
\* its own frame, the callers of that, what it called, and what came later.
Kins == {"base", "caller", "callee", "later"}

VARIABLES
  frames,  \* the current frame last, each with its logical tail-call depth
  host,    \* sync or coop
  dbg,     \* DebugState
  stop,    \* the reason of the stop that is being served, or none
  skip,    \* skip_debug_pause_once
  passed,  \* the check before the current instruction let it be executed
  stops,   \* history: stops made before the current instruction
  asked,   \* history: what the last request asked for
  lost     \* history: a stop has been swallowed since that request

request == <<asked, lost>>
vars == <<frames, host, dbg, stop, skip, passed, stops, asked, lost>>

Top == Last(frames)
Loc(f) == <<f.fn, f.pc>>
Here == Loc(Top)

FrameStates == [fn : Fns \cup {Main}, pc : Pcs, tails : 0 .. MaxTails, kin : Kins,
                nested : BOOLEAN]
DebugStates ==
  [enabled : BOOLEAN,
   breaks : [BreakLocs \cup PauseLocs -> {"absent", "on", "off", "pause-on", "pause-off"}],
   source : SUBSET BreakLocs, temps : SUBSET BreakLocs, mode : Modes,
   granularity : Granularities, base : Nat, last : Locs \cup {NoLoc, OldLoc}]

Frame(fn, tails, kin, nested) ==
  [fn |-> fn, pc |-> 0, tails |-> tails, kin |-> kin, nested |-> nested]

Init ==
  /\ frames = <<Frame(Main, 0, "later", FALSE)>>
  /\ host \in {"sync", "coop"}
  /\ \E on \in BOOLEAN :
       dbg = [enabled |-> on, breaks |-> [l \in BreakLocs \cup PauseLocs |-> "absent"],
              source |-> {}, temps |-> {}, mode |-> IF on THEN "in" ELSE "none",
              granularity |-> "expr", base |-> 0, last |-> NoLoc]
  /\ stop = "none" /\ skip = NoLoc /\ passed = FALSE
  /\ stops = 0 /\ asked = dbg.mode /\ lost = FALSE

(***************************************************************************)
(* The check before an instruction.                                        *)
(***************************************************************************)
\* Slip: frames are counted, logical calls are not.
PhysicalDepth == Len(frames) - 1

\* The tail calls that led to the frames, one by one.
TailCalls(fs) == {c \in (DOMAIN fs) \X (1 .. MaxTails) : c[2] <= fs[c[1]].tails}

\* Vm::call_depth: tail calls count as the calls they stand for.
CallDepth == Len(frames) - 1 + Cardinality(TailCalls(frames))

\* is_same_line_as_last_pause.
SameLine ==
  /\ CallDepth = dbg.base
  /\ dbg.last[1] = Top.fn
  /\ LineOf[dbg.last[2]] = LineOf[Top.pc]

StepPoint ==
  CASE dbg.granularity = "line" -> Top.pc \in Stmts /\ ~SameLine
    [] dbg.granularity = "expr" -> Top.pc \in Stmts
    [] OTHER -> TRUE

OverDue == CallDepth <= dbg.base
OutDue == CallDepth < dbg.base

StepDue ==
  /\ StepPoint
  /\ \/ dbg.mode = "in"
     \/ dbg.mode = "over" /\ OverDue
     \/ dbg.mode = "out" /\ OutDue

\* DebugState::pause_reason_at, in the order in which it looks.
PauseReason ==
  IF ~dbg.enabled THEN "none"
  ELSE IF dbg.last = NoLoc /\ Top.pc = 0 /\ CallDepth = 0 THEN "entry"
  ELSE IF \/ Here \in DOMAIN dbg.breaks /\ dbg.breaks[Here] = "on"
          \/ Here \in dbg.source \cup dbg.temps THEN "breakpoint"
  ELSE IF StepDue THEN "step" ELSE "none"

\* @p stops unless an entry for its location is switched off; looking creates
\* the entry (explicit_pause_id).
ExplicitDue == Here \in PauseLocs /\ dbg.breaks[Here] \notin {"off", "pause-off"}

Reason == IF PauseReason # "none" THEN PauseReason
          ELSE IF ExplicitDue THEN "explicit" ELSE "none"

NoteExplicit(d) ==
  IF PauseReason = "none" /\ Here \in PauseLocs /\ d.breaks[Here] = "absent"
  THEN [d EXCEPT !.breaks[Here] = "pause-on"] ELSE d

\* DebugState::note_pause.
NotePause(d) == [d EXCEPT !.last = Here, !.temps = {}]

Stopped == stop # "none"
AtCheck == ~Stopped /\ ~passed

\* resume_debug_pause has marked the location of the stop: the check takes the
\* mark, and lets the instruction pass if it is the one.
Skipped == skip = Here

Pass ==
  /\ AtCheck
  /\ Skipped \/ Reason = "none"
  /\ passed' = TRUE /\ skip' = NoLoc
  /\ UNCHANGED <<frames, host, dbg, stop, stops, request>>

\* Code a builtin runs atomically is not cooperative: its stops go to the pause
\* handler, and without one they are continued at once (dispatch_pause).
Swallowed == host = "coop" /\ Top.nested

\* A stop is served: by the handler, or as a pending pause between two polls.
Pause ==
  /\ AtCheck /\ ~Skipped /\ Reason # "none" /\ ~Swallowed
  /\ stop' = Reason
  /\ dbg' = NotePause(NoteExplicit(dbg))
  /\ stops' = stops + 1
  /\ skip' = NoLoc
  /\ UNCHANGED <<frames, host, passed, request>>

\* DebugState::clear_mode.
ClearMode(d) == [d EXCEPT !.mode = "none"]

\* Going on is a request of its own, to continue: it clears the mode, and with it
\* a step that the user has asked for and that has not come to its end.
SwallowedPause ==
  /\ AtCheck /\ ~Skipped /\ Reason # "none" /\ Swallowed
  /\ dbg' = ClearMode(NotePause(NoteExplicit(dbg)))
  /\ passed' = TRUE /\ skip' = NoLoc
  /\ lost' = TRUE
  /\ UNCHANGED <<frames, host, stop, stops, asked>>

(***************************************************************************)
(* What the user does at a stop.                                           *)
(***************************************************************************)
Marks == Cardinality({l \in DOMAIN dbg.breaks : dbg.breaks[l] \in {"on", "off"}})
           + Cardinality(dbg.source) + Cardinality(dbg.temps)

\* Persistent breakpoints are set, switched and cleared; a switched entry keeps
\* the kind it was created with (toggle_breakpoint_at, clear_breakpoint).
EditBreakpoint(l) ==
  /\ Stopped
  /\ \E b \in CASE dbg.breaks[l] = "absent" -> {"on"}
                [] dbg.breaks[l] = "on" -> {"off", "absent"}
                [] dbg.breaks[l] = "off" -> {"on", "absent"}
                [] dbg.breaks[l] = "pause-on" -> {"pause-off", "absent"}
                [] OTHER -> {"pause-on", "absent"} :
       dbg' = [dbg EXCEPT !.breaks[l] = b]
  /\ Marks' <= MaxMarks
  /\ UNCHANGED <<frames, host, stop, skip, passed, stops, request>>

\* Host-managed breakpoints are replaced as a whole; temporary ones are added.
EditLines ==
  /\ Stopped
  /\ \/ \E s \in SUBSET BreakLocs : dbg' = [dbg EXCEPT !.source = s]
     \/ \E l \in BreakLocs : dbg' = [dbg EXCEPT !.temps = @ \cup {l}]
     \/ \E g \in Granularities : dbg' = [dbg EXCEPT !.granularity = g]
  /\ Marks' <= MaxMarks
  /\ UNCHANGED <<frames, host, stop, skip, passed, stops, request>>

\* Slip: the depth of an earlier request is kept.
RequestKeepingBase(d, action) == [d EXCEPT !.mode = action]

\* req_in, req_over, req_out and clear_mode.
Request(d, action) ==
  IF action = "none" THEN ClearMode(d)
  ELSE [d EXCEPT !.mode = action, !.base = CallDepth]

\* From here on the call tree is seen from this frame.
Rebase(fs) ==
  [i \in DOMAIN fs |-> [fs[i] EXCEPT !.kin = IF i = Len(fs) THEN "base" ELSE "caller"]]

\* Slip: the location is not marked, and stops again.
MarkNone == NoLoc

MarkHere == Here

\* The stop ends.  The handler returns into the check; a cooperative evaluation
\* is polled again and comes back to the same check.
Resume ==
  /\ Stopped
  /\ \E a \in Modes : dbg' = Request(dbg, a) /\ asked' = a
  /\ lost' = FALSE
  /\ frames' = Rebase(frames)
  /\ IF host = "sync" THEN passed' = TRUE /\ UNCHANGED skip
     ELSE skip' = MarkHere /\ UNCHANGED passed
  /\ stop' = "none"
  /\ UNCHANGED <<host, stops>>

(***************************************************************************)
(* The instruction.                                                        *)
(***************************************************************************)
Executed ==
  /\ passed' = FALSE
  /\ stops' = 0
  /\ UNCHANGED <<host, stop, skip>>

Jump(pc) ==
  /\ frames' = [frames EXCEPT ![Len(frames)].pc = pc]
  /\ UNCHANGED <<dbg, request>>

CalleeKin == IF Top.kin \in {"base", "callee"} THEN "callee" ELSE "later"

\* The caller goes on after the call; the tail calls that led to it are put
\* aside with its frame (Vm::enter_call).  To a synchronous host it makes no
\* difference that a builtin calls atomically.
Call(fn, nested) ==
  /\ Len(frames) < MaxDepth /\ Top.pc < LastPc
  /\ nested => Nesting /\ host = "coop"
  /\ frames' = Append([frames EXCEPT ![Len(frames)].pc = @ + 1],
                      Frame(fn, 0, CalleeKin, nested \/ Top.nested))
  /\ UNCHANGED <<dbg, request>>

\* The frame of a tail call takes the place of its caller's.
TailCall(fn) ==
  /\ Top.tails < MaxTails
  /\ frames' = [frames EXCEPT ![Len(frames)] =
                  Frame(fn, Top.tails + 1, CalleeKin, Top.nested)]
  /\ UNCHANGED <<dbg, request>>

\* Slip: the caller goes on with the tail-call depth of what it called.
UnwoundKeepingTails(n) == [SubSeq(frames, 1, n) EXCEPT ![n].tails = Top.tails]

\* The caller gets its own tail-call depth back.
Unwound(n) == SubSeq(frames, 1, n)

\* A return leaves one frame, an error may unwind more (Vm::finish_user_call).
Return(n) ==
  /\ frames' = Unwound(n)
  /\ UNCHANGED <<dbg, request>>

\* DebugState::arm_entry.
ArmEntry(d) == [d EXCEPT !.last = NoLoc, !.mode = "in", !.base = 0]

\* The item ends, by a value, an error or a halt, and another one begins, which
\* is a chunk of its own.  The mode outlives it, so that steps lead from one
\* item of a script to the next; a host may ask for an entry stop.
NextItem ==
  /\ frames' = <<Frame(Main, 0, "later", FALSE)>>
  /\ \E armed \in BOOLEAN :
       LET d == [dbg EXCEPT !.last = IF @[1] = Main THEN OldLoc ELSE @] IN
       IF armed /\ dbg.enabled
       THEN dbg' = ArmEntry(d) /\ asked' = "in" /\ lost' = FALSE
       ELSE dbg' = d /\ UNCHANGED request

Execute ==
  /\ passed
  /\ \/ \E pc \in Pcs : Jump(pc)
     \/ \E fn \in Fns, nested \in BOOLEAN : Call(fn, nested)
     \/ \E fn \in Fns : TailCall(fn)
     \/ \E n \in 1 .. Len(frames) - 1 : Return(n)
     \/ NextItem
  /\ Executed

Next ==
  \/ Pass \/ Pause \/ SwallowedPause \/ Resume \/ Execute \/ EditLines
  \/ \E l \in BreakLocs \cup PauseLocs : EditBreakpoint(l)

Spec == Init /\ [][Next]_vars


(***************************************************************************)
(* Properties.                                                             *)
(***************************************************************************)
HasBreakpoint ==
  \/ /\ dbg.enabled
     /\ \/ Here \in DOMAIN dbg.breaks /\ dbg.breaks[Here] = "on"
        \/ Here \in dbg.source \cup dbg.temps
  \/ Here \in PauseLocs /\ dbg.breaks[Here] \notin {"off", "pause-off"}

Executes == passed /\ ~passed'

\* An instruction that a breakpoint or an @p marks is executed after exactly one
\* stop there, whoever serves it, and none is executed after two; only what a
\* builtin runs atomically under a cooperative host goes past a breakpoint.
BreakpointsHold ==
  [][Executes => /\ stops \in {0, 1}
                 /\ HasBreakpoint /\ ~Swallowed => stops = 1]_vars

\* Step over never stops inside what the frame of the request called, by a call
\* or a tail call, and step out not in that frame either.
StepsStayOut ==
  stop = "step" =>
    /\ dbg.mode = "over" => Top.kin # "callee"
    /\ dbg.mode = "out" => Top.kin \notin {"base", "callee"}

IsStepUnit ==
  \/ dbg.granularity = "inst"
  \/ dbg.granularity = "expr" /\ Top.pc \in Stmts

\* The first statement (or instruction) that the step asked for is to reach is
\* executed, if at all, only after a stop, however the calls between were entered
\* and left.
StepKept ==
  Executes /\ dbg.enabled /\ IsStepUnit /\ stops = 0 =>
    /\ asked # "in"
    /\ asked = "over" => Top.kin \notin {"base", "caller"}
    /\ asked = "out" => Top.kin # "caller"

\* A step ends at its place unless a stop was swallowed on the way: what the user
\* asked for at the last stop survives every call, tail call, return, error and
\* end of an item, but not a breakpoint or an @p (nor the end of the step itself)
\* in code that a builtin runs atomically under a cooperative host, where
\* dispatch_pause finds no handler, continues and so forgets the step.
StepsAreTaken == [][~lost => StepKept]_vars

\* The same without the exception, of the code in which a stop can be served.  The
\* program does not do this.
EveryStepTaken == [][~Swallowed => StepKept]_vars

\* A step by lines moves on: back in the frame of the request it does not stop
\* on the line it left.
LinesAdvance ==
  [][(stop = "none" /\ stop' = "step" /\ dbg.granularity = "line" /\ Top.kin = "base")
       => LineOf[dbg.last[2]] # LineOf[Top.pc]]_vars

\* Type correctness of the frames and of the debugger's state.
TypeOK ==
  /\ frames \in Seq(FrameStates) /\ frames # <<>>
  /\ host \in {"sync", "coop"}
  /\ dbg \in DebugStates
  /\ stop \in {"none", "entry", "breakpoint", "step", "explicit"}
  /\ skip \in Locs \cup {NoLoc}
  /\ passed \in BOOLEAN /\ stops \in Nat
  /\ asked \in Modes /\ lost \in BOOLEAN
=============================================================================
