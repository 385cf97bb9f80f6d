------------------------------ MODULE VmCalls ------------------------------
(***************************************************************************)
(* Calls in wq's virtual machine (wqpl/src/vm/call.rs, interpret/vanilla.rs*)
(* and vm/module.rs).  The machine keeps four stacks: the activations of   *)
(* user functions, the try frames, the values saved by destructuring       *)
(* assignments, and the resumable builtins that call back user functions;  *)
(* Rust keeps a fifth, of the builtins that run an interpreter of their    *)
(* own.  Entries of one refer to another by call depth only.  What the     *)
(* five are together is ControlStack, which Refines says they implement.   *)
(*                                                                         *)
(* A program is any sequence of instructions: an activation is reduced to  *)
(* its code, the module it initializes and the regions the program counter *)
(* is inside of, and an instruction that is the last of try regions leaves *)
(* them as it executes (the program counter is past it).                   *)
(***************************************************************************)
EXTENDS Naturals, Sequences, FiniteSets, SequencesExt

CONSTANTS
  Codes,       \* the instruction sequences of user functions
  Modules,     \* the stable identities of importable modules
  NoModule,    \* the module of an activation that initializes none
  MaxDepth,    \* max_call_depth
  MaxRegions,  \* bound: regions open at once in one activation
  Modes,       \* whether evaluations are cooperative: {FALSE}, {TRUE} or both
  Compositions,\* whether programs call composed functions such as f + g
  Interrupts,  \* whether Ctrl-C or cliargs may stop an evaluation
  Escapes      \* whether @b and @c may leave a destructuring assignment

ASSUME VmCallsAssumption ==
  /\ NoModule \notin Modules
  /\ MaxDepth \in Nat /\ MaxRegions \in Nat
  /\ Modes \subseteq BOOLEAN
  /\ {Compositions, Interrupts, Escapes} \subseteq BOOLEAN

VARIABLES
  acts,       \* the root and caller_frames, and last the running activation
  tries,      \* try_stack
  unpacks,    \* unpack_frames
  builtins,   \* builtin_frames
  natives,    \* Rust's stack of builtins that run a nested interpreter
  coop,       \* cooperative_execution
  input,      \* whether pending_input_request is Some
  hostError,  \* whether pending_host_error is Some
  error,      \* the error being unwound, "machine" being WqErrorType::Vm
  halted,     \* whether halt_reason is Some
  loading,    \* module_loading
  cache,      \* module_cache
  status      \* what the evaluation last returned to the host

vars == <<acts, tries, unpacks, builtins, natives, coop, input, hostError,
          error, halted, loading, cache, status>>
control == <<natives, coop, input, hostError, error, halted>>
modules == <<loading, cache>>

Activation(code, module, saved) ==
  [code |-> code, module |-> module, lex |-> <<>>, unpack |-> saved]
Root(code) == <<Activation(code, NoModule, 0)>>

(* physical_call_depth *)
Depth == Len(acts) - 1
Here == Last(acts)

Room == Depth < MaxDepth
Rewound(saved) == IF saved < Len(unpacks) THEN SubSeq(unpacks, 1, saved) ELSE unpacks

(* An interpreter runs, the outermost or one a builtin started; otherwise  *)
(* a builtin written in Rust does.                                         *)
Interpreting == natives # <<>> => Last(natives).stop < Depth
Loop == status = "running" /\ error = "none" /\ Interpreting
InNative == status = "running" /\ ~Interpreting

(* The checks at the head of the interpreter's loop, in their order.       *)
Free == Loop /\ ~hostError /\ ~input
FrameHere == builtins # <<>> /\ Last(builtins).owner = Depth
Runnable == FrameHere /\ Last(builtins).wait # "call"
TryHere == /\ tries # <<>>
           /\ Last(tries).depth = Depth
           /\ Last(tries).code = Here.code
AtBoundary == TryHere /\ Len(Here.lex) < Last(tries).level
CanExecute == Free /\ ~halted /\ ~Runnable /\ ~AtBoundary

(* Where an instruction leaves the program counter. *)
Position(lex) == acts' = [acts EXCEPT ![Len(acts)].lex = lex]
After == {SubSeq(Here.lex, 1, n) : n \in
            {k \in 0 .. Len(Here.lex) :
               \A i \in k + 1 .. Len(Here.lex) : Here.lex[i] = "try"}}

-----------------------------------------------------------------------------
(* Calls.                                                                  *)

Called(code, module, lex) ==
  acts' = Append([acts EXCEPT ![Len(acts)].lex = lex],
                 Activation(code, module, Len(unpacks)))

(* A call that would be too deep is an error at the call. *)
Call(code) ==
  /\ CanExecute
  /\ \E lex \in After :
       IF Room
         THEN Called(code, NoModule, lex) /\ UNCHANGED error
         ELSE Position(lex) /\ error' = "user"
  /\ UNCHANGED <<tries, unpacks, builtins, natives, coop, input, hostError,
                 halted, modules, status>>

(* A call followed by Return is rewritten, but never one in a try region. *)
TailPosition == Depth > 0 /\ Here.lex = <<>>

(* A tail call reuses the activation. *)
TailCall(code) ==
  /\ CanExecute /\ TailPosition
  /\ acts' = [acts EXCEPT ![Len(acts)].code = code]
  /\ UNCHANGED <<tries, unpacks, builtins, control, modules, status>>

(* The try frames of the running activation are popped, one by one, and    *)
(* each rewinds the saved values.                                          *)
Kept == CHOOSE n \in 0 .. Len(tries) :
          /\ n > 0 => tries[n].depth # Depth
          /\ \A i \in n + 1 .. Len(tries) : tries[i].depth = Depth
Discarded == SubSeq(tries, 1, Kept)
RewoundOwn == IF Kept < Len(tries) THEN Rewound(tries[Kept + 1].unpack) ELSE unpacks

(* remove_loading_identity: the last entry, or the last one that is equal. *)
Unloaded(module) ==
  IF module \in Range(loading)
    THEN RemoveAt(loading, CHOOSE i \in DOMAIN loading :
                             /\ loading[i] = module
                             /\ \A j \in i + 1 .. Len(loading) : loading[j] # module)
    ELSE loading

FinishModule(module) ==
  IF module = NoModule THEN UNCHANGED modules
    ELSE /\ cache' = [cache EXCEPT ![module] = "loaded"]
         /\ loading' = Unloaded(module)

FailModule(module) ==
  IF module = NoModule THEN UNCHANGED modules
    ELSE /\ cache' = [cache EXCEPT ![module] = IF @ = "loading" THEN "none" ELSE @]
         /\ loading' = Unloaded(module)

(* A builtin below waits for the activation that runs. *)
CalledBack == /\ builtins # <<>>
              /\ Last(builtins).owner + 1 = Depth
              /\ Last(builtins).wait = "call"

Answered == [builtins EXCEPT ![Len(builtins)].wait = "none"]

(* Slip: try frames are left to the code that opened them. *)
SlipFinishCall ==
  /\ IF Depth = 0
       THEN /\ status' = "ready"
            /\ unpacks' = RewoundOwn
            /\ UNCHANGED <<acts, builtins, modules>>
       ELSE /\ acts' = Front(acts)
            /\ unpacks' = Rewound(Here.unpack)
            /\ FinishModule(Here.module)
            /\ builtins' = IF CalledBack THEN Answered ELSE builtins
            /\ UNCHANGED status
  /\ UNCHANGED <<control, tries>>

(* The end of an activation: its value is the export of its module, goes   *)
(* to the builtin that waits for it, or is the result of the evaluation.   *)
FinishCall ==
  /\ tries' = Discarded
  /\ IF Depth = 0
       THEN /\ status' = "ready"
            /\ unpacks' = RewoundOwn
            /\ UNCHANGED <<acts, builtins, modules>>
       ELSE /\ acts' = Front(acts)
            /\ unpacks' = Rewound(Here.unpack)
            /\ FinishModule(Here.module)
            /\ builtins' = IF CalledBack THEN Answered ELSE builtins
            /\ UNCHANGED status
  /\ UNCHANGED control

(* @r, which a root or a module may not contain, or the end of the code. *)
Return ==
  /\ CanExecute
  /\ Here.lex # <<>> => Depth > 0 /\ Here.module = NoModule
  /\ FinishCall

(* Slip: an activation that a builtin has called is not ended. *)
SlipHaltLeave == /\ Free /\ halted /\ ~AtBoundary /\ ~CalledBack
                 /\ FinishCall

(* A stopped evaluation breaks out of the loop, and every activation ends. *)
HaltLeave == /\ Free /\ halted /\ ~AtBoundary
             /\ FinishCall

-----------------------------------------------------------------------------
(* Try regions and destructuring assignments.                              *)

OpenRegion(kind) == /\ CanExecute
                    /\ Len(Here.lex) < MaxRegions
                    /\ Position(Append(Here.lex, kind))

TryOpen ==
  /\ OpenRegion("try")
  /\ tries' = Append(tries, [depth |-> Depth, code |-> Here.code,
                             level |-> Len(Here.lex) + 1, unpack |-> Len(unpacks)])
  /\ UNCHANGED <<unpacks, builtins, control, modules, status>>

UnpackOpen ==
  /\ OpenRegion("unpack")
  /\ unpacks' = Append(unpacks, [depth |-> Depth, level |-> Len(Here.lex) + 1])
  /\ UNCHANGED <<tries, builtins, control, modules, status>>

UnpackClose ==
  /\ CanExecute
  /\ Here.lex # <<>> /\ Last(Here.lex) = "unpack"
  /\ unpacks # <<>>
  /\ Position(Front(Here.lex))
  /\ unpacks' = Front(unpacks)
  /\ UNCHANGED <<tries, builtins, control, modules, status>>

(* The last instruction of try regions, or @b or @c, which jump beyond it. *)
Jump(k) ==
  /\ CanExecute
  /\ ~Escapes => \A i \in k + 1 .. Len(Here.lex) : Here.lex[i] = "try"
  /\ Position(SubSeq(Here.lex, 1, k))
  /\ UNCHANGED <<tries, unpacks, builtins, control, modules, status>>

(* finish_try_boundary *)
FinishTry ==
  /\ Free
  /\ Runnable => halted
  /\ AtBoundary
  /\ tries' = Front(tries)
  /\ unpacks' = Rewound(Last(tries).unpack)
  /\ UNCHANGED <<acts, builtins, control, modules, status>>

-----------------------------------------------------------------------------
(* Errors.                                                                 *)

(* An instruction fails; a machine error is one no program should cause.   *)
Raise(e) ==
  /\ CanExecute
  /\ error' = e
  /\ UNCHANGED <<acts, tries, unpacks, builtins, natives, coop, input,
                 hostError, halted, modules, status>>

Unwinding == status = "running" /\ error # "none" /\ Interpreting

(* Slip: a try frame of another activation is good enough. *)
SlipCatchesBelow == /\ error = "user"
                    /\ tries # <<>>
                    /\ Last(tries).code = Here.code

Catches == error = "user" /\ TryHere

(* The end of a region, where a call that was its last instruction is. *)
Outside(level) ==
  IF level > Len(Here.lex) THEN Here.lex ELSE SubSeq(Here.lex, 1, level - 1)

(* catch_current_try_error: the program continues at the region's end. *)
CatchTry ==
  /\ Unwinding /\ Catches
  /\ Position(Outside(Last(tries).level))
  /\ tries' = Front(tries)
  /\ unpacks' = Rewound(Last(tries).unpack)
  /\ error' = "none"
  /\ UNCHANGED <<builtins, natives, coop, input, hostError, halted, modules,
                 status>>

Captured == CalledBack /\ Last(builtins).captures

(* Slip: only the caller's operands are restored. *)
SlipCaptureError ==
  /\ Unwinding /\ ~Catches
  /\ Captured
  /\ acts' = Front(acts)
  /\ tries' = Discarded
  /\ builtins' = Answered
  /\ error' = "none"
  /\ UNCHANGED <<unpacks, natives, coop, input, hostError, halted, modules, status>>

(* capture_builtin_callback_error: the error is the callback's result. *)
CaptureError ==
  /\ Unwinding /\ ~Catches
  /\ Captured
  /\ acts' = Front(acts)
  /\ tries' = Discarded
  /\ unpacks' = Rewound(Here.unpack)
  /\ builtins' = Answered
  /\ error' = "none"
  /\ UNCHANGED <<natives, coop, input, hostError, halted, modules, status>>

(* Slip: the builtin that called the failed activation is left waiting. *)
SlipUnwindCall ==
  /\ Unwinding /\ ~Catches /\ ~Captured
  /\ Depth > 0
  /\ acts' = Front(acts)
  /\ tries' = Discarded
  /\ unpacks' = Rewound(Here.unpack)
  /\ FailModule(Here.module)
  /\ UNCHANGED <<builtins, control, status>>

(* unwind_user_call, after which a nested interpreter has returned the     *)
(* error to its builtin if that is the one that made the call.             *)
UnwindCall ==
  /\ Unwinding /\ ~Catches /\ ~Captured
  /\ Depth > 0
  /\ acts' = Front(acts)
  /\ tries' = Discarded
  /\ unpacks' = Rewound(Here.unpack)
  /\ FailModule(Here.module)
  /\ builtins' = IF CalledBack THEN Front(builtins) ELSE builtins
  /\ UNCHANGED <<control, status>>

FailEvaluation ==
  /\ Unwinding /\ ~Catches
  /\ Depth = 0
  /\ tries' = Discarded
  /\ unpacks' = RewoundOwn
  /\ error' = "none"
  /\ status' = "failed"
  /\ UNCHANGED <<acts, builtins, natives, coop, input, hostError, halted, modules>>

-----------------------------------------------------------------------------
(* Modules.                                                                *)

(* An import of a module that is loaded changes nothing, and one that is   *)
(* being loaded is a cycle: an error.  A module that cannot be resolved or *)
(* compiled is an error too (Raise).                                       *)
Import(m) ==
  /\ CanExecute
  /\ cache[m] = "none"
  /\ \E lex \in After :
       IF Room
         THEN /\ \E code \in Codes : Called(code, m, lex)
              /\ cache' = [cache EXCEPT ![m] = "loading"]
              /\ loading' = Append(loading, m)
              /\ UNCHANGED error
         ELSE Position(lex) /\ error' = "user" /\ UNCHANGED modules
  /\ UNCHANGED <<tries, unpacks, builtins, natives, coop, input, hostError,
                 halted, status>>

-----------------------------------------------------------------------------
(* Builtins that call functions.                                           *)

(* try_start_resumable_builtin: in a cooperative evaluation a frame, which *)
(* the loop steps, stands for map, fold, argparse and the like.            *)
StartFrame(captures) ==
  /\ CanExecute
  /\ coop
  /\ \E lex \in After : Position(lex)
  /\ builtins' = Append(builtins, [owner |-> Depth, captures |-> captures, wait |-> "none"])
  /\ UNCHANGED <<tries, unpacks, control, modules, status>>

Native(captures, frame) ==
  [stop |-> Depth, captures |-> captures, coop |-> coop, frame |-> frame]

(* Otherwise the builtin, or the operands of a composed function (which    *)
(* have no frame in any mode), are called from Rust.                       *)
StartNative(captures) ==
  /\ CanExecute
  /\ coop => Compositions /\ ~captures
  /\ \E lex \in After : Position(lex)
  /\ natives' = Append(natives, Native(captures, FALSE))
  /\ UNCHANGED <<tries, unpacks, builtins, coop, input, hostError, error,
                 halted, modules, status>>

(* invoke_spec, which runs a nested interpreter until the call returns. *)
NativeCalls(code) ==
  /\ InNative /\ error = "none"
  /\ Room
  /\ Called(code, NoModule, Here.lex)
  /\ UNCHANGED <<tries, unpacks, builtins, control, modules, status>>

NativeEnds(e) ==
  /\ natives' = Front(natives)
  /\ coop' = Last(natives).coop
  /\ error' = e
  /\ builtins' = IF e # "none" /\ Last(natives).frame THEN Front(builtins) ELSE builtins
  /\ UNCHANGED <<acts, tries, unpacks, input, hostError, halted, modules, status>>

NativeReturns == InNative /\ error = "none" /\ NativeEnds("none")
NativeFails ==
  /\ InNative
  /\ \/ error = "none" /\ NativeEnds("user")
     \/ error # "none" /\ ~Last(natives).captures /\ NativeEnds(error)

(* argparse, cliargs and asciiplot make a value of a callback's error. *)
NativeCaptures ==
  /\ InNative
  /\ error # "none" /\ Last(natives).captures
  /\ error' = "none"
  /\ UNCHANGED <<acts, tries, unpacks, builtins, natives, coop, input,
                 hostError, halted, modules, status>>

FrameStep == Free /\ ~halted /\ Runnable
Waits(wait) == builtins' = [builtins EXCEPT ![Len(builtins)].wait = wait]

(* A user function is called in the same interpreter. *)
FrameCalls(code) ==
  /\ FrameStep /\ Last(builtins).wait = "none"
  /\ IF Room
       THEN /\ Called(code, NoModule, Here.lex)
            /\ Waits("call")
            /\ UNCHANGED error
       ELSE /\ error' = "user"
            /\ builtins' = Front(builtins)
            /\ UNCHANGED acts
  /\ UNCHANGED <<tries, unpacks, natives, coop, input, hostError, halted,
                 modules, status>>

(* A builtin or a composed function is called from Rust, not cooperatively.*)
FrameCallsAtomic ==
  /\ FrameStep /\ Last(builtins).wait = "none"
  /\ natives' = Append(natives, Native(FALSE, TRUE))
  /\ coop' = FALSE
  /\ UNCHANGED <<acts, tries, unpacks, builtins, input, hostError, error,
                 halted, modules, status>>

FrameReads ==
  /\ FrameStep /\ Last(builtins).wait = "none"
  /\ input' = TRUE
  /\ Waits("input")
  /\ UNCHANGED <<acts, tries, unpacks, natives, coop, hostError, error, halted,
                 modules, status>>

FrameAcceptsInput ==
  /\ FrameStep /\ Last(builtins).wait = "input"
  /\ Waits("none")
  /\ UNCHANGED <<acts, tries, unpacks, control, modules, status>>

(* With a value, or with an error of its own. *)
FrameEnds(e) ==
  /\ FrameStep /\ Last(builtins).wait = "none"
  /\ builtins' = Front(builtins)
  /\ error' = e
  /\ UNCHANGED <<acts, tries, unpacks, natives, coop, input, hostError, halted,
                 modules, status>>

-----------------------------------------------------------------------------
(* Input, interruption and the host.                                       *)

(* poll_read_line in a cooperative evaluation *)
Input ==
  /\ CanExecute
  /\ coop
  /\ \E lex \in After : Position(lex)
  /\ input' = TRUE
  /\ UNCHANGED <<tries, unpacks, builtins, natives, coop, hostError, error,
                 halted, modules, status>>

(* The loop returns AwaitingInput, which a nested interpreter declares     *)
(* unreachable!.                                                           *)
Suspend ==
  /\ Loop /\ ~hostError
  /\ input
  /\ status' = IF natives = <<>> THEN "awaiting" ELSE "trapped"
  /\ UNCHANGED <<acts, tries, unpacks, builtins, control, modules>>

(* Slip: the builtin that waits for the line is kept when there is none. *)
SlipResumeInput(ok) ==
  /\ status = "awaiting"
  /\ input' = FALSE
  /\ hostError' = ~ok
  /\ status' = "running"
  /\ UNCHANGED <<acts, tries, unpacks, builtins, natives, coop, error, halted, modules>>

ResumeInput(ok) ==
  /\ status = "awaiting"
  /\ input' = FALSE
  /\ hostError' = ~ok
  /\ builtins' = IF ~ok /\ FrameHere /\ Last(builtins).wait = "input"
                   THEN Front(builtins) ELSE builtins
  /\ status' = "running"
  /\ UNCHANGED <<acts, tries, unpacks, natives, coop, error, halted, modules>>

RaiseHostError ==
  /\ Loop /\ hostError
  /\ hostError' = FALSE
  /\ error' = "user"
  /\ UNCHANGED <<acts, tries, unpacks, builtins, natives, coop, input, halted,
                 modules, status>>

(* poll_interrupt, at the head of the loop and in long builtins. *)
Interrupt ==
  /\ Interrupts
  /\ Free \/ (InNative /\ error = "none")
  /\ ~halted
  /\ halted' = TRUE
  /\ UNCHANGED <<acts, tries, unpacks, builtins, natives, coop, input,
                 hostError, error, modules, status>>

(* reset_with_prepared_instructions; what has halted the machine stays. *)
Clear == /\ tries' = <<>> /\ unpacks' = <<>> /\ builtins' = <<>>
         /\ natives' = <<>>
         /\ input' = FALSE /\ hostError' = FALSE /\ error' = "none"
         /\ loading' = <<>>

Forgotten == [m \in Modules |-> IF m \in Range(loading) THEN "none" ELSE cache[m]]

Ended == status \in {"ready", "failed"}

Start(code, mode) ==
  /\ Ended
  /\ Clear /\ cache' = Forgotten
  /\ acts' = Root(code)
  /\ coop' = mode
  /\ status' = "running"
  /\ UNCHANGED halted

(* take_interrupt or take_halt_status, when the host reports the end. *)
TakeHalt ==
  /\ Ended
  /\ halted' = FALSE
  /\ UNCHANGED <<acts, tries, unpacks, builtins, natives, coop, input,
                 hostError, error, modules, status>>

ResetExecution ==
  /\ Clear
  /\ acts' = Root(CHOOSE code \in Codes : TRUE)
  /\ coop' = FALSE
  /\ halted' = FALSE
  /\ status' = "ready"

(* A cooperative evaluation is cancelled between two slices. *)
Cancel ==
  /\ \/ status = "awaiting"
     \/ Loop /\ natives = <<>> /\ coop
  /\ ResetExecution /\ cache' = Forgotten

(* reset_workspace, and a change of resolver or builtins: every module is  *)
(* forgotten.                                                              *)
ResetWorkspace ==
  /\ Ended
  /\ ResetExecution /\ cache' = [m \in Modules |-> "none"]

-----------------------------------------------------------------------------
Init ==
  /\ acts \in {Root(code) : code \in Codes}
  /\ tries = <<>> /\ unpacks = <<>> /\ builtins = <<>> /\ natives = <<>>
  /\ coop = FALSE /\ input = FALSE /\ hostError = FALSE
  /\ error = "none"
  /\ halted = FALSE
  /\ loading = <<>>
  /\ cache = [m \in Modules |-> "none"]
  /\ status = "ready"

(* What the loop of an interpreter, or the builtin that runs, does next. *)
Execute ==
  \/ \E code \in Codes : \/ Call(code) \/ TailCall(code)
                          \/ NativeCalls(code) \/ FrameCalls(code)
  \/ Return \/ HaltLeave
  \/ TryOpen \/ UnpackOpen \/ UnpackClose \/ FinishTry
  \/ \E k \in 0 .. Len(Here.lex) - 1 : Jump(k)
  \/ \E e \in {"user", "machine"} : Raise(e)
  \/ CatchTry \/ CaptureError \/ UnwindCall \/ FailEvaluation
  \/ \E m \in Modules : Import(m)
  \/ \E captures \in BOOLEAN : StartFrame(captures) \/ StartNative(captures)
  \/ NativeReturns \/ NativeFails \/ NativeCaptures
  \/ FrameCallsAtomic \/ FrameReads \/ FrameAcceptsInput
  \/ \E e \in {"none", "user"} : FrameEnds(e)
  \/ Input \/ Suspend \/ RaiseHostError

Host == \/ \E code \in Codes, mode \in Modes : Start(code, mode)
        \/ TakeHalt \/ Cancel \/ ResetWorkspace
        \/ \E ok \in BOOLEAN : ResumeInput(ok)

Next == Execute \/ Interrupt \/ Host

Spec == Init /\ [][Next]_vars

(* The interpreter goes on, and a builtin ends: it calls its callbacks     *)
(* for the elements of a value, which are finitely many.                   *)
NativeOver == NativeReturns \/ NativeFails
FairSpec == Spec /\ WF_vars(Execute) /\ SF_vars(NativeOver)

-----------------------------------------------------------------------------
(* What the parts of the state have to do with one another.                *)

Live == status \in {"running", "awaiting"}

Activations == [code : Codes, module : Modules \cup {NoModule},
                lex : Seq({"try", "unpack"}), unpack : Nat]
TryFrames == [depth : 0 .. MaxDepth, code : Codes, level : 1 .. MaxRegions, unpack : Nat]
SavedValues == [depth : 0 .. MaxDepth, level : 1 .. MaxRegions]
BuiltinFrames == [owner : 0 .. MaxDepth, captures : BOOLEAN, wait : {"none", "call", "input"}]
Natives == [stop : 0 .. MaxDepth, captures : BOOLEAN, coop : BOOLEAN, frame : BOOLEAN]

(* Type correctness of the machine's state. *)
TypeOK ==
  /\ acts \in Seq(Activations) /\ Len(acts) \in 1 .. MaxDepth + 1
  /\ tries \in Seq(TryFrames)
  /\ unpacks \in Seq(SavedValues)
  /\ builtins \in Seq(BuiltinFrames)
  /\ natives \in Seq(Natives)
  /\ {coop, input, hostError, halted} \subseteq BOOLEAN
  /\ error \in {"none", "user", "machine"}
  /\ loading \in Seq(Modules)
  /\ cache \in [Modules -> {"none", "loading", "loaded"}]
  /\ status \in {"ready", "running", "awaiting", "failed", "trapped"}

Before(a, b) == a.depth < b.depth \/ (a.depth = b.depth /\ a.level < b.level)

(* The try frames of an activation are those of the regions it is in, and  *)
(* of regions it has just jumped out of, the innermost last; its code is   *)
(* still the code they belong to.                                          *)
RegionsMatch ==
  Live =>
    /\ \A i, j \in DOMAIN tries : i < j => Before(tries[i], tries[j])
    /\ \A t \in Range(tries) :
         /\ t.depth <= Depth
         /\ t.code = acts[t.depth + 1].code
         /\ t.level <= Len(acts[t.depth + 1].lex)
              => acts[t.depth + 1].lex[t.level] = "try"
    /\ \A a \in DOMAIN acts : \A level \in DOMAIN acts[a].lex :
         acts[a].lex[level] = "try"
           => \E t \in Range(tries) : t.depth + 1 = a /\ t.level = level

(* A destructuring assignment reads the values it saved itself: the saved  *)
(* values on the stack are those of the assignments under way, the         *)
(* innermost last.                                                         *)
UnpacksMatch ==
  Live =>
    /\ \A i, j \in DOMAIN unpacks : i < j => Before(unpacks[i], unpacks[j])
    /\ \A u \in Range(unpacks) :
         /\ u.depth <= Depth
         /\ u.level <= Len(acts[u.depth + 1].lex)
         /\ acts[u.depth + 1].lex[u.level] = "unpack"
    /\ \A a \in DOMAIN acts : \A level \in DOMAIN acts[a].lex :
         acts[a].lex[level] = "unpack"
           => \E u \in Range(unpacks) : u.depth + 1 = a /\ u.level = level

(* The modules being loaded are those whose initializers are on the stack  *)
(* of activations, each once and in that order, and the cache says so of   *)
(* no other.                                                               *)
ModulesMatch ==
  /\ Range(loading) = {acts[a].module : a \in DOMAIN acts} \ {NoModule}
  /\ \A i, j \in DOMAIN loading, a, b \in DOMAIN acts :
       acts[a].module = loading[i] /\ acts[b].module = loading[j] => (a < b <=> i < j)
  /\ \A m \in Modules : cache[m] = "loading" <=> m \in Range(loading)

(* Every activation has at most one resumable builtin under way, which     *)
(* waits for a call exactly when that call is what runs above it.          *)
FramesMatch ==
  Live /\ ~halted =>
    /\ \A i, j \in DOMAIN builtins : i < j => builtins[i].owner < builtins[j].owner
    /\ \A b \in Range(builtins) :
         /\ b.owner <= Depth
         /\ b.wait = "call" <=> b.owner < Depth /\ \A n \in Range(natives) : n.stop # b.owner

(* The loading list, the cache and the builtin frames refer to the stack   *)
(* of activations by position, and agree with it whatever calls, errors    *)
(* and halts have done to it.                                              *)
StacksMatch == ModulesMatch /\ FramesMatch

(* An evaluation ends, a stopped one included, with no activation but the  *)
(* root, no try frame, no builtin that runs and no module half loaded; one *)
(* that was not stopped has no resumable builtin left either.              *)
EndsClean ==
  [][~Ended /\ Ended' =>
       /\ Depth' = 0 /\ tries' = <<>> /\ natives' = <<>> /\ loading' = <<>>
       /\ ~halted' => builtins' = <<>>]_vars

(* Docs of @i: "Its final expression is the export value", so what the     *)
(* cache keeps comes from an initializer that ran to its end.              *)
LoadedRanToEnd ==
  [][\A m \in Modules : cache[m] = "loading" /\ cache'[m] = "loaded" => ~halted]_vars

(* unreachable!("nested interpreter requested cooperative input") *)
NestedNeverSuspends == status # "trapped"

(* Docs of argparse: "User input failures have kind `error`".  The error   *)
(* of a callback never ends a builtin that turns such errors into values.  *)
CallbackErrorsAreValues ==
  [][\A b \in Range(builtins) :
       b.captures /\ natives # <<>> /\ natives' = Front(natives)
         => b \in Range(builtins')]_vars

(* Ctrl-C ends an evaluation, however deep in calls and builtins it is.    *)
HaltEnds == halted /\ status = "running" ~> status # "running"

-----------------------------------------------------------------------------
(* The five stacks as one.                                                 *)

Context(kind) == [kind |-> kind, module |-> NoModule, captured |-> FALSE]
Contexts(kind, n) == [k \in 1 .. n |-> Context(kind)]

(* A builtin that turns errors into values has called the activation a. *)
Guarded(a) ==
  \/ \E b \in Range(builtins) : b.owner + 2 = a /\ b.wait = "call" /\ b.captures
  \/ \E n \in Range(natives) : n.stop + 2 = a /\ n.captures

TriesOf(a) == {i \in DOMAIN tries : tries[i].depth + 1 = a}
FramesOf(a) == {i \in DOMAIN builtins : builtins[i].owner + 1 = a}
NativesOf(a) == {i \in DOMAIN natives : natives[i].stop + 1 = a /\ ~natives[i].frame}

(* The activation a, its try regions, and the builtin it has called. *)
Segment(a) ==
  <<[kind |-> "call", module |-> acts[a].module, captured |-> Guarded(a)]>>
    \o Contexts("try", Cardinality(TriesOf(a)))
    \o Contexts("builtin", Cardinality(FramesOf(a)) + Cardinality(NativesOf(a)))

OneStack == IF Ended THEN <<>> ELSE FlattenSeq([a \in 1 .. Len(acts) |-> Segment(a)])

(* An error that a builtin is about to make a value of is thrown no more. *)
Thrown ==
  IF hostError THEN "user"
    ELSE IF InNative /\ error # "none" /\ Last(natives).captures THEN "none" ELSE error

Stack == INSTANCE ControlStack WITH stack <- OneStack, thrown <- Thrown, stopped <- halted

(* Errors, returns and imports treat the five stacks as one stack of       *)
(* contexts: nothing is caught, left or forgotten out of order.            *)
Refines == Stack!Spec
=============================================================================
