# wq in TLA+

wq is an array language: a compiler and bytecode virtual machine (`wqpl`), a
command line with a REPL, a debugger shell and a debug adapter (`wq-cli`,
`wq-dap`), a line editor (`wq-rl`), a WebAssembly host with a browser front end
(`wq-wasm`, `wqide`) and a language server (`wqls`). This directory models two
kinds of behaviour: what depends on the order of events (threads that share a
status, a virtual machine that is paused, interrupted, unwound and resumed,
queues, caches and logs that outlive one operation), and the one sequential part
where correctness is a relation between two representations, the lowering of
control flow to bytecode. What a value is, how a line is parsed and what a
builtin computes are left out.

Paths below are relative to the repository.

## 1. Inventory

| Component | Where | State | Operations | Talks to | Modelled in |
|---|---|---|---|---|---|
| DAP adapter session | `wq-cli/src/dap.rs`, `dap/thread.rs` | per launch: `VmStatus` (state, interrupt handle, pending interrupt) and a command channel; one event channel; the locked output | every DAP request; `run_vm`; pause and post-mortem handlers; the event forwarder | the client (messages), `Session`, `Vm::poll_interrupt` | `DapSession` |
| DAP messages | `wq-dap/src` | none beyond framing | parse and write one message | the adapter | |
| Debugger state | `wqpl/src/wqdb/state.rs`, `vm/debug.rs` | breakpoints, temporary breakpoints, source breakpoints and their resolutions, the step mode, the pause location | set, clear, step in/over/out, `pause_reason_at`, `note_pause`, dispatch to the host, resume | the interpreter, the shell, DAP, the browser | `DebugStepping` |
| Interpreter and calls | `interpret/vanilla.rs`, `vm/call.rs`, `vm/builtin_frame.rs` | instruction pointer, value stack, caller frames, try frames, builtin frames, loading modules | call, tail call, return, try, raise, import, callbacks of builtins, slices | debugger, modules, session | `VmCalls` |
| Interrupts | `wq-cli/src/interrupt.rs`, `vm.rs` | the armed evaluation, requested flag; the VM's atomic flag and halt reason | arm, request (Ctrl-C), drop the guard, poll, take | REPL, loader, DAP | `ReplTurns` |
| Modules | `vm/module.rs`, `module.rs` | loading set, module cache | import, finish, fail, clear | interpreter, host resolver | `VmCalls` |
| Loader | `wq-cli/src/load.rs` | loading set, registry of embedded files, the crash kept for the debugger | `!load` directives, nested loads | session, REPL | `LoadGraph` |
| Session and script evaluations | `wqpl/src/session.rs` | globals, the active cooperative evaluation, its pending item | eval, start, poll, cancel, resume with input or a debugger command, reset | VM, wasm host | `BrowserSession` |
| Inline call cache | `interpret/vanilla/call.rs` | per call site: callee address and shape | probe, fill | interpreter | |
| Line editor | `wq-rl/src` | line buffer, undo and redo stacks, kill ring, history cursor | edit, undo, redo, kill, yank, history search | terminal, REPL | `LineEditor` |
| REPL | `wq-cli/src/repl*` | current input, modes, notes | read, evaluate, commands | session, line editor, interrupts | `ReplTurns` |
| Debugger shell | `wq-cli/src/wqdb/` | parsed command, focus frame | commands on a paused VM | debugger state | |
| Browser host | `wq-wasm/src/lib.rs`, `browser.js` | session handles, running evaluation, worker | start, poll in slices, stdin, debugger, cancel | session | `BrowserSession` |
| IDE | `wqide/js` | queue of evaluations; per view a controller, an input requester, a session or controls | run, stop, reset, change, close | browser host | `EvalQueue` |
| Language server | `wqls/src` | open documents | didOpen, didChange, queries | parser | |
| Compiler front end | `lex.rs`, `parse*`, `compile*`, `format*`, `cst*` | none between calls | source to bytecode, optimization passes, formatting | session | `Lowering` |
| Values, builtins, CAS, numerics | `value*`, `builtins*`, `cas*`, `cephes*` | values | pure computation | interpreter | |
| Documentation, highlighting, display | `doc*`, `highlight.rs`, `display*` | none | text | REPL, IDE | |
| Tests, benchmarks, examples, packaging | `hotchoco`, `wqbench`, `e`, `d`, `publish-scripts`, `wq-ts` | | | | |

### What makes each part correct

* **DAP adapter session.** A command reaches only the launch it was meant for; a
  client never hears of a stop that a response has not let it expect, or of two
  exits; a Terminate sent at any moment ends the program.
* **Debugger state.** A breakpoint stops once each time it is reached; a step
  over or out never stops in what the frame called; a temporary breakpoint is
  gone once reached; nowhere is stopped twice without executing.
* **Interpreter and calls.** The stacks agree on what is live: whatever way
  a call ends, its frame, its `try` regions, its builtin frame and its loading
  module go with it, and a tail call never discards a frame something waits on.
* **Interrupts.** A request stops the evaluation it was made in and no later one.
* **Modules and loader.** A module or file is loading exactly while its body
  is being evaluated; a failed load leaves nothing behind; the crash shown to the
  post-mortem debugger is that of the error shown.
* **Session and browser host.** At most one evaluation runs; its answer is given
  once, to the caller that started it; a call made from a handler is refused or
  applied, never lost; a disposed session stays disposed.
* **Compiler.** The code of every stage computes what the program means: the same
  value, the same calls in the same order, the same bindings left behind; and
  every join of its control flow has one height of the operand stack.
* **Inline call cache.** A hit returns the callee the slow path would have found.
* **Line editor.** The undo log always leads back to the empty line; one undo
  takes back all of a group of changes, and nothing of the one before; what a run of kills removed is what a yank brings back.
* **REPL and shells.** Each turn starts from a clean interrupt and ends with its
  evaluation disarmed, whatever the turn did.
* **IDE.** Evaluations run one at a time, in the order asked for, and never once
  stopped; a view shows what its own evaluation does.
* **Language server.** An answer is computed from the text it was asked about.

### What is hard here

* **Three threads around one status.** The adapter reads a `VmStatus`, releases
  the lock, and then sends a command to a VM thread that may have moved on; the
  VM thread writes the same status when it pauses, resumes and exits; Terminate
  can arrive before the VM has a handle to interrupt.
* **Events against responses.** Two threads write to the client: the VM's events
  go through a channel and a forwarder, the adapter's responses do not.
* **A VM that stops anywhere.** A step can pause, run out of its slice, wait for
  input, be interrupted or raise, at any call depth, inside `try`, inside an
  import and inside a builtin that calls back into wq.
* **User code in the middle of a host.** The browser facade calls output,
  input, pause and notification handlers that may call back into it, never
  settle, or outlive the evaluation that called them.
* **State that outlives an operation.** The interrupt flag and the halt reason,
  the module cache and the loading list, the frames of an evaluation that was
  abandoned, the step mode of the last stop, undo groups left open, a queue that
  several views share.
* **Optimizations that must agree.** Five passes over one instruction stream,
  each asking its own questions of what a jump, a `try` region or a loop may do.

## 2. The modules

| Module | Models | Uses |
|---|---|---|
| `VmStatus` | the monitor of `dap/thread.rs`, one operator per method | |
| `DapSession` | `wq dap`: adapter, VM and forwarder threads, channels, output | extends `VmStatus`, instances `DebuggeeLifecycle` |
| `DebuggeeLifecycle` | abstract: what a client is promised of a debuggee | |
| `BrowserSession` | the JavaScript facade, the wasm core and the cooperative evaluation of a session | instances `SessionHandle` |
| `SessionHandle` | abstract: a handle whose disposal is deferred, and happens | |
| `ReplTurns` | Ctrl-C, controlled halts and the turns of the REPL or one script run | |
| `VmCalls` | activations, try regions, destructuring, builtins that call back, modules | instances `ControlStack` |
| `ControlStack` | abstract: the one stack of contexts that `VmCalls`' five stacks stand for | |
| `EvalQueue` | the IDE's queue of evaluations, controllers, input requests, REPL and plot views | instances `JobQueue` |
| `JobQueue` | abstract: jobs served one at a time, in order, never once cancelled | |
| `DebugStepping` | breakpoints, step modes, the skip after a resume | |
| `LineEditor` | the line, undo log, kill ring and recall of the REPL's editor | |
| `LoadGraph` | scripts that load scripts, embedded files, the crash kept | |
| `Bytecode` | the instructions for control flow and their execution | |
| `Passes` | tail calls and fusion, and the shape of the code they are given | extends `Bytecode` |
| `Lowering` | the compiler and its passes, and what a program means | extends `Passes` |
| `Machine` | an execution, one turn of the interpreter's loop after the other; its turn is a parameter | |
| `Rewriting` | abstract: an execution of rewritten code is one of the code before | extends `Passes`, instances `Machine` three times |
| `MCDebugStepping`, `MCLineEditor`, `MCLoadGraph`, `MCLowering`, `MCRewriting` | TLC's instances: values for constants that a `.cfg` cannot write | extend the module they instantiate |
| `DapSession_proofs`, `ReplTurns_proofs`, `Scripts_proofs` (`LoadGraph` and `Rewriting`), `EvalQueue_proofs`, `BrowserSession_proofs`, `VmCalls_proofs`, `DebugStepping_proofs`, `LineEditor_proofs` | theorems | extend the modules they are about |

Definitions whose comment begins with "Slip" or "Mutant" are not the program:
each is a plausible mistake in the definition after it, and shows that a
property can fail.

How the parts meet: a front end (`ReplTurns`, `DapSession`, `BrowserSession`)
starts an evaluation and may interrupt it; what an evaluation does to the control
state of the machine is `VmCalls`, to the debugger `DebugStepping`, to other
files `LoadGraph`; the code it executes is that of `Lowering`. Each module takes
its neighbours at the interface: for `DapSession` a program is any sequence of
instructions, pauses and failures, for `DebugStepping` any sequence of jumps,
calls, tail calls, returns and errors, for `EvalQueue` a task is anything that
prints, asks, pauses and ends. That `try` and destructuring regions nest, which
`VmCalls` assumes of its code, is what the compiler of `Lowering` emits for `@t`.

### DapSession

The threads of `wq dap` are the adapter (`apc` is where it is in the handling of
one request, `req` that request), one VM thread per launch (`vpc[v]`) and the
forwarder (`fwd`, the event it holds). They share, per launch, a `VmStatus`
(`state`, `handle`, and `requested`, the interrupt flag of the session's VM) and
a command channel (`cmds`; `attached[v]` says whether the adapter still holds
its sender), one event channel (`evq`), the reply channel of the request in
hand (`reply`), and the output (`wire`, which records what the client has been
sent). `resumed` is history.

An action is one critical section, one channel operation or one message written:
what lies between two of them in the code is where another thread may run. So
`wait_until_paused` and the send that follows it are two actions
(`WaitUntilPaused`, `AskVm` or `BeginResumeOf` and `SendResume`), and
`dap_on_pause` is `VmPause` (mark the status), `VmAnnounce` (the `Stopped`
event), `VmReceive`/`VmServe` (its loop) and `VmResume` (`mark_running`).
Requests are reduced to what they do to the threads: `query` (stack trace,
scopes, variables, breakpoints), `resume` (continue and the steps), `plain`,
`launch`, `terminate`, `disconnect`, `detach`. The output lock that `Launch`
takes from the `Process` event to the spawn of the thread is `OutputLocked`.
The script is any sequence of instructions, pauses, failures and an end; a
panic of the VM thread is a separate action.

### BrowserSession

Four variables: `js`, the private fields of `WasmWqSession` in `browser.js`;
`core`, the wasm-bindgen object with its `Session` and `Vm` (the evaluation, the
token of the session, the pending input request, pause and host error, the halt,
the notifications, and how often it was freed); `run`, the `eval_wq_async` call
between its first and last line, with the await it is at; `host`, the core
method on whose stack user code is running. JavaScript runs one synchronous
section at a time, so an action is the section from an event to the next await,
or to the point where a core method calls an output callback. `Poll` records say
what one slice returns; `PollEvaluation`, `AfterFragment` and `Interpret` compute
them in the order in which session and interpreter look at what is pending. User
code is `UserStep`: it may start evaluations, reset, free, abort, settle the
promises it was asked for, or use a debugger stop it has kept, at any time and in
any callback.

### ReplTurns

`active` and `pending` are the controller of `interrupt.rs` and the signal that
its thread has not taken yet; `flag` and `halt` are
`Vm::interrupt_requested` and `Vm::halt_reason`; `at` is where the front end is:
at the prompt, running, finished (guard still armed), dropped (guard gone, nothing
reported), exited. `raised` says that the evaluation returned an error, which is what
`exec` looks at after the interrupt and before the status of a halt (`ExitCode`).
The signal thread decides under the lock and exits after it (`SignalEscalates`,
`SignalExits`, with `killing` between them), wherever the main thread has got to.
`ReplReports` and `ExecReports` are the two ways of taking the
halt. `causes` and `stopped` are history: what in this turn may stop it and what
did.

### VmCalls

`acts` is the root, the caller frames and the running activation; `tries`,
`unpacks` and `builtins` are `try_stack`, `unpack_frames` and `builtin_frames`,
which know the others by call depth only; `natives` is the part of Rust's stack
that matters, the builtins that run an interpreter of their own. An activation is
its code, the module it initializes and the regions its program counter is in
(`lex`): the compiler emits `try` and destructuring as properly nested regions,
so the program counter is abstracted to a path of regions, and `After` is the
set of paths at which an instruction can leave it.

An action is one turn of the interpreter's loop (`interpret_inner`): its head
checks, in the code's order, a host error, a pending input, a builtin frame to
step, the end of a try region, and then executes an instruction. Instructions are
merged by what they do to control: call, tail call, return, opening and closing a
region, import, calling a builtin, reading a line, raising. Natives that are
started at the same point differ only in whether they capture callback errors.
A machine error (`WqErrorType::Vm`) is an error `try` does not catch. `Host` is
what surrounds the loop: start, an answer to a read, cancel, taking the halt,
reset.

`Escapes = FALSE` says that `@b` and `@c` do not jump out of a destructuring
assignment (see "Not modelled"). The states `trapped` (the `unreachable!` of a
nested interpreter) and deadlocks after it are the program's panic.

### EvalQueue

`jobs` holds every evaluation ever started with its view, its signal and its
task; `chain` is the module-level promise `evalQueue` of `eval-lifecycle.js` as
the list of links that have not settled; `run` and `shown` are the private fields
of a view's controller, `request` its input requester; `repl` and `plot` the state
of a `repl.js` and of a `viz.js` view. An action is one turn of the event loop (a
click, a key, a timer, a message of the worker) or one promise reaction, and all
reactions run before the next event (`Quiet`), as promises do. A task asks for
input, pauses, prints, changes its session, and gives way whenever it awaits;
nothing makes it end.

`JobQueue` is what the page relies on: jobs are served one at a time, always the
one asked for first of those that wait, and one cancelled while it waits never.
The mapping takes the evaluations that have not begun and are not aborted for
`waiting`, and the one at the head of `chain` that has begun for `busy`.

### DebugStepping

`frames` are the current frame and its callers, each with the depth of tail calls
it stands for; `dbg` is `DebugState`; `host` says whether stops are served by a
synchronous pause handler or between two polls; `skip` is
`skip_debug_pause_once`. The program is any program: before an instruction
executes (`passed` says that the check before it let it), the model chooses
whether it moves on, jumps, calls, tail-calls, returns or raises. So the
properties hold for every program whose chunks are no longer and whose calls are
no deeper than the bounds. `Frame.kin` is history: where a frame stands relative
to the stop at which the last step was asked for, which is what "over" and "out"
speak of; the code speaks of depths. `Nesting` lets builtins call user functions
atomically.

`asked` and `lost` are history too: what the last request asked for, and whether a
stop has been swallowed since. The step properties read `asked`, because the mode
itself forgets.

Three behaviours a reader should know of. Under a cooperative host, as the browser
is, a breakpoint, an `@p` or the end of a step in a callback that a builtin runs
atomically finds no pause handler: `dispatch_pause` notes it, takes the temporary
breakpoints and goes on with `Continue`, which clears the mode
(`vm/debug.rs:60-65`, `SwallowedPause`). Nobody is told, and the step the user
asked for is forgotten: a step in, over or out that was under way ends nowhere, and
the program runs on to the next breakpoint or its end. The book promises otherwise
and without exception, and of the cooperative host: `d/articles/book/10-wqdb.md`
opens with the REPL of wqide and says that `Continue` runs until a breakpoint and
what stepping in, over and out do (lines 41-48). `EveryStepTaken` says it, and
`DebugStepping_swallowed.cfg` shows it violated, in the statement after a builtin
that has called a function back. `StepsAreTaken` exempts a step after such a stop
(`~lost`) and `BreakpointsHold` what is executed in such callbacks; both hold of
everything else. A step out may stop in a function
that the caller calls next, at the same depth. A step by lines compares with the
line of the last stop, so in `f[]+f[]` it passes the second call
(`wqdb/model.rs:40`).

### LineEditor

`line` is the text and the cursor, `log` is `Changeset::undos`, `level` the group
level, `ring` the kill ring with its index and last action, `recall` whether the
line is one of the history and which line was saved for it. An action is one
command of the read loop with all it does: the kill-ring bookkeeping before, the
edit, the group it opens and ends and the reset or not of the ring after. Keys
come from the Emacs keymap of the REPL; a menu or a search reads further keys and
is one action. Characters are letters (which undo merges into one change), other
marks and the newline.

`UndoIsWhole` speaks of groups that begin at level 0, because `truncate` forgets
the changes of an open group and not its level, after which the next `end()` is
one too many (`undo.rs:121-124`; `LineEditor_end.cfg`). So after a dismissed menu
one undo need not take back one command. Nor does it where a command makes no
group: `NextHistory` past the last entry restores the saved line by a deletion and
an insertion (`edit.rs:167-173`, `790-792`), and one undo leaves the empty line.

### LoadGraph

`calls` are the evaluations in progress, innermost last: the line, the files and
the embedded scripts its directives load. `loading` is the cycle guard,
`registry` the embedded scripts that were loaded, `crash` the post-mortem state
of the machine. What a script contains is chosen item by item (a directive, code
that ends, code that fails), so a file may change between two loads; two names may
be one file, which is what `fs::canonicalize` is for. An error travels outwards
one evaluation per step, since each has its own clean-up; an interrupt makes every
evaluation stop.

### Bytecode and Lowering

A state is a program after some passes; a step is one pass: `Compile`,
`PropagateConstants`, `RewriteTailCalls`, `FuseOnce` (until it changes nothing)
and `ExtractOwned`, in the order of `session.rs:1225-1282`. `Meaning` is an
evaluator of syntax trees that knows nothing of code; `Execution` runs code
instruction by instruction as `interpret/vanilla.rs` does. A program calls one
function, `f`, whose outcomes are a tape: false, true or an error; a call that
returns also rebinds `x`, as a closure does that has captured it. `MeaningKept`
compares, for every tape, the value or error, how many calls were made, and the
bindings of `x` and `_n` at the end; `HeightsAgree` says that the operand stack
has one height at every address, however it is reached.

`hazards` records what the passes do not ask about: `"pair"`, a jump into the
second of two fused instructions, and `"try"`, an owned constant between a region
and its handler. `MeaningKept` is checked where nothing was recorded; the first
is a finding, the second a configuration run by hand.

Instructions are those of control flow: constants and owned constants, loads and
stores of one variable and of the hidden variables of loops, one binary
instruction with its fused forms, jumps, `NLoopEnter`/`NLoopNext`, calls and tail
calls, `Try`, lists, `Pop`, `Return` and the pause. Every program is a
script, a function of a script, or a function of an imported module, since the
compiler asks a different question about `_n` in each.

### Passes, Machine and Rewriting

`RewriteTailCalls` and `FuseOnce` do not look at what code computes, so they can be
judged for any code and not only for that of small programs. `Passes` has these
two, apart from `Lowering` because proofs about them must not reach the recursion
over syntax trees. `WellFormed` is what they rely on without asking: the code ends
in a `Return`, jumps and regions end in it, regions nest, what leaves a region by
a jump leaves it forwards past an instruction that fusion keeps, and a
`JumpIfFalse` to the next instruction follows a comparison it is fused with.
`HeightsAgree` includes `WellFormed` of the code of every stage of the 12,000
programs, so the shape is one the compiler produces.

`Machine` is an execution as a behaviour: `Start` is the machine of an activation
and a step is `Turn`, one turn of the loop at `vanilla.rs:208-280`, until the
activation ends. `Rewriting` says of each pass that it is a refinement: the
variables of `Machine`, instantiated with the code after the pass and with a
mapping of the machine, describe one of its executions.

* Fusion (`FusionImplements`). `AfterFusion` moves the program counter and the ends of
  the open regions to their new addresses (`Moves`); where the code before stands
  between the halves of a pair (`HalfWay`), the fused code has done both.
* Tail calls (`TailsImplement`). After a call that was made where the rewritten code has
  a tail call, the other execution has ended while this one has its `Return` still
  to execute; so the machine is mapped to one that has returned
  (`AfterTailCall`). Which call it was cannot be told from the machine afterwards,
  hence the history variable `returning`.

The mappings leave the operand stack (outside a pair), the variables, the number
of calls and how the activation ends as they are: this is what the theorems say
is the same. A turn is a function of the machine, so no execution of the code after
the pass is left out either.

## 3. What the runs check

Bounds are in the `.cfg` files; every bound is a constant whose comment says
what it bounds.

| Run | Bounds, and why they are enough | Shows |
|---|---|---|
| `dap` (`DapSession.cfg`) | one launch, 3 requests counting it, of all eight kinds, 2 stops, panics. A stale command needs the resume that ends a stop and one request more that still saw it (`DapSession_long.cfg` has a fourth); two stops make "the next stop" | `NoStaleCommand`: a command is served in the stop its request saw; `StopShownIsReal`: a stop the client sees is one it can use; `LaunchComesFirst`, `NothingAfterExit`: events against responses; `LifecycleSpec`: refinement of `DebuggeeLifecycle`; `EveryRequestAnswered`, `TerminateEndsVm`, `DetachedRunsOn` (of the end of the session; with one launch, no second one replaces it), `ExitIsReported` under fairness |
| `browser` (`BrowserSession.cfg`) | 2 evaluations, 2 requests or pauses of each kind, 2 notifications, 2 items of a script. The second evaluation meets what the first left, the second request meets an answer to the first | `EvaluationLeavesNothing`, `LoopAgreesWithCore`, `StopsAreCurrent`; `HandleSpec`: refinement of `SessionHandle` with its fairness, so a requested disposal happens; `AbortSettles` |
| `turns` (`ReplTurns.cfg`) | REPL and script run. No counters: the state space is finite as it is, and any number of turns and signals is covered | `PromptIsClean`: an interrupt stays in its turn; `NoPartialResult`: what was stopped is not reported as finished; `KilledOnlyBySecond`: the signal thread decides to kill only when the request before is unanswered, and the exit, which may come later, follows such a decision |
| `calls` (`VmCalls.cfg`) | depth 2, 2 modules, 1 region per activation, composed functions, interruption, both modes, fair. An importer imported, a builtin in a builtin, the call that exceeds the limit under each | `StacksMatch`, `RegionsMatch`, `UnpacksMatch`, `EndsClean`, `Refines`: errors, returns and imports treat five stacks as one; `HaltEnds`: Ctrl-C ends every evaluation. With one region per activation none is nested in another: nested regions and several codes are in `VmCalls_regions.cfg` and, for any number, in `RegionsTheorem` and `UnpacksTheorem` |
| `ide` (`EvalQueue.cfg`) | a REPL view and a plot view, 4 evaluations, 2 changes of controls. Two views contend for the queue; a third and fourth job meet one that was stopped while queued and one that was superseded while it ran | `QueueSpec`: refinement of `JobQueue`; `ShownIsTrue`, `SessionIsOwn`, `UpdateNotLost`; `StopSettles` under fairness |
| `stepping` (`DebugStepping.cfg`) | one function and the main chunk, 3 instructions each in 2 statements, 3 frames, one tail call, one breakpoint at a time, both hosts, nested callbacks. Three frames give a stop both a caller and a callee; a statement of two instructions distinguishes the granularities | `StepsStayOut`: steps over and out stop in nothing the frame called; `BreakpointsHold`: a breakpoint stops exactly once each time; `StepsAreTaken`: no step runs past the place where it is to end, unless a stop was swallowed on the way; `LinesAdvance`: a step by lines ends on another line or activation |
| `lineedit` (`LineEditor.cfg`) | 6 commands, lines of 3 characters, undo log of 6 changes, 2 slots. Merging needs two insertions, a group two changes, a full ring three kills | `LogAgrees`: the log undone gives the empty line; `UndoIsWhole`: one undo takes back a group begun at level 0; `YankPopFits`; `KillsComeBack` |
| `load` (`LoadGraph.cfg`) | 2 files, one with two names, one embedded script, 3 items per script, 2 crashes. A cycle through either name, and a second crash that must replace the first | `LoadingIsOpen`: a file is marked exactly while an evaluation of it is open; `PostmortemIsTheErrors`: the crash kept is that of the error shown |
| `lowering` (`Lowering.cfg`) | every construct around every other, and around some pairs, 12,000 programs as functions, scripts or modules; all tapes of three outcomes; 1,000 instructions, more than any of them executes | `MeaningKept`, `HeightsAgree` after each pass |
| `calls_halt`, `lowering_fuse`, `lowering_counter` | smallest in which the case happens | violated: see the findings |

`CHECK_DEADLOCK FALSE`, where it stands: a client may stop asking, a process may
exit, a script may panic, compilation ends, and a bound ends the behaviour.
`LoadGraph` has no such end and is checked for deadlock.

`Refines` and `ControlStack` say nothing of the order in which contexts are left
once an evaluation is stopped by Ctrl-C or `cliargs`; `EndsClean`, `HaltEnds` and
the finding `calls_halt` are about that.

### Fairness

* `dap`: weak fairness of the adapter's step, of taking and of writing an
  event, and of each VM thread. The operating system schedules every thread, and
  the two waits of the adapter have a deadline (`WaitTimesOut`, `ReplyTimesOut`).
  Nothing is assumed of the client, and a script may run for ever.
* `browser`: weak fairness of the evaluation loop (continuations and host tasks
  are run by the browser) and of the return of a synchronous core method. A
  promise the user owns may never settle.
* `calls`: weak fairness of the interpreter; strong fairness of the return
  of a builtin, since it calls its callbacks for the elements of one value, which
  are finitely many, and so cannot for ever start another one.
* `ide`: weak fairness of the event loop, which runs every promise reaction and
  lets a task that gave way resume. Nothing makes a task end that was not
  stopped, nor a user answer.

The other runs check safety only.

### Findings

Each is a run TLC must find violated.

1. `calls_halt`: an initializer that Ctrl-C or `cliargs` stops is cached as
   loaded, with whatever was on its stack as the export (`vm/call.rs:417`).
2. `lowering_fuse`: fusion asks whether a `try` region ends inside a pair, not
   whether a jump lands there (`compile/fuse.rs:207`). A conditional whose false
   branch ends in a constant, used as a statement, leaves the value of its true
   branch on the stack; one whose false branch ends in a comparison, used as a
   condition, takes the true branch for granted.
3. `lowering_counter`: the first `N` loop of a function without a `_n` of its own
   leaves the answer to "is there one outside" on the stack
   (`compile.rs:2898-2900`): in `{(x;N[1;f[]];f[])}` the list begins with `F`.

### Configurations to run by hand

`tlc -config <file> <module>`; these are not among the runs above, because they
repeat one at another size or show a smaller disagreement.

| Configuration | Module | Result |
|---|---|---|
| `DapSession_relaunch.cfg` | `DapSession` | passes: commands and event order when the VM of an earlier launch is still there |
| `DapSession_long.cfg` | `DapSession` | passes: four requests, three million states |
| `VmCalls_regions.cfg` | `VmCalls` | passes: two regions nest in both orders, a tail call changes the code |
| `BrowserSession_abort.cfg` | `BrowserSession` | violated: the README of `wq-wasm` says aborting leaves the session ready for another evaluation; when a `cliargs` halt has ended the core's evaluation and the abort arrives during the debugger notification that follows (`browser.js:356-360`), the core has nothing to cancel (`wq-wasm/src/lib.rs:737`) and the halt stays set |
| `ReplTurns_halt.cfg` | `ReplTurns` | violated: the REPL never takes the status of a `cliargs` halt, so the lines after it stop before their first instruction until `\reset` (`repl.rs:844`, `vm.rs:375`); `exec.rs:44` takes it |
| `VmCalls_nested.cfg` | `VmCalls` | violated: in a cooperative evaluation a composed function whose operand reads a line runs into `unreachable!("nested interpreter requested cooperative input")` (`vanilla.rs:129`) |
| `VmCalls_callback.cfg` | `VmCalls` | violated: in a cooperative evaluation, the error of a callback of `argparse` that is not a user function is raised (`call.rs:906`); everywhere else it becomes a value |
| `LineEditor_end.cfg` | `MCLineEditor` | violated: after a truncation inside a group, `end()` reports a change that there was not |
| `DebugStepping_swallowed.cfg` | `MCDebugStepping` | violated: under a cooperative host a stop in a callback that a builtin runs atomically is continued at once and clears the mode (`vm/debug.rs:60-65`), so that the step under way never ends; the book (`10-wqdb.md:41-48`) knows no exception |
| `Rewriting.cfg` | `MCRewriting` | passes: `FusionImplements` and `TailsImplement` for some thirty small functions; both are proved for any code (section 4) |
| `Lowering_constloop.cfg` | `MCLowering` | violated: a loop whose body is a constant yields the constant even if it never ran; the book says `()` |
| `Lowering_operand.cfg` | `MCLowering` | violated: `@b` or `@c` inside an operand leaves the other operands on the stack |
| `Lowering_owned.cfg` | `MCLowering` | violated: an owned constant in the body of a script's `@t` that leaves it by `@b` is loaded twice; the graph of `owned_const.rs:63` has no edge for errors |
| `Lowering_tryloop.cfg` | `MCLowering` | violated: an error that leaves an inner `N` loop inside `@t` leaves the inner `_n` to the outer body |
| `Lowering_probe.cfg` | `MCLowering` | violated: a bare `@p` that is not the last statement leaves no value, and the `Pop` of its statement takes one of the expression around it |

## 4. What is proved

All theorems are for every value of the constants, under the assumptions
`MaxLaunchAssumption`, `DapAssumption` (bounds are natural numbers, the kinds of
requests are kinds), `HostsAssumption`, `LoadAssumption` (canonical names are
their own canonical names), and `ViewsAssumption` and `BoundsAssumption` of
`EvalQueue`, `BoundsAssumption` of `BrowserSession` (a view is of one kind,
bounds are natural numbers), and `VmCallsAssumption` (the depth and the number of
regions are natural numbers, no module is `NoModule`, the switches are Booleans;
which functions and modules there are is left open), and `SteppingAssumption` of
`DebugStepping` (bounds are natural numbers, statements and breakpoints are places
in the program, the two marks for "no location" are none; functions, lines and
statements are any), and `LineEditorAssumption` (the newline is a mark, no letter
is one, the entry and the completion are not empty, bounds are positive; which
characters there are is left open).

* `DapSession_proofs`. `IInv == TypeOK /\ ChannelInv` is inductive. The safety
  property, that no command is served in a later stop (`NoStaleCommandTheorem`),
  is not: it speaks of commands in the channel, and the danger is the adapter
  between looking at the status and sending. `AdapterInv` therefore says what
  holds at each of the adapter's control points (while it is `asking`,
  `beginning` or `sending`, the stop it saw is the VM's present stop, and the VM
  is in that pause), and `PauseInv` what the status, the VM's control point and
  its channel have to do with one another (a status of Paused means the thread is
  inside the pause and no resume is queued; a resume is the last command of its
  stop). Steps are proved one action each, most through two lemmas:
  `OutsideStep` and `InsideStep`, for a VM step outside and inside a pause.
  On the same invariant rest three results about the status of a debuggee.
  `StatusStep` lists the five ways a step can change a status. `DoomTheorem` (a
  terminated VM stays doomed), `ResumeTheorem` (only the client's resume ends a
  pause) and the refinement `LifecycleTheorem` (every step of the three threads
  is a move of `DebuggeeLifecycle` or a stutter; the end of the process is
  `Kill`) are read off it, the last with `StartedInv`: a VM inside a pause has
  left Starting.
  Its second part is about what the client sees. `StandingInv`: a stop the client
  has neither resumed nor left is one the VM thread is still in, which gives
  `StopTheorem`. `LaunchInv`: a VM that runs was announced, and the events queued
  or held by the forwarder are of VMs that run, which gives `LaunchTheorem`.
  `ExitInv` relates `wire`, what the forwarder holds and `evq`: an exit in one
  leaves nothing but `terminated` of its VM in those behind; with `QueryInv` (an
  answered query is about a VM still paused) it gives `AfterExitTheorem`, although
  responses and events are written by two threads.
* `ReplTurns_proofs`. `IInv` joins to `TypeOK` what an armed guard, a raised
  flag, a halt and an exit code say about one another (`GuardInv`, `FlagInv`,
  `StopInv`, `CodeInv`), and gives `PromptTheorem`, `ReportTheorem`,
  `ExitTheorem` (a script's exit code is that of what ended it) and `KillTheorem`, in which the
  thread's decision and the exit are two steps.
* `Scripts_proofs`, about `LoadGraph`. `LoadingTheorem`: for any files, any names of them and any
  depth of loads, the marks are those of the open evaluations. `CrashInv` (the
  crash on record is that of the error on its way, and a script that runs has
  none) is what makes `PostmortemTheorem` inductive.
* `EvalQueue_proofs`. `MoveLemma` lists what a step can do to the evaluations, the
  chain and the controllers. `ChainInv` (the chain holds what has not settled, in
  order, and only its first can have begun) gives the refinement of `JobQueue`,
  `QueueTheorem`. `OwnInv` (what has begun, or may still, is the run of its view)
  is what `ShownTheorem` and `SessionTheorem` need; `UpdateTheorem` needs besides
  that the output of a plot is never of later controls than its run
  (`Follows`), so that a run that settles cannot replace a newer output.
* `BrowserSession_proofs`. A section of JavaScript is one action, so the invariant
  has to say, for each await the loop can be at, what the core is in the middle
  of (`CoreOK`: before a slice nothing is pending but perhaps the error of a read;
  at an input await exactly the request asked for; during a notification what the
  slice before it ended with) and what the facade's fields say of the calls on
  the stack (`HostOK`). One lemma per operator of the loop (`FlushLemma`,
  `FinishLemma`, `AwaitLemma`, `GoOnLemma`, `PollLemma` and what is made of them)
  carries it over a whole section. `NothingLeftTheorem`, `AgreementTheorem`,
  `StopsTheorem` and `DisposalTheorem` are read off it. `HandleTheorem` is the
  refinement of `SessionHandle` without its fairness: the invariant already fixes
  the phase of the handle, so what is left to show is that only `free()` asks for
  disposal and that nothing happens afterwards.
* `VmCalls_proofs`, for any depth of calls, nesting of regions and set of
  modules. How the stacks match is not inductive as it stands: a step also relies
  on what is *not* on them, and on lengths remembered earlier. `IInv` joins to
  `TypeOK` four parts, which are proved one after the other:
  * `ModulesInv`: `ModulesMatch`, and the root initializes no module.
  * `FlowInv`, about control. `NativesInOrder`: nested interpreters stop at
    increasing depths. `CallbackPlain`: what a builtin calls back initializes no
    module, which is why `capture_builtin_callback_error` is right not to call
    `fail_module`. `Pending`: an input, a host error and an error never wait
    together. `FramesInv`, while nothing has stopped the evaluation: the frames
    are at most one per activation, in order; one waits for a call exactly if
    something other than a builtin in Rust runs above it; an error has ended the
    frame of the activation it was raised in; a read belongs to the frame, if
    any, of the activation that runs.
  * `TriesInv`: what `RegionsMatch` says of a live evaluation.
  * `SavesInv`, if no `@b` or `@c` leaves a destructuring assignment: besides
    what `UnpacksMatch` says, the length that each try frame and each activation
    remembers separates the values saved around it from those saved inside it.
    So truncating to a remembered length drops exactly what was left.

  A step is first shown to be one of a few things a step can do to the stacks
  (`StackStep`: enter an activation, leave it, move within it, open or close a
  region, end, reset), and `ModulesInv`, `TriesInv` and `SavesInv` are carried
  over those; `FlowStepLemma` goes through the actions. `StacksTheorem`,
  `RegionsTheorem`, `UnpacksTheorem` and `TypeTheorem` are read off `IInv`.
  `EndsCleanTheorem` needs besides that only `Return`, `HaltLeave`,
  `FailEvaluation` and `Cancel` end an evaluation (`EndingLemma`), and that
  nothing is left above the root when the interpreter is back in it
  (`BottomLemma`). `UnpacksTheorem` assumes `~Escapes`, as its run does: with
  escapes it is false (see "Not modelled").

  `RefinementTheorem` is that the five stacks are one: every step maps to a step
  of `ControlStack` or a stutter. The mapping (`OneStack`) joins one `Segment` per
  activation: its call, a context per try frame of its own, one per builtin it has
  called. `UnderLemma` is the only place where the definition of `FlattenSeq` is
  used: what lies under the n-th activation is what lies under the one before it
  and that one's segment. From it follow the ways the joined stack changes
  (`SameStackLemma`, `PushStackLemma`, `TopStackLemma`, `PopStackLemma`,
  `PopTwoStackLemma`), and from what an action does to each of the five stacks
  (`FrameOpensLemma`, `TryClosesLemma`, `NativeClosesLemma` and their like, which
  count entries by cardinality) follows which of these it is. There is one lemma
  for each step of `ControlStack` (`OpenStep`, `LeaveStep`, `UnwindStep`,
  `HandleStep`, `ThrowStep`, `RestartStep`), and the `Made` lemmas go through the
  actions. The mapping needs two facts more than `IInv` (`RInv`): what a builtin
  written in Rust calls initializes no module (`NativePlain`), so an error
  that such a builtin makes a value of has not to settle one; and an evaluation that
  has ended has left no call and no error (`RestInv`). That the builtin told of an
  error is the one that made the call is `CallerLemma`: a resumable builtin and
  one in Rust cannot both have called the same activation.
* `DebugStepping_proofs`, for any program and any depth of calls and tail calls.
  The code compares depths; the properties speak of the call tree (`kin`).
  `DepthInv` joins the two: while a step is under way, the depth of its frame is
  its base, the frames that called it are less deep and those it called deeper.
  That this survives a step rests on lemmas about `DepthAt`, the depth of the
  n-th frame: it depends on the tail calls up to that frame only
  (`DepthSameLemma`, so whatever is unwound leaves the depths below alone), grows
  from frame to frame (`DepthGrowsLemma`), and a call and a tail call each add one
  (`DepthCallLemma`, `DepthTailLemma`). `LastInv` (the last stop was in the frame of
  the request, although breakpoints met on the way move it) is what `LinesTheorem`
  needs, `CheckInv` (an instruction about to be checked has no mark and no stop
  behind it, or both) is what `BreakpointsTheorem` needs, and `PassedInv` carries
  what the check found out to the moment the instruction executes, for
  `TakenTheorem`. `PassedInv` speaks of the mode, which is what the code compares, and
  the theorem of the request: `AskedInv` says that the two are the same until a stop
  is swallowed (`lost`), and it is false without that condition.

* `LineEditor_proofs`, for any characters, entry, completion and capacity of the
  ring. The bounds play no part in it.
  That the log agrees with the line cannot be carried over a step as it stands:
  it is a statement about undoing, and a step changes what undoing starts from.
  `Sound` therefore says that there is a history of texts (`Traced`): the empty
  line, then what the line was after each change of the log, each change leading
  from one text to the next (`Leads`: both texts are the same before and after
  the place of the change). A merged change gets one step of the history for two
  edits of the line; that it still leads from its text to the line is proved for
  letters typed on (`LogCharLemma`), for letters deleted at one place and
  before it (`MergedAfterLemma`, `MergedBeforeLemma`, `LogDeleteLemma`) and for
  replacements (`LogReplaceLemma`). `Closed` and `LineAfterUndo` are recursive
  functions, about which induction is done with the set of the numbers that fail
  (`LeastLemma`, `InductionLemma`). `AgreesLemma` reads `LogTheorem` off the
  history.
  For `UndoTheorem` a group that is open is described by `Opened` (the history up
  to its Begin ends with the text the command found, and nothing after it is a
  Begin or an End); `TakenGroupLemma` shows that closing it and undoing once takes
  back exactly these changes. The ring needs nothing besides its type
  (`RingType`): `YankTheorem` and `KillsTheorem` are inductive with it, by
  `YankBackLemma` and `KillBackLemma` (what was cut out of a text
  comes back with what had been cut before or after it).

* `Scripts_proofs`, about `Rewriting`, for any codes, any outcomes of calls and any
  values of the variables.
  * `FusionTheorem` is that an execution of a code implements one of the fused
    code, if every code is `WellFormed` and does not jump into a pair
    (`~JumpsIntoPair`). The second is what `fuse_once` does not ask for, and the
    finding `lowering_fuse` shows that it is needed. `FusionInv` is the inductive
    invariant: the machine is in its code, every open region is one of the code
    that has not been left but forwards (`InRegions`), and no region ends between
    the halves of a pair. `InRegions` is needed because moving addresses can join
    two of them: a machine that is not at the end of its region must not be at
    it after the pass (`BoundaryLemma`), and it is not, since an instruction that
    is kept lies between.
    That `Moves` keeps the order of addresses is counting (`BeforeLemma`,
    `MovesLemma`). An instruction and its copy do the same (`OperateLemma`): two
    machines that differ in addresses only (`Parallel`) stay so through every
    primitive of the interpreter, and what they do leads to the next instruction,
    to the target of a jump or out of a region (`Lands`). `TurnLemma` and
    `RunsLemma` carry the invariant; `KeptLemma` and `RemovedLemma` are the two
    cases of `FusionStep`, which says that a turn of the code is a turn of the fused
    code or none.
  * `TailsTheorem` needs `WellFormed` only. `TailsInv` adds that whatever came back from
    what would have been a tail call is at a `Return` outside every region; that
    the regions are over is where the pass asks `InTry` and `OpenLemma` shows that a
    machine with an open region is inside one of the code.
  * `TailsShapeTheorem`: code with tail calls is well-formed if the code was, and has no
    new jump into a pair, so the passes can be composed in the order of
    `session.rs:1267-1278`. That a pass of fusion leaves well-formed code for the
    next one is not so for every code: where it removes all that lies between a
    `JumpIfFalse` and its target, the next pass would make the branch a `Pop`, which
    does not fail on a value that is no truth value. Compiled code has something
    there that is kept; `lowering` checks `WellFormed` for its programs after every
    pass.

Only model-checked: liveness, which is out of the prover's reach, and the two
invariants of `Lowering`, `MeaningKept` and `HeightsAgree`: the compiler, the
propagation of constants and `Meaning` are recursive over programs, about which
nothing can be proved here. What is proved of the passes is that those two which
are not (tail calls and fusion) keep the execution of any code; that the code
executes as the program means is what the run shows.

Some invariants are defined and in no run: they are types (`TypeOK`), are proved
(`ChannelInv`, `DoomSticks`, `OnlyClientResumes`, `ExitCodeIsTrue`,
`ReportIsTrue`, `DisposalIsSafe`), or follow from one that is checked (`FreeCompletes` from `HandleSpec`, `ModulesMatch` and `FramesMatch` from
`StacksMatch`).

## 5. What is not modelled

* **Data.** Values, arithmetic, formatting, what builtins compute, and parsing:
  sequential functions of unbounded data.
* **Most of the language in `Lowering`.** Closures and what they capture,
  indexing, destructuring, string interpolation, named arguments, the folding of
  constant expressions, debug spans. `cp.rs` merges what it knows of globals with
  `==`, which holds of `0.0` and `-0.0` and of empty lists of different kinds;
  values are too coarse here to see that.
* **`@b` and `@c` in an index of a destructuring target** (`compile.rs:1677`). The
  jump passes over `EndUnpack`. `VmCalls` has it under `Escapes`; no document says
  what such a program should do, so the checked programs do not contain it.
* **Pauses in nested interpreters**, and the debugger under `VmCalls`: a pause
  suspends the loop as a read does, and is folded into it.
* **Failing writes** to a DAP client, a wasm trap, the end of the process by
  other signals.
* **The inline call cache.** It identifies a callee by address (`call.rs:223`);
  whether an address is reused is a question about the allocator.
* **In the line editor**, what the REPL does not bind: Vi keys, overwriting,
  indentation, searches of history by prefix; and the boundaries of words, the
  case of characters, layout and terminals. The REPL neither loads nor saves the
  history file, so the appending of several processes to one (`history.rs:699`) is
  not part of it.
* **In the debugger**, mutation trackers and the resolution of source lines to
  locations.
* **In the IDE**, editors, pages and the debugger panel.
* The debugger shell, the language server, documentation, display, tests and
  packaging keep no state across operations that other parts depend on.

## 6. Plan

In order of what can go wrong:

1. `Lowering`: captured variables, indexing and destructuring targets, for which
   `@b` and `@c` out of an index is the case to settle.
2. `LineEditor`: changes of case and transposed words, with word boundaries given
   by a relation on letters and marks.
3. `HistoryFile` (`wq-rl/src/history.rs`): several processes and one file.
