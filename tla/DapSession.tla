----------------------------- MODULE DapSession -----------------------------
(***************************************************************************)
(* `wq dap`: the adapter thread (wq-cli/src/dap.rs), one VM thread per     *)
(* launch (wq-cli/src/dap/thread.rs) and the thread that forwards VM       *)
(* events to the client.  They share a VmStatus per launch, a command      *)
(* channel per launch, one event channel, and the locked protocol output.  *)
(*                                                                         *)
(* A step is one critical section, one channel operation or one message    *)
(* written.  Requests are abstracted to what they do to the threads:       *)
(*   query       SetBreakpoints, StackTrace, Scopes, Variables             *)
(*   resume      Continue, Next, StepIn, StepOut                           *)
(*   plain       Threads, ConfigurationDone, and the unsupported ones      *)
(* The script is any sequence of instructions, pauses, and one end.        *)
(***************************************************************************)
EXTENDS VmStatus, Sequences

CONSTANTS
  MaxReq,       \* bound: requests the client sends
  ClientKinds,  \* bound: the kinds of request it chooses from
  MaxStops,     \* bound: times one VM stops
  MayPanic      \* whether a VM thread can die in a Rust panic

Kinds == {"initialize", "launch", "query", "resume", "plain",
          "terminate", "disconnect", "detach"}

ASSUME DapAssumption ==
  /\ MaxReq \in Nat \ {0}
  /\ ClientKinds \subseteq Kinds
  /\ MaxStops \in Nat \ {0}
  /\ MayPanic \in BOOLEAN

VARIABLES
  \* the adapter thread
  apc,          \* its control point
  req,          \* the request it handles: its number and kind, and
                \* (history) the stop wait_until_paused saw for it
  cur,          \* vm_status: the latest launch, 0 before the first
  attached,     \* attached[v]: vm_cmd_tx holds the sender of v's channel
  result,       \* whether the response will be a success
  \* the VM threads
  vpc,          \* their control points
  halted,       \* Vm.halt_reason is set
  postmortem,   \* the pause in progress is dap_on_exception's
  serving,      \* the command taken from the channel
  stops,        \* how many times the VM has paused
  resumed,      \* history: the number of the stop begin_resume last ended
  \* channels and the protocol output
  cmds,         \* the command channels
  reply,        \* the reply channel of the request: the answer is in it
  evq,          \* the event channel
  fwd,          \* the event the forwarder has taken, <<>> if none
  wire          \* history: the messages written to the client

adapterVars == <<apc, req, cur, attached, result>>
vmVars == <<vpc, halted, postmortem, serving, stops>>
chanVars == <<cmds, reply, evq, fwd, wire>>
vars == <<statusVars, adapterVars, vmVars, resumed, chanVars>>

AdapterPCs == {"idle", "greeting", "launching", "launchResponding",
               "announcing", "spawning", "waiting", "refusing", "asking",
               "receiving", "beginning", "sending", "terminating",
               "dropping", "responding", "quit"}

VmPCs == {"none", "boot", "unreadable", "poll", "run", "pausing", "announce", "listen",
          "serve", "resuming", "failed", "exit", "sendExited",
          "sendTerminated", "gone", "panicked"}

Commands == [id : 1..MaxReq, kind : {"query", "resume"}, stop : 1..MaxStops]
NoCommand == [id |-> 0, kind |-> "none", stop |-> 0]

Response(ok) == [type |-> "response", id |-> req.id, kind |-> req.kind,
                 ok |-> ok, vm |-> cur]
Event(e, v, n) == [type |-> e, vm |-> v, stop |-> n]

Init ==
  /\ StatusInit
  /\ apc = "idle"
  /\ req = [id |-> 0, kind |-> "plain", stop |-> 0]
  /\ cur = 0
  /\ attached = [v \in Vms |-> FALSE]
  /\ result = TRUE
  /\ vpc = [v \in Vms |-> "none"]
  /\ halted = [v \in Vms |-> FALSE]
  /\ postmortem = [v \in Vms |-> FALSE]
  /\ serving = [v \in Vms |-> NoCommand]
  /\ stops = [v \in Vms |-> 0]
  /\ resumed = [v \in Vms |-> 0]
  /\ cmds = [v \in Vms |-> <<>>]
  /\ reply = FALSE
  /\ evq = <<>>
  /\ fwd = <<>>
  /\ wire = <<>>

-----------------------------------------------------------------------------
(* The adapter thread *)

\* vm_cmd_tx is Some.
Connected == cur # 0 /\ attached[cur]

\* The receiver lives until run_vm returns or unwinds.
ReceiverAlive(v) == vpc[v] \notin {"gone", "panicked"}

AGoto(pc) == apc' = pc

\* poll_request returns the client's next request and the match begins.
ReadRequest(k) ==
  /\ apc = "idle"
  /\ req.id < MaxReq
  /\ req' = [id |-> req.id + 1, kind |-> k, stop |-> 0]
  /\ k = "launch" => cur < MaxLaunch
  /\ AGoto(CASE k = "launch" -> "launching"
             [] k \in {"query", "resume"} ->
                  IF Connected THEN "waiting" ELSE "responding"
             [] k = "terminate" ->
                  IF cur # 0 THEN "terminating" ELSE "responding"
             [] k = "disconnect" ->
                  IF cur # 0 THEN "terminating" ELSE "dropping"
             [] k = "detach" -> "dropping"
             [] OTHER -> "responding")
  /\ result' = CASE k \in {"query", "resume"} -> FALSE
                 [] k = "terminate" -> cur # 0
                 [] OTHER -> TRUE
  /\ reply' = FALSE
  /\ UNCHANGED <<statusVars, cur, attached, vmVars, resumed,
                 cmds, evq, fwd, wire>>

\* End of input: run_dap returns and the process ends with its threads.
EndOfInput ==
  /\ apc = "idle"
  /\ AGoto("quit")
  /\ UNCHANGED <<statusVars, req, cur, attached, result, vmVars, resumed,
                 chanVars>>

\* Mutant: the VM thread is spawned before the response is written.
LaunchReplaceAndSpawn ==
  /\ apc = "launching"
  /\ cur' = cur + 1
  /\ attached' = [v \in Vms |-> v = cur + 1]
  /\ vpc' = [vpc EXCEPT ![cur + 1] = "boot"]
  /\ AGoto("launchResponding")
  /\ UNCHANGED <<statusVars, req, result, halted, postmortem, serving, stops,
                 resumed, chanVars>>

\* A fresh channel and status replace the earlier ones, whose sender is
\* dropped.
LaunchReplace ==
  /\ apc = "launching"
  /\ cur' = cur + 1
  /\ attached' = [v \in Vms |-> v = cur + 1]
  /\ AGoto("launchResponding")
  /\ UNCHANGED <<statusVars, req, result, vmVars, resumed, chanVars>>

LaunchRespond ==
  /\ apc = "launchResponding"
  /\ wire' = Append(wire, Response(TRUE))
  /\ AGoto("announcing")
  /\ UNCHANGED <<statusVars, req, cur, attached, result, vmVars, resumed,
                 cmds, reply, evq, fwd>>

\* The Process event; the output lock it takes is held until the thread is
\* spawned.
LaunchAnnounce ==
  /\ apc = "announcing"
  /\ wire' = Append(wire, Event("process", cur, 0))
  /\ AGoto("spawning")
  /\ UNCHANGED <<statusVars, req, cur, attached, result, vmVars, resumed,
                 cmds, reply, evq, fwd>>

LaunchSpawn ==
  /\ apc = "spawning"
  /\ vpc' = [vpc EXCEPT ![cur] = "boot"]
  /\ AGoto("idle")
  /\ UNCHANGED <<statusVars, req, cur, attached, result, halted, postmortem,
                 serving, stops, resumed, chanVars>>

OutputLocked == apc = "spawning"

\* wait_until_paused, then the send or begin_resume.
WaitUntilPaused ==
  /\ apc = "waiting"
  /\ \/ /\ SeesPause(cur)
        /\ req' = [req EXCEPT !.stop = stops[cur]]
        /\ AGoto(IF req.kind = "query" THEN "asking" ELSE "beginning")
     \/ GivesUp(cur) /\ AGoto("refusing") /\ UNCHANGED req
  /\ UNCHANGED <<statusVars, cur, attached, result, vmVars, resumed,
                 chanVars>>

\* Mutant: the wait has no deadline.
WaitForEver == FALSE

WaitTimesOut ==
  /\ apc = "waiting"
  /\ state[cur] = "Starting"
  /\ AGoto("refusing")
  /\ UNCHANGED <<statusVars, req, cur, attached, result, vmVars, resumed,
                 chanVars>>

\* vm_unavailable_message(status.state()): the state is read again to word
\* the error response.
Refuse ==
  /\ apc = "refusing"
  /\ AGoto("responding")
  /\ UNCHANGED <<statusVars, req, cur, attached, result, vmVars, resumed,
                 chanVars>>

Command == req

AskVm ==
  /\ apc = "asking"
  /\ IF ReceiverAlive(cur)
     THEN /\ cmds' = [cmds EXCEPT ![cur] = Append(@, Command)]
          /\ AGoto("receiving")
     ELSE UNCHANGED cmds /\ AGoto("responding")
  /\ UNCHANGED <<statusVars, req, cur, attached, result, vmVars, resumed,
                 reply, evq, fwd, wire>>

ReceiveReply ==
  /\ apc = "receiving"
  /\ reply
  /\ result' = TRUE
  /\ AGoto("responding")
  /\ UNCHANGED <<statusVars, req, cur, attached, vmVars, resumed, chanVars>>

\* Two seconds without a reply, or the VM dropped the reply channel.
ReplyTimesOut ==
  /\ apc = "receiving"
  /\ ~ reply
  /\ AGoto("responding")
  /\ UNCHANGED <<statusVars, req, cur, attached, result, vmVars, resumed,
                 chanVars>>

BeginResumeOf ==
  /\ apc = "beginning"
  /\ IF state[cur] = "Paused"
     THEN /\ BeginResume(cur)
          /\ resumed' = [resumed EXCEPT ![cur] = stops[cur]]
          /\ AGoto("sending")
     ELSE AGoto("refusing") /\ UNCHANGED <<statusVars, resumed>>
  /\ UNCHANGED <<req, cur, attached, result, vmVars, chanVars>>

\* A failed send means the VM thread is gone.
SendResume ==
  /\ apc = "sending"
  /\ IF ReceiverAlive(cur)
     THEN /\ cmds' = [cmds EXCEPT ![cur] = Append(@, Command)]
          /\ result' = TRUE
          /\ UNCHANGED statusVars
     ELSE /\ SetState(cur, "Exited")
          /\ UNCHANGED <<cmds, result>>
  /\ AGoto("responding")
  /\ UNCHANGED <<req, cur, attached, vmVars, resumed, reply, evq, fwd, wire>>

TerminateVm ==
  /\ apc = "terminating"
  /\ RequestTerminate(cur)
  /\ AGoto("dropping")
  /\ UNCHANGED <<req, cur, attached, result, vmVars, resumed, chanVars>>

\* vm_cmd_tx.take()
DropSender ==
  /\ apc = "dropping"
  /\ attached' = [v \in Vms |-> FALSE]
  /\ AGoto("responding")
  /\ UNCHANGED <<statusVars, req, cur, result, vmVars, resumed, chanVars>>

\* The process ends with run_dap, after a disconnect.
Respond ==
  /\ apc = "responding"
  /\ wire' = Append(wire, Response(result))
  /\ AGoto(IF req.kind \in {"disconnect", "detach"} THEN "quit"
           ELSE IF req.kind = "initialize" THEN "greeting" ELSE "idle")
  /\ UNCHANGED <<statusVars, req, cur, attached, result, vmVars, resumed,
                 cmds, reply, evq, fwd>>

\* The Initialized event follows the response to Initialize.
Greet ==
  /\ apc = "greeting"
  /\ wire' = Append(wire, Event("initialized", 0, 0))
  /\ AGoto("idle")
  /\ UNCHANGED <<statusVars, req, cur, attached, result, vmVars, resumed,
                 cmds, reply, evq, fwd>>

AdapterStep ==
  \/ LaunchReplace \/ LaunchRespond \/ LaunchAnnounce \/ LaunchSpawn
  \/ WaitUntilPaused \/ WaitTimesOut \/ Refuse
  \/ AskVm \/ ReceiveReply \/ ReplyTimesOut
  \/ BeginResumeOf \/ SendResume
  \/ TerminateVm \/ DropSender \/ Respond \/ Greet

-----------------------------------------------------------------------------
(* The event forwarder *)

ForwarderTake ==
  /\ apc # "quit"
  /\ fwd = <<>> /\ evq # <<>>
  /\ fwd' = <<Head(evq)>>
  /\ evq' = Tail(evq)
  /\ UNCHANGED <<statusVars, adapterVars, vmVars, resumed, cmds, reply, wire>>

ForwarderWrite ==
  /\ apc # "quit"
  /\ fwd # <<>> /\ ~ OutputLocked
  /\ wire' = wire \o fwd
  /\ fwd' = <<>>
  /\ UNCHANGED <<statusVars, adapterVars, vmVars, resumed, cmds, reply, evq>>

-----------------------------------------------------------------------------
(* The VM thread of launch v *)

At(v, pc) == apc # "quit" /\ vpc[v] = pc
Goto(v, pc) == vpc' = [vpc EXCEPT ![v] = pc]
Emit(v, e) == evq' = Append(evq, Event(e, v, stops[v]))

\* The handle is installed before the script is read.
VmBoot(v) ==
  /\ At(v, "boot")
  /\ InstallInterrupt(v)
  /\ Goto(v, "poll") \/ Goto(v, "unreadable")
  /\ UNCHANGED <<adapterVars, halted, postmortem, serving, stops, resumed,
                 chanVars>>

\* A script that cannot be read or parsed fails without having run, so there
\* is no crash to inspect.
VmUnreadable(v) ==
  /\ At(v, "unreadable")
  /\ Emit(v, "output")
  /\ Goto(v, "exit")
  /\ UNCHANGED <<statusVars, adapterVars, halted, postmortem, serving, stops,
                 resumed, cmds, reply, fwd, wire>>

\* Vm::poll_interrupt, before every instruction.
VmPoll(v) ==
  /\ At(v, "poll")
  /\ halted' = [halted EXCEPT ![v] = @ \/ requested[v]]
  /\ requested' = [requested EXCEPT ![v] = FALSE]
  /\ Goto(v, "run")
  /\ UNCHANGED <<state, handle, adapterVars, postmortem, serving, stops,
                 resumed, chanVars>>

\* The instruction after the poll: it runs, or the debugger pauses before it.
VmInstruction(v) ==
  /\ At(v, "run") /\ ~ halted[v]
  /\ \/ Goto(v, "poll")
     \/ stops[v] < MaxStops /\ Goto(v, "pausing")
     \/ Goto(v, "failed")
  /\ UNCHANGED <<statusVars, adapterVars, halted, postmortem, serving, stops,
                 resumed, chanVars>>

\* The last instruction, or the interpreter loop leaving a halted VM.
VmEnd(v) ==
  /\ At(v, "run")
  /\ Goto(v, "exit")
  /\ UNCHANGED <<statusVars, adapterVars, halted, postmortem, serving, stops,
                 resumed, chanVars>>

\* Mutant: the exit is reported before the failure is inspected.
VmFailedReportsExit(v) ==
  /\ At(v, "failed")
  /\ Emit(v, "exited")
  /\ stops[v] < MaxStops
  /\ Goto(v, "pausing")
  /\ postmortem' = [postmortem EXCEPT ![v] = TRUE]
  /\ UNCHANGED <<statusVars, adapterVars, halted, serving, stops, resumed,
                 cmds, reply, fwd, wire>>

\* load_script failed.  The diagnostic is sent, and a failure that left a
\* crash snapshot is inspected before the thread ends.
VmFailed(v) ==
  /\ At(v, "failed")
  /\ Emit(v, "output")
  /\ \/ /\ stops[v] < MaxStops
        /\ Goto(v, "pausing")
        /\ postmortem' = [postmortem EXCEPT ![v] = TRUE]
     \/ Goto(v, "exit") /\ UNCHANGED postmortem
  /\ UNCHANGED <<statusVars, adapterVars, halted, serving, stops, resumed,
                 cmds, reply, fwd, wire>>

AfterPause(v) == IF postmortem[v] THEN "exit" ELSE "poll"

\* mark_paused at the head of dap_on_pause and dap_on_exception.
VmPause(v) ==
  /\ At(v, "pausing")
  /\ IF Doomed(v)
     THEN /\ Goto(v, AfterPause(v))
          /\ UNCHANGED <<statusVars, stops>>
     ELSE /\ MarkPaused(v)
          /\ stops' = [stops EXCEPT ![v] = @ + 1]
          /\ Goto(v, "announce")
  /\ UNCHANGED <<adapterVars, halted, postmortem, serving, resumed, chanVars>>

\* The breakpoints resolved since the last pause, then the Stopped event.
VmAnnounce(v) ==
  /\ At(v, "announce")
  /\ \/ Emit(v, "stopped")
     \/ /\ ~ postmortem[v]
        /\ evq' = evq \o <<Event("breakpoint", v, stops[v]),
                           Event("stopped", v, stops[v])>>
  /\ Goto(v, "listen")
  /\ UNCHANGED <<statusVars, adapterVars, halted, postmortem, serving, stops,
                 resumed, cmds, reply, fwd, wire>>

VmReceive(v) ==
  /\ At(v, "listen")
  /\ cmds[v] # <<>>
  /\ serving' = [serving EXCEPT ![v] = Head(cmds[v])]
  /\ cmds' = [cmds EXCEPT ![v] = Tail(@)]
  /\ Goto(v, IF Head(cmds[v]).kind = "resume" THEN "resuming" ELSE "serve")
  /\ UNCHANGED <<statusVars, adapterVars, halted, postmortem, stops, resumed,
                 reply, evq, fwd, wire>>

\* Mutant: a closed channel is received from again.
VmDetachedWaits(v) ==
  /\ At(v, "listen")
  /\ cmds[v] = <<>> /\ ~ attached[v]
  /\ UNCHANGED vars

\* recv() fails once the sender is dropped and the channel is empty.
VmDetached(v) ==
  /\ At(v, "listen")
  /\ cmds[v] = <<>> /\ ~ attached[v]
  /\ Goto(v, "resuming")
  /\ UNCHANGED <<statusVars, adapterVars, halted, postmortem, serving, stops,
                 resumed, chanVars>>

\* The answer goes to the reply channel of its own request, which is gone
\* when the adapter has stopped waiting for it.
VmServe(v) ==
  /\ At(v, "serve")
  /\ reply' = (reply \/ (apc = "receiving" /\ req.id = serving[v].id))
  /\ serving' = [serving EXCEPT ![v] = NoCommand]
  /\ Goto(v, "listen")
  /\ UNCHANGED <<statusVars, adapterVars, halted, postmortem, stops, resumed,
                 cmds, evq, fwd, wire>>

VmResume(v) ==
  /\ At(v, "resuming")
  /\ MarkRunning(v)
  /\ serving' = [serving EXCEPT ![v] = NoCommand]
  /\ Goto(v, AfterPause(v))
  /\ UNCHANGED <<adapterVars, halted, postmortem, stops, resumed, chanVars>>

VmExit(v) ==
  /\ At(v, "exit")
  /\ SetState(v, "Exited")
  /\ Goto(v, "sendExited")
  /\ UNCHANGED <<adapterVars, halted, postmortem, serving, stops, resumed,
                 chanVars>>

\* Mutant: only Terminated is sent.
VmSendExitedNot(v) ==
  /\ At(v, "sendExited")
  /\ Goto(v, "sendTerminated")
  /\ UNCHANGED <<statusVars, adapterVars, halted, postmortem, serving, stops,
                 resumed, chanVars>>

VmSendExited(v) ==
  /\ At(v, "sendExited")
  /\ Emit(v, "exited")
  /\ Goto(v, "sendTerminated")
  /\ UNCHANGED <<statusVars, adapterVars, halted, postmortem, serving, stops,
                 resumed, cmds, reply, fwd, wire>>

\* The receiver is dropped as run_vm returns, with any command left in it.
VmSendTerminated(v) ==
  /\ At(v, "sendTerminated")
  /\ Emit(v, "terminated")
  /\ Goto(v, "gone")
  /\ cmds' = [cmds EXCEPT ![v] = <<>>]
  /\ UNCHANGED <<statusVars, adapterVars, halted, postmortem, serving, stops,
                 resumed, reply, fwd, wire>>

\* A panic in an instruction or in the debugger unwinds run_vm, which catches
\* nothing: the status keeps its value and no event is sent.
VmPanic(v) ==
  /\ MayPanic
  /\ \/ At(v, "run") /\ ~ halted[v]
     \/ At(v, "serve")
  /\ Goto(v, "panicked")
  /\ cmds' = [cmds EXCEPT ![v] = <<>>]
  /\ serving' = [serving EXCEPT ![v] = NoCommand]
  /\ UNCHANGED <<statusVars, adapterVars, halted, postmortem, stops, resumed,
                 reply, evq, fwd, wire>>

VmStep(v) ==
  \/ VmBoot(v) \/ VmUnreadable(v)
  \/ VmPoll(v) \/ VmInstruction(v) \/ VmEnd(v) \/ VmFailed(v)
  \/ VmPause(v) \/ VmAnnounce(v) \/ VmReceive(v) \/ VmDetached(v)
  \/ VmServe(v) \/ VmResume(v)
  \/ VmExit(v) \/ VmSendExited(v) \/ VmSendTerminated(v)

Next ==
  \/ \E k \in ClientKinds : ReadRequest(k)
  \/ EndOfInput
  \/ AdapterStep
  \/ ForwarderTake \/ ForwarderWrite
  \/ \E v \in Vms : VmStep(v) \/ VmPanic(v)

\* Threads that can run do: the operating system schedules each of them, and
\* a timed wait ends.  Nothing obliges the client to send a request, an
\* instruction to be the last, or a VM to panic.
Fairness ==
  /\ WF_vars(AdapterStep)
  /\ WF_vars(ForwarderTake) /\ WF_vars(ForwarderWrite)
  /\ \A v \in Vms : WF_vars(VmStep(v))

Spec == Init /\ [][Next]_vars
FairSpec == Spec /\ Fairness

-----------------------------------------------------------------------------
(* Properties *)

Messages ==
  [type : {"response"}, id : 1..MaxReq, kind : Kinds, ok : BOOLEAN,
   vm : 0..MaxLaunch]
  \cup [type : {"initialized", "process", "output", "breakpoint", "stopped",
                "exited", "terminated"},
        vm : 0..MaxLaunch, stop : 0..MaxStops]

TypeOK ==
  /\ StatusTypeOK
  /\ apc \in AdapterPCs
  /\ req \in [id : 0..MaxReq, kind : Kinds, stop : 0..MaxStops]
  /\ cur \in 0..MaxLaunch
  /\ attached \in [Vms -> BOOLEAN]
  /\ result \in BOOLEAN
  /\ vpc \in [Vms -> VmPCs]
  /\ halted \in [Vms -> BOOLEAN]
  /\ postmortem \in [Vms -> BOOLEAN]
  /\ serving \in [Vms -> Commands \cup {NoCommand}]
  /\ stops \in [Vms -> 0..MaxStops]
  /\ resumed \in [Vms -> 0..MaxStops]
  /\ cmds \in [Vms -> Seq(Commands)]
  /\ reply \in BOOLEAN
  /\ evq \in Seq(Messages)
  /\ fwd \in Seq(Messages)
  /\ wire \in Seq(Messages)

\* A command is served in the stop its request saw: a request made while the
\* VM runs is refused "instead of being queued for a later stop"
\* (wait_until_paused), and nothing left over in the channel, or still unserved
\* when its request timed out, outlives the stop.
NoStaleCommand ==
  \A v \in Vms :
    /\ \A i \in 1..Len(cmds[v]) : cmds[v][i].stop = stops[v]
    /\ serving[v] # NoCommand => serving[v].stop = stops[v]
    /\ vpc[v] \in {"poll", "run", "pausing", "failed"} => cmds[v] = <<>>

\* Why: while the adapter is between seeing a pause and sending the command
\* for it, and while commands are queued, the VM thread is inside that very
\* pause; a resume is the last command of its stop; and a VM whose status is
\* Paused has no resume waiting for it.
InPause(v) == vpc[v] \in {"announce", "listen", "serve"}

ResumeQueued(v) == \E i \in 1..Len(cmds[v]) : cmds[v][i].kind = "resume"

PauseInv(v) ==
  /\ state[v] = "Paused" =>
       /\ stops[v] \in 1..MaxStops
       /\ ~ ResumeQueued(v)
       /\ \/ InPause(v)
          \/ vpc[v] = "panicked"
          \/ vpc[v] = "resuming" /\ ~ attached[v]
  /\ vpc[v] = "pausing" => stops[v] < MaxStops
  /\ cmds[v] # <<>> => InPause(v)
  /\ \A i \in 1..Len(cmds[v]) :
       /\ cmds[v][i].stop = stops[v]
       /\ cmds[v][i].kind = "resume" => i = Len(cmds[v])
  /\ serving[v] # NoCommand =>
       vpc[v] \in {"serve", "resuming"} /\ serving[v].stop = stops[v]
  /\ attached[v] => v = cur
  /\ vpc[v] # "none" => v <= cur

AdapterInv ==
  /\ apc # "idle" /\ apc # "quit" => req.id \in 1..MaxReq
  /\ apc = "launching" => cur < MaxLaunch
  /\ apc \in {"launchResponding", "announcing", "spawning", "terminating"}
       => cur # 0
  /\ apc \in {"waiting", "refusing", "asking", "receiving", "beginning",
              "sending"}
       => cur # 0 /\ attached[cur]
  /\ apc \in {"waiting", "asking", "receiving", "beginning", "sending"}
       => req.kind \in {"query", "resume"}
  /\ apc \in {"asking", "receiving"} => req.kind = "query"
  /\ apc \in {"beginning", "sending"} => req.kind = "resume"
  /\ apc \in {"asking", "beginning"} => state[cur] = "Paused"
  /\ apc = "sending" => /\ state[cur] = "Running"
                        /\ ~ ResumeQueued(cur)
                        /\ InPause(cur) \/ vpc[cur] = "panicked"
  /\ apc \in {"asking", "beginning", "sending"}
       => req.stop = stops[cur] /\ req.stop \in 1..MaxStops
  /\ apc \in {"launchResponding", "announcing", "spawning"}
       => vpc[cur] = "none"

ChannelInv == AdapterInv /\ \A v \in Vms : PauseInv(v)

\* What the client has been shown as a stop it can work with is one: the
\* status is Paused before the Stopped event can be seen (dap_on_pause), and
\* stays so until the client itself resumes, ends or leaves the debuggee.
StopShownIsReal ==
  \A i \in 1..Len(wire) :
    LET v == wire[i].vm IN
    /\ wire[i].type = "stopped"
    /\ wire[i].stop = stops[v]
    /\ resumed[v] < stops[v]
    /\ attached[v]
    => state[v] \in {"Paused", "Terminating"}

\* No event of a VM overtakes the response to its Launch and the Process event
\* (Command::Launch spawns the thread last).
LaunchComesFirst ==
  \A i \in 1..Len(wire) :
    wire[i].type \in {"output", "breakpoint", "stopped", "exited",
                      "terminated"}
    => \E j, k \in 1..(i - 1) :
         /\ j < k
         /\ wire[j].type = "response" /\ wire[j].kind = "launch"
         /\ wire[j].vm = wire[i].vm
         /\ wire[k].type = "process" /\ wire[k].vm = wire[i].vm

\* The exit of a VM is the last the client hears of it: no later stop, and no
\* answer to a query about its stack or variables.
NothingAfterExit ==
  \A i, j \in 1..Len(wire) :
    /\ i < j
    /\ wire[i].type = "exited"
    /\ wire[j].vm = wire[i].vm
    => \/ wire[j].type = "terminated"
       \/ wire[j].type = "response" /\ ~ (wire[j].kind = "query" /\ wire[j].ok)

\* A debuggee that is terminating is never taken back to Paused or Running,
\* and one that has exited stays so, whichever thread writes the status last
\* (mark_paused, mark_running, begin_resume, set).
DoomSticks ==
  [][\A v \in Vms :
       /\ Doomed(v) => state'[v] \in {"Terminating", "Exited"}
       /\ state[v] = "Exited" => state'[v] = "Exited"]_vars

\* Only the client ends a stop: the status leaves Paused for Running at the
\* adapter's begin_resume, or, once the sender is dropped, by the VM thread.
OnlyClientResumes ==
  [][\A v \in Vms :
       state[v] = "Paused" /\ state'[v] = "Running"
       => (apc = "beginning" /\ req.kind = "resume" /\ cur = v)
          \/ ~ attached[v]]_vars

\* Every request is responded to: no wait for a pause or for a reply is for
\* ever, even when the VM thread has panicked (the two timeouts).
EveryRequestAnswered == (apc # "idle") ~> (apc \in {"idle", "quit"})

\* A terminated debuggee ends, wherever the request finds it: before its
\* session exists, paused and waiting for commands, or running.
TerminateEndsVm ==
  \A v \in Vms :
    (state[v] = "Terminating")
    ~> (state[v] = "Exited" \/ vpc[v] = "panicked" \/ apc = "quit")

\* A VM paused when its sender is dropped (Terminate, or a second Launch) is
\* not left waiting for commands.
DetachedRunsOn ==
  \A v \in Vms :
    (vpc[v] = "listen" /\ ~ attached[v]) ~> (vpc[v] # "listen" \/ apc = "quit")

\* The client is told of every exit.
ExitIsReported ==
  \A v \in Vms :
    (vpc[v] = "sendExited")
    ~> (apc = "quit"
        \/ \E i \in 1..Len(wire) : wire[i].type = "exited" /\ wire[i].vm = v)

Lifecycle == INSTANCE DebuggeeLifecycle WITH
  phase <- [v \in Vms |-> IF apc = "quit" THEN "Killed" ELSE state[v]]
LifecycleSpec == Lifecycle!Spec
=============================================================================
