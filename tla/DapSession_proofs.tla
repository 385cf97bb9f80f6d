-------------------------- MODULE DapSession_proofs --------------------------
(***************************************************************************)
(* Proofs about DapSession for every number of launches, requests and      *)
(* stops.  IInv = TypeOK /\ ChannelInv is inductive; NoStaleCommand is a   *)
(* consequence of it, and the action properties hold of every step from a  *)
(* state that satisfies it.                                                *)
(***************************************************************************)
EXTENDS DapSession, SequenceTheorems, TLAPS

IInv == TypeOK /\ ChannelInv

USE MaxLaunchAssumption, DapAssumption

-----------------------------------------------------------------------------
(* The initial states satisfy the invariant: nothing is launched. *)
LEMMA InitType == Init => TypeOK
<1> SUFFICES ASSUME Init PROVE TypeOK
  OBVIOUS
<1>1. StatusTypeOK
  BY DEF Init, StatusInit, StatusTypeOK, VmState
<1>2. apc \in AdapterPCs /\ req \in [id : 0..MaxReq, kind : Kinds, stop : 0..MaxStops]
  BY DEF Init, AdapterPCs, Kinds
<1>3. /\ cur \in 0..MaxLaunch
      /\ attached \in [Vms -> BOOLEAN]
      /\ result \in BOOLEAN
      /\ vpc \in [Vms -> VmPCs]
      /\ halted \in [Vms -> BOOLEAN]
      /\ postmortem \in [Vms -> BOOLEAN]
      /\ serving \in [Vms -> Commands \cup {NoCommand}]
      /\ stops \in [Vms -> 0..MaxStops]
      /\ resumed \in [Vms -> 0..MaxStops]
  BY DEF Init, VmPCs
<1>4. reply \in BOOLEAN /\ evq \in Seq(Messages) /\ fwd \in Seq(Messages)
      /\ wire \in Seq(Messages)
  <2>1. <<>> \in Seq(Messages)
    OBVIOUS
  <2> QED
    BY <2>1 DEF Init
<1>5. cmds \in [Vms -> Seq(Commands)]
  <2>1. <<>> \in Seq(Commands)
    OBVIOUS
  <2> QED
    BY <2>1 DEF Init
<1> QED
  BY <1>1, <1>2, <1>3, <1>4, <1>5 DEF TypeOK

LEMMA InitInv == Init => IInv
<1> SUFFICES ASSUME Init PROVE ChannelInv
  BY InitType DEF IInv
<1>1. AdapterInv
  BY DEF Init, AdapterInv
<1>2. ASSUME NEW v \in Vms PROVE PauseInv(v)
  BY <1>2 DEF Init, StatusInit, PauseInv, ResumeQueued, InPause
<1> QED
  BY <1>1, <1>2 DEF ChannelInv

-----------------------------------------------------------------------------
(* Typing *)

LEMMA EventTyped ==
  ASSUME NEW e \in {"initialized", "process", "output", "breakpoint",
                     "stopped", "exited", "terminated"},
         NEW v \in 0..MaxLaunch, NEW n \in 0..MaxStops
  PROVE  Event(e, v, n) \in Messages
  BY DEF Event, Messages

LEMMA ResponseTyped ==
  ASSUME TypeOK, req.id \in 1..MaxReq, NEW ok \in BOOLEAN
  PROVE  Response(ok) \in Messages
  BY DEF TypeOK, Response, Messages

LEMMA AppendTyped ==
  ASSUME NEW S, NEW s \in Seq(S), NEW x \in S
  PROVE  Append(s, x) \in Seq(S)
  OBVIOUS

LEMMA AppendFacts ==
  ASSUME NEW S, NEW s \in Seq(S), NEW x \in S
  PROVE  /\ Len(s) \in Nat /\ Len(Append(s, x)) = Len(s) + 1
         /\ \A i \in 1..Len(s) : Append(s, x)[i] = s[i]
         /\ Append(s, x)[Len(s) + 1] = x
  OBVIOUS

LEMMA CommandTyped ==
  ASSUME IInv, apc \in {"asking", "sending"}
  PROVE  Command \in Commands
  BY DEF IInv, TypeOK, ChannelInv, AdapterInv, Command, Commands

LEMMA TypeStep == IInv /\ [Next]_vars => TypeOK'
<1> SUFFICES ASSUME IInv, [Next]_vars PROVE TypeOK'
  OBVIOUS
<1> USE DEF IInv, TypeOK, StatusTypeOK, VmState, AdapterPCs, VmPCs
<1>1. ASSUME NEW k \in ClientKinds, ReadRequest(k) PROVE TypeOK'
  <2>1. k \in Kinds /\ req.id + 1 \in 0..MaxReq
    BY <1>1 DEF ReadRequest
  <2>2. req' \in [id : 0..MaxReq, kind : Kinds, stop : 0..MaxStops]
    BY <1>1, <2>1 DEF ReadRequest
  <2>3. apc' \in AdapterPCs
    BY <1>1 DEF ReadRequest, AGoto
  <2>4. result' \in BOOLEAN
    BY <1>1 DEF ReadRequest
  <2> QED
    BY <1>1, <2>2, <2>3, <2>4 DEF ReadRequest, statusVars, adapterVars, vmVars, chanVars
<1>2. CASE EndOfInput
  BY <1>2 DEF EndOfInput, AGoto, ChannelInv, AdapterInv, statusVars, adapterVars, vmVars, chanVars
<1>3. CASE LaunchReplace
  BY <1>3 DEF LaunchReplace, AGoto, ChannelInv, AdapterInv, statusVars, adapterVars, vmVars, chanVars
<1>4. CASE LaunchRespond
  <2>1. Response(TRUE) \in Messages
    BY <1>4, ResponseTyped DEF LaunchRespond, ChannelInv, AdapterInv
  <2>2. wire' \in Seq(Messages)
    BY <1>4, <2>1, AppendTyped DEF LaunchRespond
  <2> QED
    BY <1>4, <2>2 DEF LaunchRespond, AGoto, statusVars, adapterVars, vmVars, chanVars
<1>5. CASE LaunchAnnounce
  <2>1. Event("process", cur, 0) \in Messages
    BY <1>5, EventTyped DEF LaunchAnnounce
  <2>2. wire' \in Seq(Messages)
    BY <1>5, <2>1, AppendTyped DEF LaunchAnnounce
  <2> QED
    BY <1>5, <2>2 DEF LaunchAnnounce, AGoto, statusVars, adapterVars, vmVars, chanVars
<1>6. CASE LaunchSpawn
  BY <1>6 DEF LaunchSpawn, AGoto, ChannelInv, AdapterInv, statusVars, adapterVars, vmVars, chanVars
<1>7. CASE WaitUntilPaused
  <2>1. cur \in Vms
    BY <1>7 DEF WaitUntilPaused, ChannelInv, AdapterInv, Vms
  <2> QED
    BY <1>7, <2>1 DEF WaitUntilPaused, AGoto, statusVars, adapterVars, vmVars, chanVars
<1>8. CASE WaitTimesOut
  BY <1>8 DEF WaitTimesOut, AGoto, ChannelInv, AdapterInv, statusVars, adapterVars, vmVars, chanVars
<1>9. CASE Refuse
  BY <1>9 DEF Refuse, AGoto, ChannelInv, AdapterInv, statusVars, adapterVars, vmVars, chanVars
<1>10. CASE AskVm
  <2>1. Command \in Commands
    BY <1>10, CommandTyped DEF AskVm
  <2>2. cur \in Vms
    BY <1>10 DEF AskVm, ChannelInv, AdapterInv, Vms
  <2>3. Append(cmds[cur], Command) \in Seq(Commands)
    BY <2>1, <2>2, AppendTyped
  <2>4. cmds' \in [Vms -> Seq(Commands)]
    BY <1>10, <2>3 DEF AskVm
  <2> QED
    BY <1>10, <2>4 DEF AskVm, AGoto, SetState, statusVars, adapterVars, vmVars, chanVars
<1>11. CASE ReceiveReply
  BY <1>11 DEF ReceiveReply, AGoto, ChannelInv, AdapterInv, statusVars, adapterVars, vmVars, chanVars
<1>12. CASE ReplyTimesOut
  BY <1>12 DEF ReplyTimesOut, AGoto, ChannelInv, AdapterInv, statusVars, adapterVars, vmVars, chanVars
<1>13. CASE BeginResumeOf
  <2>1. state' \in [Vms -> VmState] /\ UNCHANGED <<handle, requested>>
    BY <1>13 DEF BeginResumeOf, BeginResume, SetState, statusVars
  <2>2. cur \in Vms
    BY <1>13 DEF BeginResumeOf, ChannelInv, AdapterInv, Vms
  <2>3. resumed' \in [Vms -> 0..MaxStops]
    BY <1>13, <2>2 DEF BeginResumeOf
  <2>4. apc' \in AdapterPCs
    BY <1>13 DEF BeginResumeOf, AGoto
  <2> QED
    BY <1>13, <2>1, <2>3, <2>4 DEF BeginResumeOf, vmVars, chanVars
<1>14. CASE SendResume
  <2>1. Command \in Commands
    BY <1>14, CommandTyped DEF SendResume
  <2>2. cur \in Vms
    BY <1>14 DEF SendResume, ChannelInv, AdapterInv, Vms
  <2>3. Append(cmds[cur], Command) \in Seq(Commands)
    BY <2>1, <2>2, AppendTyped
  <2>4. cmds' \in [Vms -> Seq(Commands)]
    BY <1>14, <2>3 DEF SendResume
  <2> QED
    BY <1>14, <2>4 DEF SendResume, AGoto, SetState, statusVars, adapterVars, vmVars, chanVars
<1>15. CASE TerminateVm
  BY <1>15 DEF TerminateVm, AGoto, ChannelInv, AdapterInv, RequestTerminate, statusVars, adapterVars, vmVars, chanVars
<1>16. CASE DropSender
  BY <1>16 DEF DropSender, AGoto, ChannelInv, AdapterInv, statusVars, adapterVars, vmVars, chanVars
<1>17. CASE Respond
  <2>1. Response(result) \in Messages
    BY <1>17, ResponseTyped DEF Respond, ChannelInv, AdapterInv
  <2>2. wire' \in Seq(Messages)
    BY <1>17, <2>1, AppendTyped DEF Respond
  <2> QED
    BY <1>17, <2>2 DEF Respond, AGoto, statusVars, adapterVars, vmVars, chanVars
<1>18. CASE Greet
  <2>1. Event("initialized", 0, 0) \in Messages
    BY <1>18, EventTyped DEF Greet
  <2>2. wire' \in Seq(Messages)
    BY <1>18, <2>1, AppendTyped DEF Greet
  <2> QED
    BY <1>18, <2>2 DEF Greet, AGoto, statusVars, adapterVars, vmVars, chanVars
<1>19. CASE ForwarderTake
  BY <1>19 DEF ForwarderTake, AGoto, ChannelInv, AdapterInv, statusVars, adapterVars, vmVars, chanVars
<1>20. CASE ForwarderWrite
  BY <1>20 DEF ForwarderWrite, AGoto, ChannelInv, AdapterInv, statusVars, adapterVars, vmVars, chanVars
<1>21. ASSUME NEW v \in Vms, VmBoot(v) PROVE TypeOK'
  BY <1>21 DEF VmBoot, At, Goto, ChannelInv, PauseInv, InstallInterrupt, statusVars, adapterVars, vmVars, chanVars
<1>22. ASSUME NEW v \in Vms, VmUnreadable(v) PROVE TypeOK'
  <2>1. Event("output", v, stops[v]) \in Messages
    <3>1. v \in 0..MaxLaunch /\ stops[v] \in 0..MaxStops
      BY DEF Vms
    <3> QED
      BY ONLY <3>1, EventTyped
  <2>2. evq' \in Seq(Messages)
    BY <1>22, <2>1, AppendTyped DEF VmUnreadable, Emit
  <2>3. cmds' \in [Vms -> Seq(Commands)]
    BY <1>22 DEF VmUnreadable, statusVars, adapterVars, vmVars, chanVars
  <2> QED
    BY <1>22, <2>2, <2>3 DEF VmUnreadable, At, Goto, statusVars, adapterVars, vmVars, chanVars
<1>23. ASSUME NEW v \in Vms, VmPoll(v) PROVE TypeOK'
  BY <1>23 DEF VmPoll, At, Goto, ChannelInv, PauseInv, statusVars, adapterVars, vmVars, chanVars
<1>24. ASSUME NEW v \in Vms, VmInstruction(v) PROVE TypeOK'
  BY <1>24 DEF VmInstruction, At, Goto, ChannelInv, PauseInv, statusVars, adapterVars, vmVars, chanVars
<1>25. ASSUME NEW v \in Vms, VmEnd(v) PROVE TypeOK'
  BY <1>25 DEF VmEnd, At, Goto, ChannelInv, PauseInv, statusVars, adapterVars, vmVars, chanVars
<1>26. ASSUME NEW v \in Vms, VmFailed(v) PROVE TypeOK'
  <2>1. Event("output", v, stops[v]) \in Messages
    <3>1. v \in 0..MaxLaunch /\ stops[v] \in 0..MaxStops
      BY DEF Vms
    <3> QED
      BY ONLY <3>1, EventTyped
  <2>2. evq' \in Seq(Messages)
    BY <1>26, <2>1, AppendTyped DEF VmFailed, Emit
  <2>3. cmds' \in [Vms -> Seq(Commands)]
    BY <1>26 DEF VmFailed, statusVars, adapterVars, vmVars, chanVars
  <2> QED
    BY <1>26, <2>2, <2>3 DEF VmFailed, At, Goto, statusVars, adapterVars, vmVars, chanVars
<1>27. ASSUME NEW v \in Vms, VmPause(v) PROVE TypeOK'
  <2>1. CASE Doomed(v)
    BY <1>27, <2>1 DEF VmPause, At, Goto, AfterPause, statusVars, adapterVars, vmVars, chanVars
  <2>2. CASE ~ Doomed(v)
    <3>1. stops[v] + 1 \in 0..MaxStops
      BY <1>27 DEF VmPause, At, ChannelInv, PauseInv
    <3>2. stops' = [stops EXCEPT ![v] = stops[v] + 1]
      BY <1>27, <2>2 DEF VmPause
    <3>3. stops' \in [Vms -> 0..MaxStops]
      BY <3>1, <3>2
    <3>4. state' \in [Vms -> VmState] /\ UNCHANGED <<handle, requested>>
      BY <1>27, <2>2 DEF VmPause, MarkPaused, SetState
    <3>5. vpc' \in [Vms -> VmPCs]
      BY <1>27, <2>2 DEF VmPause, Goto
    <3>6. UNCHANGED <<adapterVars, halted, postmortem, serving, resumed, chanVars>>
      BY <1>27 DEF VmPause
    <3>7. UNCHANGED <<apc, req, cur, attached, result, cmds, reply, evq, fwd, wire>>
      BY <3>6 DEF adapterVars, chanVars
    <3>8. TypeOK /\ UNCHANGED <<halted, postmortem, serving, resumed>>
      BY <3>6
    <3> QED
      BY ONLY <3>3, <3>4, <3>5, <3>7, <3>8, SMTT(60) DEF TypeOK
  <2> QED
    BY <2>1, <2>2
<1>28. ASSUME NEW v \in Vms, VmAnnounce(v) PROVE TypeOK'
  <2>1. /\ Event("stopped", v, stops[v]) \in Messages
        /\ Event("breakpoint", v, stops[v]) \in Messages
    <3>1. v \in 0..MaxLaunch /\ stops[v] \in 0..MaxStops
      BY DEF Vms
    <3> QED
      BY ONLY <3>1, EventTyped
  <2>2. evq' \in Seq(Messages)
    <3>1. CASE Emit(v, "stopped")
      BY <2>1, <3>1, AppendTyped DEF Emit
    <3>2. CASE evq' = evq \o <<Event("breakpoint", v, stops[v]),
                               Event("stopped", v, stops[v])>>
      BY <2>1, <3>2
    <3> QED
      BY <1>28, <3>1, <3>2 DEF VmAnnounce
  <2> QED
    BY <1>28, <2>2 DEF VmAnnounce, At, Goto, statusVars, adapterVars, vmVars, chanVars
<1>29. ASSUME NEW v \in Vms, VmReceive(v) PROVE TypeOK'
  BY <1>29 DEF VmReceive, At, Goto, ChannelInv, PauseInv, statusVars, adapterVars, vmVars, chanVars
<1>30. ASSUME NEW v \in Vms, VmDetached(v) PROVE TypeOK'
  BY <1>30 DEF VmDetached, At, Goto, ChannelInv, PauseInv, statusVars, adapterVars, vmVars, chanVars
<1>31. ASSUME NEW v \in Vms, VmServe(v) PROVE TypeOK'
  BY <1>31 DEF VmServe, At, Goto, ChannelInv, PauseInv, statusVars, adapterVars, vmVars, chanVars
<1>32. ASSUME NEW v \in Vms, VmResume(v) PROVE TypeOK'
  BY <1>32 DEF VmResume, At, Goto, ChannelInv, PauseInv, MarkRunning, SetState, AfterPause, statusVars, adapterVars, vmVars, chanVars
<1>33. ASSUME NEW v \in Vms, VmExit(v) PROVE TypeOK'
  BY <1>33 DEF VmExit, At, Goto, ChannelInv, PauseInv, SetState, statusVars, adapterVars, vmVars, chanVars
<1>34. ASSUME NEW v \in Vms, VmSendExited(v) PROVE TypeOK'
  <2>1. Event("exited", v, stops[v]) \in Messages
    <3>1. v \in 0..MaxLaunch /\ stops[v] \in 0..MaxStops
      BY DEF Vms
    <3> QED
      BY ONLY <3>1, EventTyped
  <2>2. evq' \in Seq(Messages)
    BY <1>34, <2>1, AppendTyped DEF VmSendExited, Emit
  <2>3. cmds' \in [Vms -> Seq(Commands)]
    BY <1>34 DEF VmSendExited, statusVars, adapterVars, vmVars, chanVars
  <2> QED
    BY <1>34, <2>2, <2>3 DEF VmSendExited, At, Goto, statusVars, adapterVars, vmVars, chanVars
<1>35. ASSUME NEW v \in Vms, VmSendTerminated(v) PROVE TypeOK'
  <2>1. Event("terminated", v, stops[v]) \in Messages
    <3>1. v \in 0..MaxLaunch /\ stops[v] \in 0..MaxStops
      BY DEF Vms
    <3> QED
      BY ONLY <3>1, EventTyped
  <2>2. evq' \in Seq(Messages)
    BY <1>35, <2>1, AppendTyped DEF VmSendTerminated, Emit
  <2>3. cmds' \in [Vms -> Seq(Commands)]
    BY <1>35 DEF VmSendTerminated, statusVars, adapterVars, vmVars, chanVars
  <2> QED
    BY <1>35, <2>2, <2>3 DEF VmSendTerminated, At, Goto, statusVars, adapterVars, vmVars, chanVars
<1>36. ASSUME NEW v \in Vms, VmPanic(v) PROVE TypeOK'
  BY <1>36 DEF VmPanic, At, Goto, ChannelInv, PauseInv, statusVars, adapterVars, vmVars, chanVars
<1>37. CASE UNCHANGED vars
  BY <1>37 DEF vars, statusVars, adapterVars, vmVars, chanVars
<1> QED
  BY <1>1, <1>2, <1>3, <1>4, <1>5, <1>6, <1>7, <1>8, <1>9, <1>10, <1>11, <1>12, <1>13, <1>14, <1>15, <1>16, <1>17, <1>18, <1>19, <1>20, <1>21, <1>22, <1>23, <1>24, <1>25, <1>26, <1>27, <1>28, <1>29, <1>30, <1>31, <1>32, <1>33, <1>34, <1>35, <1>36, <1>37 DEF Next, AdapterStep, VmStep

-----------------------------------------------------------------------------
(* The channel invariant *)

\* Nothing PauseInv(u) speaks of changes.
LEMMA PauseFrame ==
  ASSUME NEW u \in Vms, PauseInv(u), cur' = cur,
         state'[u] = state[u], stops'[u] = stops[u], vpc'[u] = vpc[u],
         cmds'[u] = cmds[u], serving'[u] = serving[u],
         attached'[u] = attached[u]
  PROVE  PauseInv(u)'
  BY DEF PauseInv, ResumeQueued, InPause

\* A VM step that keeps the adapter's request in its pause, if it has one
\* there, and respects its own VM's invariant.
LEMMA VmFrame ==
  ASSUME IInv, NEW v \in Vms,
         UNCHANGED <<apc, req, cur, attached>>,
         vpc[v] # "none", PauseInv(v)',
         \A u \in Vms \ {v} :
           /\ state'[u] = state[u] /\ stops'[u] = stops[u]
           /\ vpc'[u] = vpc[u] /\ cmds'[u] = cmds[u]
           /\ serving'[u] = serving[u],
         apc \in {"asking", "beginning", "sending"} /\ v = cur =>
           /\ state'[v] = state[v] /\ stops'[v] = stops[v]
           /\ InPause(v)' \/ vpc'[v] = "panicked"
           /\ ~ ResumeQueued(v) => ~ ResumeQueued(v)'
  PROVE  ChannelInv'
<1>1. AdapterInv /\ \A u \in Vms : PauseInv(u)
  BY DEF IInv, ChannelInv
<1>2. ASSUME NEW u \in Vms PROVE PauseInv(u)'
  <2>1. CASE u = v
    BY <2>1
  <2>2. CASE u # v
    BY <1>1, <2>2, PauseFrame
  <2> QED
    BY <2>1, <2>2
<1>3. apc \in {"waiting", "refusing", "asking", "receiving", "beginning",
               "sending", "launchResponding", "announcing", "spawning",
               "terminating"}
      => cur \in Vms
  BY <1>1 DEF AdapterInv, IInv, TypeOK, Vms
<1>4. ASSUME apc \in {"launchResponding", "announcing", "spawning"}
      PROVE  vpc'[cur] = "none"
  BY <1>1, <1>3, <1>4 DEF AdapterInv
<1>5. ASSUME apc \in {"asking", "beginning", "sending"}
      PROVE  /\ state'[cur] = state[cur]
             /\ stops'[cur] = stops[cur]
  BY <1>3, <1>5
<1>6. ASSUME apc = "sending"
      PROVE  /\ ~ ResumeQueued(cur)'
             /\ InPause(cur)' \/ vpc'[cur] = "panicked"
  <2>1. ~ ResumeQueued(cur) /\ (InPause(cur) \/ vpc[cur] = "panicked")
    BY <1>1, <1>6 DEF AdapterInv
  <2>2. CASE cur = v
    BY <1>6, <2>1, <2>2
  <2>3. CASE cur # v
    BY <1>3, <1>6, <2>1, <2>3 DEF ResumeQueued, InPause
  <2> QED
    BY <2>2, <2>3
<1>7. AdapterInv'
  BY <1>1, <1>4, <1>5, <1>6 DEF AdapterInv
<1> QED
  BY <1>2, <1>7 DEF ChannelInv

\* A step of the VM thread outside its pauses.
LEMMA OutsideStep ==
  ASSUME IInv, NEW v \in Vms, NEW q \in VmPCs,
         UNCHANGED <<apc, req, cur, attached, state, stops, cmds, serving>>,
         vpc[v] \notin {"none", "announce", "listen", "serve", "resuming",
                        "panicked"},
         q \notin {"none", "resuming", "panicked"},
         vpc' = [vpc EXCEPT ![v] = q],
         q = "pausing" => stops[v] < MaxStops
  PROVE  ChannelInv'
<1>1. PauseInv(v) /\ AdapterInv
  BY DEF IInv, ChannelInv
<1>2. state[v] # "Paused" /\ cmds[v] = <<>> /\ serving[v] = NoCommand
  BY <1>1 DEF PauseInv, InPause
<1>3. vpc'[v] = q /\ \A u \in Vms \ {v} : vpc'[u] = vpc[u]
  BY DEF IInv, TypeOK
<1>4. PauseInv(v)'
  BY <1>1, <1>2, <1>3 DEF PauseInv, ResumeQueued, InPause
<1>5. ~ (apc \in {"asking", "beginning", "sending"} /\ v = cur)
  BY <1>1, <1>2 DEF AdapterInv, PauseInv, InPause
<1> QED
  BY <1>3, <1>4, <1>5, VmFrame

\* A step of the VM thread within a pause.
LEMMA InsideStep ==
  ASSUME IInv, NEW v \in Vms, NEW q \in {"announce", "listen", "serve"},
         UNCHANGED <<apc, req, cur, attached, state, stops, cmds>>,
         InPause(v),
         vpc' = [vpc EXCEPT ![v] = q],
         serving' = [serving EXCEPT ![v] = NoCommand]
  PROVE  ChannelInv'
<1>1. PauseInv(v)
  BY DEF IInv, ChannelInv
<1>2. /\ vpc'[v] = q /\ \A u \in Vms \ {v} : vpc'[u] = vpc[u]
      /\ serving'[v] = NoCommand
      /\ \A u \in Vms \ {v} : serving'[u] = serving[u]
  BY DEF IInv, TypeOK
<1>3. PauseInv(v)'
  BY <1>1, <1>2 DEF PauseInv, ResumeQueued, InPause
<1>4. InPause(v)' /\ (~ ResumeQueued(v) => ~ ResumeQueued(v)')
  BY <1>2 DEF InPause, ResumeQueued
<1>5. vpc[v] # "none"
  BY DEF InPause
<1> QED
  BY <1>2, <1>3, <1>4, <1>5, VmFrame

\* Every step preserves the channel invariant.
LEMMA AdapterStepInv == IInv /\ TypeOK' /\ AdapterStep => ChannelInv'
<1> SUFFICES ASSUME IInv, TypeOK', AdapterStep PROVE ChannelInv'
  OBVIOUS
<1> USE DEF IInv, TypeOK, StatusTypeOK, ChannelInv, Vms
<1>q. ASSUME UNCHANGED <<state, vmVars, cmds, attached, cur>>
      PROVE  \A u \in Vms : PauseInv(u)'
  BY <1>q, PauseFrame DEF vmVars
<1>1. CASE LaunchRespond
  <2>1. AdapterInv'
    BY <1>1 DEF LaunchRespond, AGoto, AdapterInv, PauseInv, ResumeQueued, InPause,
       statusVars, vmVars, chanVars
  <2> QED
    BY <1>1, <1>q, <2>1 DEF LaunchRespond, statusVars, chanVars
<1>2. CASE LaunchAnnounce
  <2>1. AdapterInv'
    BY <1>2 DEF LaunchAnnounce, AGoto, AdapterInv, PauseInv, ResumeQueued, InPause,
       statusVars, vmVars, chanVars
  <2> QED
    BY <1>2, <1>q, <2>1 DEF LaunchAnnounce, statusVars, chanVars
<1>3. CASE WaitUntilPaused
  <2>1. AdapterInv'
    <3>1. CASE GivesUp(cur) /\ AGoto("refusing") /\ UNCHANGED req
      BY <1>3, <3>1 DEF WaitUntilPaused, AGoto, AdapterInv, ResumeQueued,
         InPause, statusVars, vmVars, chanVars
    <3>2. CASE SeesPause(cur)
      <4>1. /\ apc = "waiting" /\ cur # 0 /\ cur \in Vms /\ attached[cur]
            /\ req.kind \in {"query", "resume"} /\ req.id \in 1..MaxReq
        BY <1>3 DEF WaitUntilPaused, AdapterInv
      <4>2. state[cur] = "Paused" /\ stops[cur] \in 1..MaxStops
        BY <3>2, <4>1 DEF SeesPause, PauseInv, InPause
      <4>3. CASE req' = [req EXCEPT !.stop = stops[cur]]
                 /\ apc' = IF req.kind = "query" THEN "asking" ELSE "beginning"
        <5>1. req'.stop = stops[cur] /\ req'.kind = req.kind /\ req'.id = req.id
          BY <4>3
        <5>2. UNCHANGED <<state, stops, attached, cur>>
          BY <1>3 DEF WaitUntilPaused, statusVars, vmVars
        <5> QED
          BY <4>1, <4>2, <4>3, <5>1, <5>2 DEF AdapterInv
      <4> QED
        BY <1>3, <3>1, <4>3 DEF WaitUntilPaused, AGoto
    <3> QED
      BY <1>3, <3>1, <3>2 DEF WaitUntilPaused
  <2> QED
    BY <1>3, <1>q, <2>1 DEF WaitUntilPaused, statusVars, chanVars
<1>4. CASE WaitTimesOut
  <2>1. AdapterInv'
    BY <1>4 DEF WaitTimesOut, AGoto, AdapterInv, PauseInv, ResumeQueued, InPause,
       statusVars, vmVars, chanVars
  <2> QED
    BY <1>4, <1>q, <2>1 DEF WaitTimesOut, statusVars, chanVars
<1>5. CASE Refuse
  <2>1. AdapterInv'
    BY <1>5 DEF Refuse, AGoto, AdapterInv, PauseInv, ResumeQueued, InPause,
       statusVars, vmVars, chanVars
  <2> QED
    BY <1>5, <1>q, <2>1 DEF Refuse, statusVars, chanVars
<1>6. CASE ReceiveReply
  <2>1. AdapterInv'
    BY <1>6 DEF ReceiveReply, AGoto, AdapterInv, PauseInv, ResumeQueued, InPause,
       statusVars, vmVars, chanVars
  <2> QED
    BY <1>6, <1>q, <2>1 DEF ReceiveReply, statusVars, chanVars
<1>7. CASE ReplyTimesOut
  <2>1. AdapterInv'
    BY <1>7 DEF ReplyTimesOut, AGoto, AdapterInv, PauseInv, ResumeQueued, InPause,
       statusVars, vmVars, chanVars
  <2> QED
    BY <1>7, <1>q, <2>1 DEF ReplyTimesOut, statusVars, chanVars
<1>8. CASE Respond
  <2>1. AdapterInv'
    BY <1>8 DEF Respond, AGoto, AdapterInv, PauseInv, ResumeQueued, InPause,
       statusVars, vmVars, chanVars
  <2> QED
    BY <1>8, <1>q, <2>1 DEF Respond, statusVars, chanVars
<1>9. CASE Greet
  <2>1. AdapterInv'
    BY <1>9 DEF Greet, AGoto, AdapterInv, PauseInv, ResumeQueued, InPause,
       statusVars, vmVars, chanVars
  <2> QED
    BY <1>9, <1>q, <2>1 DEF Greet, statusVars, chanVars
<1>10. CASE LaunchReplace
  <2>1. AdapterInv'
    BY <1>10 DEF LaunchReplace, AGoto, AdapterInv, PauseInv, ResumeQueued,
       InPause, statusVars, vmVars, chanVars
  <2>2. ASSUME NEW u \in Vms PROVE PauseInv(u)'
    <3>1. /\ attached' = [v \in Vms |-> v = cur + 1] /\ cur' = cur + 1
          /\ UNCHANGED <<state, stops, vpc, cmds, serving>>
      BY <1>10 DEF LaunchReplace, statusVars, vmVars, chanVars
    <3>2. PauseInv(u) /\ cur \in Nat
      OBVIOUS
    <3>3. vpc[u] # "none" => ~ attached'[u] /\ u <= cur'
      BY <3>1, <3>2 DEF PauseInv
    <3> QED
      BY <3>1, <3>2, <3>3 DEF PauseInv, ResumeQueued, InPause
  <2> QED
    BY <2>1, <2>2
<1>11. CASE LaunchSpawn
  <2>1. AdapterInv'
    BY <1>11 DEF LaunchSpawn, AGoto, AdapterInv, PauseInv, ResumeQueued,
       InPause, statusVars, vmVars, chanVars
  <2>2. /\ vpc[cur] = "none" /\ cur \in Vms
        /\ vpc'[cur] = "boot" /\ \A u \in Vms \ {cur} : vpc'[u] = vpc[u]
        /\ UNCHANGED <<state, stops, cmds, serving, attached, cur>>
    BY <1>11 DEF LaunchSpawn, AdapterInv, statusVars, chanVars
  <2>3. ASSUME NEW u \in Vms, u = cur PROVE PauseInv(u)'
    <3>1. PauseInv(u) /\ vpc[u] = "none" /\ vpc'[u] = "boot" /\ u <= cur
      BY <2>3, <2>2
    <3>2. state[u] # "Paused" /\ cmds[u] = <<>> /\ serving[u] = NoCommand
      BY <3>1 DEF PauseInv, InPause
    <3>3. attached[u] => u = cur
      BY <3>1 DEF PauseInv
    <3>4. /\ state'[u] # "Paused" /\ cmds'[u] = <<>>
          /\ serving'[u] = NoCommand /\ attached'[u] = attached[u]
          /\ cur' = cur
      BY <3>2, <2>2
    <3> QED
      BY <3>1, <3>3, <3>4 DEF PauseInv, ResumeQueued
  <2>4. ASSUME NEW u \in Vms \ {cur} PROVE PauseInv(u)'
    BY <2>2, PauseFrame
  <2> QED
    BY <2>1, <2>3, <2>4
<1>12. CASE AskVm
  <2>1. AdapterInv'
    BY <1>12 DEF AskVm, AGoto, AdapterInv, PauseInv, ResumeQueued, InPause,
       statusVars, vmVars, chanVars
  <2>2. /\ cur \in Vms /\ UNCHANGED <<state, stops, vpc, serving, attached, cur>>
        /\ state[cur] = "Paused" /\ attached[cur]
        /\ req.kind = "query" /\ req.stop = stops[cur]
    BY <1>12 DEF AskVm, AdapterInv, statusVars, vmVars
  <2>3. CASE ~ ReceiverAlive(cur)
    BY <1>12, <2>1, <2>3, <1>q DEF AskVm, statusVars
  <2>4. CASE ReceiverAlive(cur)
    <3>1. InPause(cur) /\ ~ ResumeQueued(cur)
      BY <2>2, <2>4 DEF PauseInv, ReceiverAlive
    <3>2. /\ cmds'[cur] = Append(cmds[cur], req)
          /\ \A u \in Vms \ {cur} : cmds'[u] = cmds[u]
      BY <1>12, <2>2, <2>4 DEF AskVm, Command
    <3>3. /\ Len(cmds'[cur]) = Len(cmds[cur]) + 1
          /\ Len(cmds[cur]) \in Nat
          /\ \A i \in 1..Len(cmds[cur]) : cmds'[cur][i] = cmds[cur][i]
          /\ cmds'[cur][Len(cmds[cur]) + 1] = req
      <4>1. cmds[cur] \in Seq(Commands) /\ req \in Commands
        BY <1>12, <2>2, CommandTyped DEF AskVm, Command
      <4>2. LET t == Append(cmds[cur], req)
            IN  /\ Len(t) = Len(cmds[cur]) + 1 /\ Len(cmds[cur]) \in Nat
                /\ \A i \in 1..Len(cmds[cur]) : t[i] = cmds[cur][i]
                /\ t[Len(cmds[cur]) + 1] = req
        BY ONLY <4>1, AppendFacts
      <4>3. cmds'[cur] = Append(cmds[cur], req)
        BY <3>2
      <4> QED
        BY ONLY <4>2, <4>3
    <3>4. \A i \in 1..Len(cmds'[cur]) :
            cmds'[cur][i].stop = stops[cur] /\ cmds'[cur][i].kind # "resume"
      <4>1. \A i \in 1..Len(cmds[cur]) :
              cmds[cur][i].stop = stops[cur] /\ cmds[cur][i].kind # "resume"
        BY <2>2, <3>1 DEF PauseInv, ResumeQueued
      <4>2. req.stop = stops[cur] /\ req.kind # "resume"
        BY <2>2
      <4> QED
        BY ONLY <3>3, <4>1, <4>2
    <3>5. ASSUME NEW u \in Vms, u = cur PROVE PauseInv(u)'
      BY <3>5, <2>2, <3>1, <3>4 DEF PauseInv, ResumeQueued, InPause
    <3>6. ASSUME NEW u \in Vms \ {cur} PROVE PauseInv(u)'
      BY <2>2, <3>2, PauseFrame
    <3> QED
      BY <2>1, <3>5, <3>6
  <2> QED
    BY <2>3, <2>4
<1>13. CASE BeginResumeOf
  <2>2. cur \in Vms /\ UNCHANGED <<stops, vpc, cmds, serving, attached, cur>>
    BY <1>13 DEF BeginResumeOf, AdapterInv, vmVars, chanVars
  <2>3. /\ state[cur] = "Paused" /\ state'[cur] = "Running"
        /\ \A u \in Vms \ {cur} : state'[u] = state[u]
    BY <1>13, <2>2 DEF BeginResumeOf, AdapterInv, BeginResume, SetState
  <2>1. AdapterInv'
    <3>1. /\ apc' = "sending" /\ cur # 0 /\ attached[cur]
          /\ req.kind = "resume" /\ req.id \in 1..MaxReq
          /\ req.stop = stops[cur] /\ req.stop \in 1..MaxStops
      BY <1>13 DEF BeginResumeOf, AGoto, AdapterInv
    <3>2. ~ ResumeQueued(cur) /\ (InPause(cur) \/ vpc[cur] = "panicked")
      BY <2>2, <2>3, <3>1 DEF PauseInv
    <3>3. ~ ResumeQueued(cur)' /\ (InPause(cur) \/ vpc[cur] = "panicked")'
      BY <2>2, <3>2 DEF ResumeQueued, InPause
    <3>4. UNCHANGED req
      BY <1>13 DEF BeginResumeOf
    <3> QED
      BY <2>2, <2>3, <3>1, <3>3, <3>4 DEF AdapterInv
  <2>4. ASSUME NEW u \in Vms, u = cur PROVE PauseInv(u)'
    BY <2>4, <2>2, <2>3 DEF PauseInv, ResumeQueued, InPause
  <2>5. ASSUME NEW u \in Vms \ {cur} PROVE PauseInv(u)'
    BY <2>2, <2>3, PauseFrame
  <2> QED
    BY <2>1, <2>4, <2>5
<1>14. CASE SendResume
  <2>1. AdapterInv'
    BY <1>14 DEF SendResume, SetState, AGoto, AdapterInv, PauseInv,
       ResumeQueued, InPause, statusVars, vmVars, chanVars
  <2>2. /\ cur \in Vms /\ UNCHANGED <<stops, vpc, serving, attached, cur>>
        /\ state[cur] = "Running" /\ ~ ResumeQueued(cur)
        /\ req.kind = "resume" /\ req.stop = stops[cur]
        /\ InPause(cur) \/ vpc[cur] = "panicked"
    BY <1>14 DEF SendResume, AdapterInv, vmVars
  <2>3. CASE ~ ReceiverAlive(cur)
    <3>1. /\ state'[cur] = "Exited" /\ UNCHANGED cmds
          /\ \A u \in Vms \ {cur} : state'[u] = state[u]
      BY <1>14, <2>2, <2>3 DEF SendResume, SetState
    <3>2. ASSUME NEW u \in Vms, u = cur PROVE PauseInv(u)'
      BY <3>2, <2>2, <3>1 DEF PauseInv, ResumeQueued, InPause
    <3>3. ASSUME NEW u \in Vms \ {cur} PROVE PauseInv(u)'
      BY <2>2, <3>1, PauseFrame
    <3> QED
      BY <2>1, <3>2, <3>3
  <2>4. CASE ReceiverAlive(cur)
    <3>1. InPause(cur) /\ UNCHANGED state
      BY <1>14, <2>2, <2>4 DEF SendResume, ReceiverAlive, statusVars
    <3>2. /\ cmds'[cur] = Append(cmds[cur], req)
          /\ \A u \in Vms \ {cur} : cmds'[u] = cmds[u]
      BY <1>14, <2>2, <2>4 DEF SendResume, Command
    <3>3. /\ Len(cmds'[cur]) = Len(cmds[cur]) + 1
          /\ Len(cmds[cur]) \in Nat
          /\ \A i \in 1..Len(cmds[cur]) : cmds'[cur][i] = cmds[cur][i]
          /\ cmds'[cur][Len(cmds[cur]) + 1] = req
      <4>1. cmds[cur] \in Seq(Commands) /\ req \in Commands
        BY <1>14, <2>2, CommandTyped DEF SendResume, Command
      <4>2. LET t == Append(cmds[cur], req)
            IN  /\ Len(t) = Len(cmds[cur]) + 1 /\ Len(cmds[cur]) \in Nat
                /\ \A i \in 1..Len(cmds[cur]) : t[i] = cmds[cur][i]
                /\ t[Len(cmds[cur]) + 1] = req
        BY ONLY <4>1, AppendFacts
      <4>3. cmds'[cur] = Append(cmds[cur], req)
        BY <3>2
      <4> QED
        BY ONLY <4>2, <4>3
    <3>4. \A i \in 1..Len(cmds'[cur]) :
            /\ cmds'[cur][i].stop = stops[cur]
            /\ cmds'[cur][i].kind = "resume" => i = Len(cmds'[cur])
      <4>1. \A i \in 1..Len(cmds[cur]) :
              cmds[cur][i].stop = stops[cur] /\ cmds[cur][i].kind # "resume"
        BY <2>2 DEF PauseInv, ResumeQueued
      <4>2. req.stop = stops[cur]
        BY <2>2
      <4> QED
        BY ONLY <3>3, <4>1, <4>2
    <3>5. ASSUME NEW u \in Vms, u = cur PROVE PauseInv(u)'
      BY <3>5, <2>2, <3>1, <3>4 DEF PauseInv, ResumeQueued, InPause
    <3>6. ASSUME NEW u \in Vms \ {cur} PROVE PauseInv(u)'
      BY <2>2, <3>1, <3>2, PauseFrame
    <3> QED
      BY <2>1, <3>5, <3>6
  <2> QED
    BY <2>3, <2>4
<1>15. CASE TerminateVm
  <2>1. AdapterInv'
    BY <1>15 DEF TerminateVm, AGoto, AdapterInv
  <2>2. cur \in Vms /\ UNCHANGED <<stops, vpc, cmds, serving, attached, cur>>
    BY <1>15 DEF TerminateVm, AdapterInv, vmVars, chanVars
  <2>3. /\ state'[cur] # "Paused"
        /\ \A u \in Vms \ {cur} : state'[u] = state[u]
    BY <1>15, <2>2 DEF TerminateVm, RequestTerminate, statusVars
  <2>4. ASSUME NEW u \in Vms, u = cur PROVE PauseInv(u)'
    BY <2>4, <2>2, <2>3 DEF PauseInv, ResumeQueued, InPause
  <2>5. ASSUME NEW u \in Vms \ {cur} PROVE PauseInv(u)'
    BY <2>2, <2>3, PauseFrame
  <2> QED
    BY <2>1, <2>4, <2>5
<1>16. CASE DropSender
  <2>1. AdapterInv'
    BY <1>16 DEF DropSender, AGoto, AdapterInv
  <2>2. /\ UNCHANGED <<state, stops, vpc, cmds, serving, cur>>
        /\ \A u \in Vms : ~ attached'[u]
    BY <1>16 DEF DropSender, statusVars, vmVars, chanVars
  <2>3. ASSUME NEW u \in Vms PROVE PauseInv(u)'
    BY <2>2 DEF PauseInv, ResumeQueued, InPause
  <2> QED
    BY <2>1, <2>3
<1> QED
  BY <1>1, <1>2, <1>3, <1>4, <1>5, <1>6, <1>7, <1>8, <1>9, <1>10, <1>11, <1>12, <1>13, <1>14, <1>15, <1>16 DEF AdapterStep

LEMMA VmStepInv ==
  ASSUME IInv, TypeOK', NEW v \in Vms, VmStep(v) \/ VmPanic(v)
  PROVE  ChannelInv'
<1> USE DEF At, Goto, statusVars, adapterVars, vmVars, chanVars
<1>0. PauseInv(v) /\ AdapterInv /\ TypeOK
  BY DEF IInv, ChannelInv
<1>1. CASE VmBoot(v)
  <2>1. PICK q \in {"poll", "unreadable"} :
          /\ vpc' = [vpc EXCEPT ![v] = q]
          /\ q = "pausing" => stops[v] < MaxStops
    BY <1>1 DEF VmBoot
  <2> QED
    BY <1>1, <2>1, OutsideStep DEF VmBoot, VmPCs, InstallInterrupt
<1>2. CASE VmUnreadable(v)
  <2>1. PICK q \in {"exit"} :
          /\ vpc' = [vpc EXCEPT ![v] = q]
          /\ q = "pausing" => stops[v] < MaxStops
    BY <1>2 DEF VmUnreadable
  <2> QED
    BY <1>2, <2>1, OutsideStep DEF VmUnreadable, VmPCs
<1>3. CASE VmPoll(v)
  <2>1. PICK q \in {"run"} :
          /\ vpc' = [vpc EXCEPT ![v] = q]
          /\ q = "pausing" => stops[v] < MaxStops
    BY <1>3 DEF VmPoll
  <2> QED
    BY <1>3, <2>1, OutsideStep DEF VmPoll, VmPCs
<1>4. CASE VmInstruction(v)
  <2>1. PICK q \in {"poll", "pausing", "failed"} :
          /\ vpc' = [vpc EXCEPT ![v] = q]
          /\ q = "pausing" => stops[v] < MaxStops
    BY <1>4 DEF VmInstruction
  <2> QED
    BY <1>4, <2>1, OutsideStep DEF VmInstruction, VmPCs
<1>5. CASE VmEnd(v)
  <2>1. PICK q \in {"exit"} :
          /\ vpc' = [vpc EXCEPT ![v] = q]
          /\ q = "pausing" => stops[v] < MaxStops
    BY <1>5 DEF VmEnd
  <2> QED
    BY <1>5, <2>1, OutsideStep DEF VmEnd, VmPCs
<1>6. CASE VmFailed(v)
  <2>1. PICK q \in {"pausing", "exit"} :
          /\ vpc' = [vpc EXCEPT ![v] = q]
          /\ q = "pausing" => stops[v] < MaxStops
    BY <1>6 DEF VmFailed
  <2> QED
    BY <1>6, <2>1, OutsideStep DEF VmFailed, VmPCs
<1>7. CASE VmSendExited(v)
  <2>1. PICK q \in {"sendTerminated"} :
          /\ vpc' = [vpc EXCEPT ![v] = q]
          /\ q = "pausing" => stops[v] < MaxStops
    BY <1>7 DEF VmSendExited
  <2> QED
    BY <1>7, <2>1, OutsideStep DEF VmSendExited, VmPCs
<1>8. CASE VmAnnounce(v)
  <2>1. serving[v] = NoCommand
    BY <1>0, <1>8 DEF VmAnnounce, PauseInv
  <2>2. serving' = [serving EXCEPT ![v] = NoCommand]
    BY <1>0, <1>8, <2>1 DEF VmAnnounce, TypeOK
  <2> QED
    BY <1>8, <2>2, InsideStep DEF VmAnnounce, InPause
<1>9. CASE VmServe(v)
  BY <1>9, InsideStep DEF VmServe, InPause
<1>10. CASE VmPause(v)
  <2>1. CASE Doomed(v)
    <3>1. PICK q \in {"exit", "poll"} : vpc' = [vpc EXCEPT ![v] = q]
      BY <1>10, <2>1 DEF VmPause, AfterPause
    <3> QED
      BY <1>10, <2>1, <3>1, OutsideStep DEF VmPause, VmPCs
  <2>2. CASE ~ Doomed(v)
    <3>1. /\ state'[v] = "Paused" /\ stops'[v] = stops[v] + 1
          /\ vpc'[v] = "announce" /\ UNCHANGED <<cmds, serving>>
          /\ \A u \in Vms \ {v} : /\ state'[u] = state[u]
                                  /\ stops'[u] = stops[u]
                                  /\ vpc'[u] = vpc[u]
      BY <1>0, <1>10, <2>2 DEF VmPause, MarkPaused, SetState, TypeOK,
         StatusTypeOK
    <3>2. /\ vpc[v] = "pausing" /\ state[v] # "Paused" /\ cmds[v] = <<>>
          /\ serving[v] = NoCommand /\ stops[v] < MaxStops /\ stops[v] \in Nat
      BY <1>0, <1>10 DEF VmPause, PauseInv, InPause, TypeOK
    <3>3. PauseInv(v)'
      BY <1>0, <1>10, <3>1, <3>2 DEF VmPause, PauseInv, ResumeQueued, InPause
    <3>4. ~ (apc \in {"asking", "beginning", "sending"} /\ v = cur)
      BY <1>0, <3>2 DEF AdapterInv, InPause
    <3> QED
      BY <1>10, <3>1, <3>2, <3>3, <3>4, VmFrame DEF VmPause
  <2> QED
    BY <2>1, <2>2
<1>11. CASE VmReceive(v)
  <2>1. /\ cmds[v] # <<>> /\ cmds[v] \in Seq(Commands) /\ vpc[v] = "listen"
        /\ vpc'[v] = IF Head(cmds[v]).kind = "resume" THEN "resuming"
                                                      ELSE "serve"
        /\ cmds'[v] = Tail(cmds[v]) /\ serving'[v] = Head(cmds[v])
        /\ UNCHANGED <<state, stops>>
        /\ \A u \in Vms \ {v} : /\ cmds'[u] = cmds[u]
                                /\ serving'[u] = serving[u]
                                /\ vpc'[u] = vpc[u]
    <3>1. cmds[v] # <<>> /\ cmds[v] \in Seq(Commands) /\ vpc[v] = "listen"
      BY <1>0, <1>11 DEF VmReceive, TypeOK, At
    <3>2. /\ vpc' = [vpc EXCEPT ![v] = IF Head(cmds[v]).kind = "resume"
                                       THEN "resuming" ELSE "serve"]
          /\ cmds' = [cmds EXCEPT ![v] = Tail(cmds[v])]
          /\ serving' = [serving EXCEPT ![v] = Head(cmds[v])]
          /\ UNCHANGED <<state, stops>>
      BY <1>11, <3>1 DEF VmReceive, Goto, statusVars
    <3>3. v \in Vms /\ vpc \in [Vms -> VmPCs] /\ cmds \in [Vms -> Seq(Commands)]
          /\ serving \in [Vms -> Commands \cup {NoCommand}]
      BY <1>0 DEF TypeOK
    <3> HIDE DEF Vms, Commands, VmPCs
    <3> QED
      BY ONLY <3>1, <3>2, <3>3
  <2>2. /\ Len(cmds[v]) \in Nat \ {0} /\ Head(cmds[v]) = cmds[v][1]
        /\ Len(cmds'[v]) = Len(cmds[v]) - 1
        /\ \A i \in 1..Len(cmds'[v]) : cmds'[v][i] = cmds[v][i + 1]
    BY <2>1
  <2>3. \A i \in 1..Len(cmds'[v]) :
          /\ cmds'[v][i].stop = stops[v]
          /\ cmds'[v][i].kind = "resume" => i = Len(cmds'[v])
    <3>1. \A i \in 1..Len(cmds[v]) :
            /\ cmds[v][i].stop = stops[v]
            /\ cmds[v][i].kind = "resume" => i = Len(cmds[v])
      BY <1>0 DEF PauseInv
    <3>2. \A i \in 1..Len(cmds'[v]) : i \in Nat /\ i + 1 \in 1..Len(cmds[v])
      BY <2>2
    <3> QED
      BY ONLY <2>2, <3>1, <3>2
  <2>4. Head(cmds[v]).kind = "resume" =>
          /\ ResumeQueued(v) /\ cmds'[v] = <<>>
    <3>1. ASSUME Head(cmds[v]).kind = "resume"
          PROVE  ResumeQueued(v) /\ Len(cmds[v]) = 1
      <4>1. 1 \in 1..Len(cmds[v]) /\ cmds[v][1].kind = "resume"
        BY <2>2, <3>1
      <4>2. \A i \in 1..Len(cmds[v]) :
              cmds[v][i].kind = "resume" => i = Len(cmds[v])
        BY <1>0 DEF PauseInv
      <4> QED
        BY ONLY <4>1, <4>2 DEF ResumeQueued
    <3>2. cmds'[v] \in Seq(Commands)
      BY <2>1
    <3>3. Len(cmds[v]) = 1 => cmds'[v] = <<>>
      BY <2>2, <3>2
    <3> QED
      BY <3>1, <3>3
  <2>5. Head(cmds[v]).stop = stops[v]
    BY <1>0, <2>2 DEF PauseInv
  <2>6. ~ ResumeQueued(v) => ~ ResumeQueued(v)'
    BY <2>2 DEF ResumeQueued
  <2>7. PauseInv(v)'
    <3>1. UNCHANGED <<attached, cur>>
      BY <1>11 DEF VmReceive
    <3> QED
      BY <1>0, <2>1, <2>3, <2>4, <2>5, <2>6, <3>1 DEF PauseInv, InPause
  <2>8. apc \in {"asking", "beginning", "sending"} /\ v = cur
        => ~ ResumeQueued(v)
    BY <1>0 DEF AdapterInv, PauseInv
  <2>9. apc \in {"asking", "beginning", "sending"} /\ v = cur => InPause(v)'
    BY <2>1, <2>4, <2>8 DEF InPause
  <2> QED
    BY <1>11, <2>1, <2>6, <2>7, <2>9, VmFrame DEF VmReceive
<1>12. CASE VmDetached(v)
  <2>1. /\ vpc[v] = "listen" /\ cmds[v] = <<>> /\ ~ attached[v]
        /\ vpc'[v] = "resuming"
        /\ UNCHANGED <<state, stops, cmds, serving, attached, cur>>
        /\ \A u \in Vms \ {v} : vpc'[u] = vpc[u]
    BY <1>0, <1>12 DEF VmDetached, TypeOK
  <2>2. PauseInv(v)'
    BY <1>0, <2>1 DEF PauseInv, ResumeQueued, InPause
  <2>3. ~ (apc \in {"asking", "beginning", "sending"} /\ v = cur)
    BY <1>0, <2>1 DEF AdapterInv
  <2> QED
    BY <1>12, <2>1, <2>2, <2>3, VmFrame DEF VmDetached
<1>13. CASE VmResume(v)
  <2>1. /\ vpc[v] = "resuming" /\ vpc'[v] \in {"exit", "poll"}
        /\ state'[v] # "Paused" /\ serving'[v] = NoCommand
        /\ UNCHANGED <<stops, cmds, attached, cur>>
        /\ \A u \in Vms \ {v} : /\ state'[u] = state[u]
                                /\ vpc'[u] = vpc[u]
                                /\ serving'[u] = serving[u]
    BY <1>0, <1>13 DEF VmResume, MarkRunning, SetState, Doomed, AfterPause,
       TypeOK, StatusTypeOK
  <2>2. cmds[v] = <<>>
    BY <1>0, <2>1 DEF PauseInv, InPause
  <2>3. PauseInv(v)'
    BY <1>0, <2>1, <2>2 DEF PauseInv, ResumeQueued, InPause
  <2>4. ~ (apc \in {"asking", "beginning", "sending"} /\ v = cur)
    BY <1>0, <2>1 DEF AdapterInv, PauseInv, InPause
  <2> QED
    BY <1>13, <2>1, <2>3, <2>4, VmFrame DEF VmResume
<1>14. CASE VmExit(v)
  <2>1. /\ vpc[v] = "exit" /\ vpc'[v] = "sendExited" /\ state'[v] = "Exited"
        /\ UNCHANGED <<stops, cmds, serving, attached, cur>>
        /\ \A u \in Vms \ {v} : state'[u] = state[u] /\ vpc'[u] = vpc[u]
    BY <1>0, <1>14 DEF VmExit, SetState, TypeOK, StatusTypeOK
  <2>2. PauseInv(v)'
    BY <1>0, <2>1 DEF PauseInv, ResumeQueued, InPause
  <2>3. ~ (apc \in {"asking", "beginning", "sending"} /\ v = cur)
    BY <1>0, <2>1 DEF AdapterInv, PauseInv, InPause
  <2> QED
    BY <1>14, <2>1, <2>2, <2>3, VmFrame DEF VmExit
<1>15. CASE VmSendTerminated(v)
  <2>1. /\ vpc[v] = "sendTerminated" /\ vpc'[v] = "gone" /\ cmds'[v] = <<>>
        /\ UNCHANGED <<state, stops, serving, attached, cur>>
        /\ \A u \in Vms \ {v} : cmds'[u] = cmds[u] /\ vpc'[u] = vpc[u]
    BY <1>0, <1>15 DEF VmSendTerminated, TypeOK
  <2>2. PauseInv(v)'
    BY <1>0, <2>1 DEF PauseInv, ResumeQueued, InPause
  <2>3. ~ (apc \in {"asking", "beginning", "sending"} /\ v = cur)
    BY <1>0, <2>1 DEF AdapterInv, PauseInv, InPause
  <2> QED
    BY <1>15, <2>1, <2>2, <2>3, VmFrame DEF VmSendTerminated
<1>16. CASE VmPanic(v)
  <2>1. /\ vpc[v] # "none" /\ vpc'[v] = "panicked" /\ cmds'[v] = <<>>
        /\ serving'[v] = NoCommand
        /\ UNCHANGED <<state, stops, attached, cur>>
        /\ \A u \in Vms \ {v} : /\ cmds'[u] = cmds[u] /\ vpc'[u] = vpc[u]
                                /\ serving'[u] = serving[u]
    BY <1>0, <1>16 DEF VmPanic, TypeOK
  <2>2. PauseInv(v)' /\ ~ ResumeQueued(v)'
    BY <1>0, <2>1 DEF PauseInv, ResumeQueued, InPause
  <2> QED
    BY <1>16, <2>1, <2>2, VmFrame DEF VmPanic
<1> QED
  BY <1>1, <1>2, <1>3, <1>4, <1>5, <1>6, <1>7, <1>8, <1>9, <1>10, <1>11, <1>12, <1>13, <1>14, <1>15, <1>16 DEF VmStep

LEMMA ChannelStep == IInv /\ [Next]_vars => ChannelInv'
<1> SUFFICES ASSUME IInv, [Next]_vars PROVE ChannelInv'
  OBVIOUS
<1> USE DEF statusVars, adapterVars, vmVars, chanVars
<1>0. TypeOK' /\ AdapterInv /\ \A u \in Vms : PauseInv(u)
  BY TypeStep DEF IInv, ChannelInv
<1>q. ASSUME UNCHANGED <<state, vmVars, cmds, attached, cur>>
      PROVE  \A u \in Vms : PauseInv(u)'
  BY <1>0, <1>q, PauseFrame
<1>1. ASSUME NEW k \in ClientKinds, ReadRequest(k) PROVE ChannelInv'
  <2>1. AdapterInv'
    BY <1>0, <1>1 DEF ReadRequest, AGoto, Connected, AdapterInv, IInv, TypeOK
  <2> QED
    BY <1>1, <1>q, <2>1 DEF ReadRequest, ChannelInv
<1>2. CASE EndOfInput
  <2>1. AdapterInv'
    BY <1>0, <1>2 DEF EndOfInput, AGoto, AdapterInv
  <2> QED
    BY <1>2, <1>q, <2>1 DEF EndOfInput, ChannelInv
<1>3. CASE AdapterStep
  BY <1>0, <1>3, AdapterStepInv
<1>4. CASE ForwarderTake \/ ForwarderWrite \/ UNCHANGED vars
  <2>1. /\ UNCHANGED <<apc, req, cur, attached, state, stops, vpc, cmds>>
        /\ UNCHANGED vmVars
    BY <1>4 DEF ForwarderTake, ForwarderWrite, vars
  <2>2. AdapterInv'
    BY <1>0, <2>1 DEF AdapterInv, ResumeQueued, InPause
  <2> QED
    BY <1>q, <2>1, <2>2 DEF ChannelInv
<1>5. ASSUME NEW v \in Vms, VmStep(v) \/ VmPanic(v) PROVE ChannelInv'
  BY <1>0, <1>5, VmStepInv
<1> QED
  BY <1>1, <1>2, <1>3, <1>4, <1>5 DEF Next

-----------------------------------------------------------------------------
(* Theorems *)

\* Every reachable state of `wq dap` is well typed and satisfies the channel
\* invariant.
THEOREM InvariantTheorem == Spec => []IInv
<1>1. IInv /\ [Next]_vars => IInv'
  BY TypeStep, ChannelStep DEF IInv
<1> QED
  BY InitInv, <1>1, PTL DEF Spec

\* The variables of the threads and channels keep their types (no index into a
\* launch that was not made, no command without its stop).
THEOREM TypeTheorem == Spec => []TypeOK
<1>1. IInv => TypeOK
  BY DEF IInv
<1> QED
  BY InvariantTheorem, <1>1, PTL

\* Between wait_until_paused and the send, and while commands are queued, the
\* VM thread is in the pause the adapter saw.
THEOREM ChannelTheorem == Spec => []ChannelInv
<1>1. IInv => ChannelInv
  BY DEF IInv
<1> QED
  BY InvariantTheorem, <1>1, PTL

\* wait_until_paused keeps its word: no command is served in a stop later than
\* the one its request saw.
THEOREM NoStaleCommandTheorem == Spec => []NoStaleCommand
<1>1. IInv => NoStaleCommand
  BY DEF IInv, ChannelInv, PauseInv, InPause, NoStaleCommand
<1> QED
  BY InvariantTheorem, <1>1, PTL
-----------------------------------------------------------------------------
(* `wq dap` implements DebuggeeLifecycle: what the threads do to the       *)
(* status of a debuggee, step by step, follows from the invariant above.   *)
(* StatusStep lists the moves; the action properties and the refinement    *)
(* are read off it.                                                        *)

\* A VM inside a pause has left the state it was launched in.  (mark_paused
\* comes first, and nothing sets Starting again.)
StartedInv ==
  \A v \in Vms :
    vpc[v] \in {"announce", "listen", "serve", "resuming"} => state[v] # "Starting"

-----------------------------------------------------------------------------
(* What a step may do to the status of launch v. *)

Stops(v) ==
  /\ vpc[v] = "pausing" /\ ~ Doomed(v)
  /\ state' = [state EXCEPT ![v] = "Paused"]

ClientResumes(v) ==
  /\ apc = "beginning" /\ req.kind = "resume" /\ cur = v
  /\ state[v] = "Paused"
  /\ state' = [state EXCEPT ![v] = "Running"]

VmResumes(v) ==
  /\ vpc[v] = "resuming" /\ ~ Doomed(v)
  /\ state' = [state EXCEPT ![v] = "Running"]

Terminates(v) ==
  /\ state[v] # "Exited"
  /\ state' = [state EXCEPT ![v] = "Terminating"]

Exits(v) ==
  /\ state[v] # "Paused"
  /\ state' = [state EXCEPT ![v] = "Exited"]

Moves(v) ==
  Stops(v) \/ ClientResumes(v) \/ VmResumes(v) \/ Terminates(v) \/ Exits(v)

LEMMA AdapterMoves ==
  ASSUME IInv, AdapterStep
  PROVE  \/ state' = state
         \/ apc' # "quit" /\ \E v \in Vms : Moves(v)
<1> USE DEF statusVars, AGoto
<1>0. /\ AdapterInv
      /\ \A u \in Vms : PauseInv(u)
      /\ cur \in 0..MaxLaunch
      /\ state \in [Vms -> VmState]
  BY DEF IInv, ChannelInv, TypeOK, StatusTypeOK
<1>1. CASE BeginResumeOf
  <2>1. CASE state[cur] = "Paused"
    <3>1. cur \in Vms /\ req.kind = "resume"
      BY <1>0, <1>1 DEF BeginResumeOf, AdapterInv, Vms
    <3>2. ClientResumes(cur) /\ apc' # "quit"
      BY <1>1, <2>1, <3>1 DEF BeginResumeOf, BeginResume, SetState, ClientResumes
    <3> QED
      BY <3>1, <3>2 DEF Moves
  <2>2. CASE state[cur] # "Paused"
    BY <1>1, <2>2 DEF BeginResumeOf
  <2> QED
    BY <2>1, <2>2
<1>2. CASE SendResume
  <2>1. CASE ReceiverAlive(cur)
    BY <1>2, <2>1 DEF SendResume
  <2>2. CASE ~ ReceiverAlive(cur)
    <3>1. cur \in Vms /\ state[cur] = "Running"
      BY <1>0, <1>2 DEF SendResume, AdapterInv, Vms
    <3>2. Exits(cur) /\ apc' # "quit"
      BY <1>2, <2>2, <3>1 DEF SendResume, SetState, Exits
    <3> QED
      BY <3>1, <3>2 DEF Moves
  <2> QED
    BY <2>1, <2>2
<1>3. CASE TerminateVm
  <2>1. CASE state[cur] = "Exited"
    BY <1>3, <2>1 DEF TerminateVm, RequestTerminate
  <2>2. CASE state[cur] # "Exited"
    <3>1. cur \in Vms
      BY <1>0, <1>3 DEF TerminateVm, AdapterInv, Vms
    <3>2. Terminates(cur) /\ apc' # "quit"
      BY <1>3, <2>2 DEF TerminateVm, RequestTerminate, Terminates
    <3> QED
      BY <3>1, <3>2 DEF Moves
  <2> QED
    BY <2>1, <2>2
<1>4. CASE \/ LaunchReplace \/ LaunchRespond \/ LaunchAnnounce \/ LaunchSpawn
           \/ WaitUntilPaused \/ WaitTimesOut \/ Refuse \/ AskVm
           \/ ReceiveReply \/ ReplyTimesOut \/ DropSender \/ Respond \/ Greet
  BY <1>4 DEF LaunchReplace, LaunchRespond, LaunchAnnounce, LaunchSpawn,
    WaitUntilPaused, WaitTimesOut, Refuse, AskVm, ReceiveReply, ReplyTimesOut,
    DropSender, Respond, Greet
<1> QED
  BY <1>1, <1>2, <1>3, <1>4 DEF AdapterStep

LEMMA VmMoves ==
  ASSUME IInv, NEW v \in Vms, VmStep(v) \/ VmPanic(v)
  PROVE  /\ apc' = apc /\ apc # "quit"
         /\ state' = state \/ Moves(v)
<1> USE DEF statusVars, adapterVars, At
<1>0. PauseInv(v) /\ state \in [Vms -> VmState]
  BY DEF IInv, ChannelInv, TypeOK, StatusTypeOK
<1>1. CASE VmPause(v)
  <2>1. CASE Doomed(v)
    BY <1>1, <2>1 DEF VmPause
  <2>2. CASE ~ Doomed(v)
    BY <1>1, <2>2 DEF VmPause, MarkPaused, SetState, Stops, Moves
  <2> QED
    BY <2>1, <2>2
<1>2. CASE VmResume(v)
  <2>1. CASE Doomed(v)
    BY <1>0, <1>2, <2>1 DEF VmResume, MarkRunning, SetState
  <2>2. CASE ~ Doomed(v)
    BY <1>2, <2>2 DEF VmResume, MarkRunning, SetState, VmResumes, Moves
  <2> QED
    BY <2>1, <2>2
<1>3. CASE VmExit(v)
  <2>1. state[v] # "Paused"
    BY <1>0, <1>3 DEF VmExit, PauseInv, InPause
  <2> QED
    BY <1>3, <2>1 DEF VmExit, SetState, Exits, Moves
<1>4. CASE VmBoot(v) \/ VmPoll(v)
  BY <1>4 DEF VmBoot, VmPoll, InstallInterrupt
<1>5. CASE \/ VmUnreadable(v) \/ VmInstruction(v) \/ VmEnd(v) \/ VmFailed(v)
           \/ VmAnnounce(v) \/ VmReceive(v) \/ VmDetached(v) \/ VmServe(v)
           \/ VmSendExited(v) \/ VmSendTerminated(v) \/ VmPanic(v)
  BY <1>5 DEF VmUnreadable, VmInstruction, VmEnd, VmFailed, VmAnnounce,
    VmReceive, VmDetached, VmServe, VmSendExited, VmSendTerminated, VmPanic
<1> QED
  BY <1>1, <1>2, <1>3, <1>4, <1>5 DEF VmStep

LEMMA StatusStep ==
  ASSUME IInv, [Next]_vars
  PROVE  /\ apc = "quit" => apc' = "quit" /\ state' = state
         /\ state' = state \/ (apc' # "quit" /\ \E v \in Vms : Moves(v))
<1>1. ASSUME NEW k \in ClientKinds, ReadRequest(k)
      PROVE  apc # "quit" /\ state' = state
  BY <1>1 DEF ReadRequest, statusVars
<1>2. CASE EndOfInput
  BY <1>2 DEF EndOfInput, AGoto, statusVars
<1>3. CASE AdapterStep
  <2>1. apc # "quit"
    BY <1>3 DEF AdapterStep, LaunchReplace, LaunchRespond, LaunchAnnounce,
      LaunchSpawn, WaitUntilPaused, WaitTimesOut, Refuse, AskVm, ReceiveReply,
      ReplyTimesOut, BeginResumeOf, SendResume, TerminateVm, DropSender,
      Respond, Greet
  <2> QED
    BY <1>3, <2>1, AdapterMoves
<1>4. CASE ForwarderTake \/ ForwarderWrite
  BY <1>4 DEF ForwarderTake, ForwarderWrite, statusVars
<1>5. ASSUME NEW v \in Vms, VmStep(v) \/ VmPanic(v)
      PROVE  apc # "quit" /\ apc' = apc /\ (state' = state \/ Moves(v))
  BY <1>5, VmMoves
<1>6. CASE UNCHANGED vars
  BY <1>6 DEF vars, statusVars, adapterVars
<1> QED
  BY <1>1, <1>2, <1>3, <1>4, <1>5, <1>6 DEF Next

-----------------------------------------------------------------------------
(* Starting is left for good. *)

InStop(v) == vpc[v] \in {"announce", "listen", "serve", "resuming"}

\* A VM thread gets into a stop by marking it.
LEMMA StopEntered ==
  ASSUME IInv, [Next]_vars, NEW v \in Vms, InStop(v)'
  PROVE  InStop(v) \/ state'[v] = "Paused"
<1> USE DEF InStop, vmVars
<1>0. vpc \in [Vms -> VmPCs] /\ state \in [Vms -> VmState]
  BY DEF IInv, TypeOK, StatusTypeOK
<1>1. CASE UNCHANGED vpc
  BY <1>1
<1>2. CASE LaunchSpawn
  BY <1>0, <1>2 DEF LaunchSpawn
<1>3. ASSUME NEW u \in Vms, VmStep(u) \/ VmPanic(u)
      PROVE  InStop(v) \/ state'[v] = "Paused"
  <2> USE DEF Goto
  <2>1. CASE u # v
    <3>1. vpc'[v] = vpc[v]
      BY <1>0, <1>3, <2>1 DEF VmStep, VmBoot, VmUnreadable, VmPoll,
        VmInstruction, VmEnd, VmFailed, VmPause, VmAnnounce, VmReceive,
        VmDetached, VmServe, VmResume, VmExit, VmSendExited, VmSendTerminated,
        VmPanic
    <3> QED
      BY <3>1
  <2>2. CASE u = v /\ VmPause(v)
    BY <1>0, <2>2 DEF VmPause, MarkPaused, SetState, AfterPause
  <2>3. CASE u = v /\ (VmAnnounce(v) \/ VmReceive(v) \/ VmDetached(v) \/ VmServe(v))
    BY <2>3 DEF VmAnnounce, VmReceive, VmDetached, VmServe, At
  <2>4. CASE /\ u = v
             /\ \/ VmBoot(v) \/ VmUnreadable(v) \/ VmPoll(v) \/ VmInstruction(v)
                \/ VmEnd(v) \/ VmFailed(v) \/ VmResume(v) \/ VmExit(v)
                \/ VmSendExited(v) \/ VmSendTerminated(v) \/ VmPanic(v)
    BY <1>0, <2>4 DEF VmBoot, VmUnreadable, VmPoll, VmInstruction, VmEnd,
      VmFailed, VmResume, VmExit, VmSendExited, VmSendTerminated, VmPanic,
      AfterPause
  <2> QED
    BY <1>3, <2>1, <2>2, <2>3, <2>4 DEF VmStep
<1>4. CASE AdapterStep /\ ~ LaunchSpawn
  BY <1>1, <1>4 DEF AdapterStep, LaunchReplace, LaunchRespond, LaunchAnnounce,
    WaitUntilPaused, WaitTimesOut, Refuse, AskVm, ReceiveReply, ReplyTimesOut,
    BeginResumeOf, SendResume, TerminateVm, DropSender, Respond, Greet
<1>5. ASSUME NEW k \in ClientKinds, ReadRequest(k) PROVE UNCHANGED vpc
  BY <1>5 DEF ReadRequest
<1>6. CASE EndOfInput \/ ForwarderTake \/ ForwarderWrite \/ UNCHANGED vars
  BY <1>1, <1>6 DEF EndOfInput, ForwarderTake, ForwarderWrite, vars
<1> QED
  BY <1>1, <1>2, <1>3, <1>4, <1>5, <1>6 DEF Next

LEMMA StartedStep == IInv /\ StartedInv /\ [Next]_vars => StartedInv'
<1> SUFFICES ASSUME IInv, StartedInv, [Next]_vars,
                    NEW v \in Vms, InStop(v)', state'[v] = "Starting"
             PROVE  FALSE
  BY DEF StartedInv, InStop
<1>1. InStop(v)
  BY StopEntered
<1>2. state[v] # "Starting" /\ state \in [Vms -> VmState]
  BY <1>1 DEF StartedInv, InStop, IInv, TypeOK, StatusTypeOK
<1>3. PICK u \in Vms : Moves(u)
  BY <1>2, StatusStep
<1> QED
  BY <1>2, <1>3 DEF Moves, Stops, ClientResumes, VmResumes, Terminates, Exits

LEMMA Invariants == Spec => [](IInv /\ StartedInv)
<1>1. Init => IInv /\ StartedInv
  BY InitInv DEF Init, StartedInv
<1>2. IInv /\ StartedInv /\ [Next]_vars => (IInv /\ StartedInv)'
  BY TypeStep, ChannelStep, StartedStep DEF IInv
<1> QED
  BY <1>1, <1>2, PTL DEF Spec

-----------------------------------------------------------------------------
(* Theorems *)

\* No thread takes a terminating debuggee back to Paused or Running, or an
\* exited one anywhere (request_terminate against mark_paused, mark_running
\* and begin_resume, in every order).
THEOREM DoomTheorem == Spec => DoomSticks
<1>1. ASSUME IInv, [Next]_vars, NEW v \in Vms
      PROVE  /\ Doomed(v) => state'[v] \in {"Terminating", "Exited"}
             /\ state[v] = "Exited" => state'[v] = "Exited"
  <2>1. state \in [Vms -> VmState]
    BY <1>1 DEF IInv, TypeOK, StatusTypeOK
  <2>2. CASE state' = state
    BY <2>2 DEF Doomed
  <2>3. ASSUME NEW u \in Vms, Moves(u)
        PROVE  /\ Doomed(v) => state'[v] \in {"Terminating", "Exited"}
               /\ state[v] = "Exited" => state'[v] = "Exited"
    BY <2>1, <2>3 DEF Moves, Stops, ClientResumes, VmResumes, Terminates,
      Exits, Doomed
  <2> QED
    BY <1>1, <2>2, <2>3, StatusStep
<1>2. IInv /\ [Next]_vars =>
        [\A v \in Vms :
           /\ Doomed(v) => state'[v] \in {"Terminating", "Exited"}
           /\ state[v] = "Exited" => state'[v] = "Exited"]_vars
  BY <1>1
<1> QED
  BY <1>2, InvariantTheorem, PTL DEF Spec, DoomSticks

\* A stop ends when the client resumes it, or, once nobody can, by the VM
\* thread itself (begin_resume before the command is sent, and the closed
\* channel).
THEOREM ResumeTheorem == Spec => OnlyClientResumes
<1>1. ASSUME IInv, [Next]_vars, NEW v \in Vms,
             state[v] = "Paused", state'[v] = "Running"
      PROVE  (apc = "beginning" /\ req.kind = "resume" /\ cur = v) \/ ~ attached[v]
  <2>1. PauseInv(v) /\ state \in [Vms -> VmState]
    BY <1>1 DEF IInv, ChannelInv, TypeOK, StatusTypeOK
  <2>2. PICK u \in Vms : Moves(u)
    BY <1>1, StatusStep
  <2>3. u = v
    BY <1>1, <2>1, <2>2 DEF Moves, Stops, ClientResumes, VmResumes, Terminates, Exits
  <2>4. ClientResumes(v) \/ VmResumes(v)
    BY <1>1, <2>1, <2>2, <2>3 DEF Moves, Stops, Terminates, Exits
  <2>5. CASE VmResumes(v)
    BY <1>1, <2>1, <2>5 DEF VmResumes, PauseInv, InPause
  <2> QED
    BY <2>4, <2>5 DEF ClientResumes
<1>2. IInv /\ [Next]_vars =>
        [\A v \in Vms :
           state[v] = "Paused" /\ state'[v] = "Running"
           => (apc = "beginning" /\ req.kind = "resume" /\ cur = v)
              \/ ~ attached[v]]_vars
  BY <1>1
<1> QED
  BY <1>2, InvariantTheorem, PTL DEF Spec, OnlyClientResumes

\* The threads of `wq dap` implement the lifecycle of a debuggee: every step
\* is a move of it or leaves it alone (dap/thread.rs, VmStatus).
THEOREM LifecycleTheorem == Spec => LifecycleSpec
<1>1. Init => Lifecycle!Init
  BY DEF Init, StatusInit, Lifecycle!Init
<1>2. ASSUME IInv, StartedInv, [Next]_vars
      PROVE  [Lifecycle!Next]_([v \in Vms |-> IF apc = "quit" THEN "Killed" ELSE state[v]])
  <2>0. state \in [Vms -> VmState] /\ \A v \in Vms : PauseInv(v)
    BY <1>2 DEF IInv, ChannelInv, TypeOK, StatusTypeOK
  <2>1. CASE apc = "quit"
    <3>1. apc' = "quit"
      BY <1>2, <2>1, StatusStep
    <3> QED
      BY <2>1, <3>1
  <2>2. CASE apc # "quit" /\ apc' = "quit"
    BY <2>2 DEF Lifecycle!Next, Lifecycle!Kill
  <2>3. CASE apc # "quit" /\ apc' # "quit" /\ state' = state
    BY <2>3
  <2>4. ASSUME apc # "quit", apc' # "quit", NEW u \in Vms, Moves(u), state' # state
        PROVE  Lifecycle!Next
    <3> DEFINE P == [v \in Vms |-> IF apc = "quit" THEN "Killed" ELSE state[v]]
    <3>1. P = state /\ P' = state'
      BY <2>0, <2>4 DEF Moves, Stops, ClientResumes, VmResumes, Terminates, Exits
    <3>2. CASE Stops(u)
      <4>1. state[u] \in {"Starting", "Running"}
        BY <2>0, <3>2 DEF Stops, Doomed, PauseInv, InPause, VmState
      <4> QED
        BY <3>1, <3>2, <4>1 DEF Stops, Lifecycle!Next, Lifecycle!Stop, Lifecycle!Move
    <3>3. CASE ClientResumes(u)
      BY <3>1, <3>3 DEF ClientResumes, Lifecycle!Next, Lifecycle!Resume, Lifecycle!Move
    <3>4. CASE VmResumes(u)
      <4>1. state[u] = "Paused"
        BY <1>2, <2>0, <2>4, <3>4 DEF VmResumes, Doomed, StartedInv, VmState
      <4> QED
        BY <3>1, <3>4, <4>1 DEF VmResumes, Lifecycle!Next, Lifecycle!Resume, Lifecycle!Move
    <3>5. CASE Terminates(u)
      <4>1. state[u] \in {"Starting", "Paused", "Running"}
        BY <2>0, <2>4, <3>5 DEF Terminates, VmState
      <4> QED
        BY <3>1, <3>5, <4>1 DEF Terminates, Lifecycle!Next, Lifecycle!Terminate, Lifecycle!Move
    <3>6. CASE Exits(u)
      <4>1. state[u] \in {"Starting", "Running", "Terminating"}
        BY <2>0, <2>4, <3>6 DEF Exits, VmState
      <4> QED
        BY <3>1, <3>6, <4>1 DEF Exits, Lifecycle!Next, Lifecycle!Exit, Lifecycle!Move
    <3> QED
      BY <2>4, <3>2, <3>3, <3>4, <3>5, <3>6 DEF Moves
  <2> QED
    BY <1>2, <2>1, <2>2, <2>3, <2>4, StatusStep
<1>3. IInv /\ StartedInv /\ [Next]_vars
        => [Lifecycle!Next]_([v \in Vms |-> IF apc = "quit" THEN "Killed" ELSE state[v]])
  BY <1>2
<1> QED
  BY <1>1, <1>3, Invariants, PTL DEF Spec, LifecycleSpec, Lifecycle!Spec

-----------------------------------------------------------------------------
(***************************************************************************)
(* What the client sees, and in which order.  Three invariants are added:  *)
(* which stops still stand, what has been told of a launch before its VM   *)
(* may say anything, and what an exit that is queued, held by the          *)
(* forwarder or written leaves to be said.                                 *)
(***************************************************************************)
(* Stops that stand *)

\* The client may still work with the last stop of v: it has neither resumed it
\* nor left the debuggee.
Standing(v) == attached[v] /\ resumed[v] < stops[v]

\* Such a stop is one the VM thread is in, or has panicked in.
StandingInv ==
  /\ \A v \in Vms :
       /\ resumed[v] <= stops[v]
       /\ vpc[v] = "none" => stops[v] = 0
       /\ Standing(v) => /\ InPause(v) \/ vpc[v] = "panicked"
                         /\ state[v] \in {"Paused", "Terminating"}
       /\ ResumeQueued(v) => ~ Standing(v)
  /\ apc = "sending" => ~ Standing(cur)

-----------------------------------------------------------------------------
(* Launches *)

EventsOfVms == {"output", "breakpoint", "stopped", "exited", "terminated"}

\* The client has the response to the launch of v.
Answered(v) ==
  \E j \in 1..Len(wire) :
    wire[j].type = "response" /\ wire[j].kind = "launch" /\ wire[j].vm = v

\* And after it the Process event.
Announced(v) ==
  \E j, k \in 1..Len(wire) :
    /\ j < k
    /\ wire[j].type = "response" /\ wire[j].kind = "launch" /\ wire[j].vm = v
    /\ wire[k].type = "process" /\ wire[k].vm = v

\* The events in s are of VMs that were spawned.
OfSpawned(s) ==
  \A i \in 1..Len(s) :
    s[i].type \in EventsOfVms /\ s[i].vm \in Vms /\ vpc[s[i].vm] # "none"

WrittenOfVms ==
  \A i \in 1..Len(wire) : wire[i].type \in EventsOfVms => wire[i].vm \in Vms

LaunchInv ==
  /\ apc \in {"launching", "launchResponding"} => req.kind = "launch"
  /\ apc = "announcing" => Answered(cur)
  /\ apc = "spawning" => Announced(cur)
  /\ \A v \in Vms : vpc[v] # "none" => Announced(v)
  /\ OfSpawned(evq) /\ OfSpawned(fwd)
  /\ WrittenOfVms
  /\ Len(fwd) <= 1
  /\ LaunchComesFirst

-----------------------------------------------------------------------------
(* Exits *)

\* An exit in s is of a VM thread that has nothing but Terminated to send.
ExitsAreLast(s) ==
  \A i \in 1..Len(s) :
    s[i].type = "exited" => s[i].vm \in Vms /\ vpc[s[i].vm] \in {"sendTerminated", "gone"}

\* What t says of a VM whose exit is in s.
OnlyTerminated(s, t) ==
  \A i \in 1..Len(s), j \in 1..Len(t) :
    s[i].type = "exited" /\ t[j].vm = s[i].vm => t[j].type = "terminated"

ExitInv ==
  /\ ExitsAreLast(wire) /\ ExitsAreLast(fwd) /\ ExitsAreLast(evq)
  /\ OnlyTerminated(wire, fwd) /\ OnlyTerminated(wire, evq) /\ OnlyTerminated(fwd, evq)
  /\ \A i, j \in 1..Len(evq) :
       i < j /\ evq[i].type = "exited" /\ evq[j].vm = evq[i].vm => evq[j].type = "terminated"
  /\ NothingAfterExit

\* A query that is answered is one about a VM that is still paused.
QueryInv ==
  /\ apc \in {"waiting", "refusing", "asking", "receiving"} /\ req.kind = "query" => ~ result
  /\ apc = "receiving" \/ (apc = "responding" /\ req.kind = "query" /\ result)
       => cur \in Vms /\ attached[cur] /\ state[cur] = "Paused"
  /\ apc \in {"terminating", "dropping"} => req.kind # "query"

-----------------------------------------------------------------------------
(* Standing stops: one lemma per way a step can touch one. *)

\* A step that leaves the threads where they are.
LEMMA StandingFrame ==
  ASSUME StandingInv, UNCHANGED <<state, vpc, attached, resumed, stops, cmds, cur>>,
         apc' = "sending" => apc = "sending"
  PROVE  StandingInv'
  BY DEF StandingInv, Standing, InPause, ResumeQueued

\* A step of a VM thread that is not in a pause: it has no standing stop.
LEMMA StandingOutside ==
  ASSUME IInv, StandingInv, NEW v \in Vms, NEW pc,
         ~ InPause(v), vpc[v] \notin {"none", "panicked"}, pc # "none",
         vpc' = [vpc EXCEPT ![v] = pc],
         cmds' = cmds \/ cmds' = [cmds EXCEPT ![v] = <<>>],
         \A u \in Vms : u # v => state'[u] = state[u],
         UNCHANGED <<attached, resumed, stops, apc, cur>>
  PROVE  StandingInv'
<1>1. ~ Standing(v) /\ ~ Standing(v)'
  BY DEF StandingInv, Standing
<1>2. ASSUME NEW u \in Vms, u # v
      PROVE  vpc'[u] = vpc[u] /\ cmds'[u] = cmds[u] /\ state'[u] = state[u]
  BY <1>2 DEF IInv, TypeOK
<1>3. vpc'[v] = pc
  BY DEF IInv, TypeOK
<1>4. apc' = "sending" => ~ Standing(cur)'
  BY DEF StandingInv, Standing
<1>5. ASSUME NEW u \in Vms
      PROVE  /\ resumed'[u] <= stops'[u]
             /\ vpc'[u] = "none" => stops'[u] = 0
             /\ Standing(u)' => /\ InPause(u)' \/ vpc'[u] = "panicked"
                                /\ state'[u] \in {"Paused", "Terminating"}
             /\ ResumeQueued(u)' => ~ Standing(u)'
  <2>1. CASE u = v
    BY <1>1, <1>3, <2>1 DEF StandingInv
  <2>2. CASE u # v
    BY <1>2, <2>2 DEF StandingInv, Standing, InPause, ResumeQueued
  <2> QED
    BY <2>1, <2>2
<1> QED
  BY <1>4, <1>5 DEF StandingInv

\* A step of a VM thread in a pause, that stays there or is done with it.
LEMMA StandingInside ==
  ASSUME IInv, StandingInv, NEW v \in Vms, NEW pc,
         vpc[v] # "none", pc # "none",
         Standing(v) => pc \in {"announce", "listen", "serve", "panicked"},
         vpc' = [vpc EXCEPT ![v] = pc],
         \A u \in Vms : ResumeQueued(u)' => ResumeQueued(u),
         UNCHANGED <<state, attached, resumed, stops, apc, cur>>
  PROVE  StandingInv'
<1>1. vpc'[v] = pc /\ \A u \in Vms : u # v => vpc'[u] = vpc[u]
  BY DEF IInv, TypeOK
<1> QED
  BY <1>1 DEF StandingInv, Standing, InPause

\* What a channel holds after a command was appended or taken.
LEMMA QueuedAfterAppend ==
  ASSUME TypeOK, NEW v \in Vms, NEW c \in Commands, cmds' = [cmds EXCEPT ![v] = Append(@, c)]
  PROVE  /\ \A u \in Vms : u # v => (ResumeQueued(u)' <=> ResumeQueued(u))
         /\ ResumeQueued(v)' => ResumeQueued(v) \/ c.kind = "resume"
<1>1. cmds[v] \in Seq(Commands) /\ cmds'[v] = Append(cmds[v], c)
  BY DEF TypeOK
<1>2. \A u \in Vms : u # v => cmds'[u] = cmds[u]
  BY DEF TypeOK
<1>3. ResumeQueued(v)' => ResumeQueued(v) \/ c.kind = "resume"
  <2> SUFFICES ASSUME NEW i \in 1..Len(cmds'[v]), cmds'[v][i].kind = "resume",
                      c.kind # "resume"
               PROVE  ResumeQueued(v)
    BY DEF ResumeQueued
  <2>1. Len(cmds[v]) \in Nat /\ i \in 1..Len(cmds[v]) + 1
    BY <1>1, AppendFacts
  <2>2. i # Len(cmds[v]) + 1
    BY <1>1, AppendFacts
  <2>3. i \in 1..Len(cmds[v]) /\ cmds[v][i] = cmds'[v][i]
    BY <1>1, <2>1, <2>2, AppendFacts
  <2> QED
    BY <2>3 DEF ResumeQueued
<1> QED
  BY <1>2, <1>3 DEF ResumeQueued

LEMMA QueuedAfterTake ==
  ASSUME TypeOK, NEW v \in Vms, cmds[v] # <<>>, cmds' = [cmds EXCEPT ![v] = Tail(@)]
  PROVE  \A u \in Vms : ResumeQueued(u)' => ResumeQueued(u)
<1>1. cmds[v] \in Seq(Commands) /\ cmds'[v] = Tail(cmds[v])
  BY DEF TypeOK
<1>2. \A u \in Vms : u # v => cmds'[u] = cmds[u]
  BY DEF TypeOK
<1>3. /\ Len(cmds'[v]) = Len(cmds[v]) - 1 /\ Len(cmds[v]) \in Nat
      /\ \A i \in 1..Len(cmds'[v]) : cmds'[v][i] = cmds[v][i + 1]
  BY <1>1, HeadTailProperties, LenProperties
<1> QED
  BY <1>2, <1>3 DEF ResumeQueued

\* Every step leaves what stands standing.
LEMMA StandingAdapterStep ==
  ASSUME IInv, StandingInv, AdapterStep
  PROVE  StandingInv'
<1>1. CASE LaunchReplace
  <2>1. cur + 1 \in Vms /\ cur' = cur + 1
    <3>1. cur \in 0..MaxLaunch /\ cur < MaxLaunch
      BY <1>1 DEF LaunchReplace, IInv, TypeOK, ChannelInv, AdapterInv
    <3> QED
      BY <1>1, <3>1 DEF LaunchReplace, Vms
  <2>2. vpc[cur + 1] = "none"
    BY <2>1 DEF IInv, TypeOK, ChannelInv, PauseInv, Vms
  <2>3. \A v \in Vms : ~ Standing(v)'
    <3> SUFFICES ASSUME NEW v \in Vms, attached'[v], resumed[v] < stops[v] PROVE FALSE
      BY <1>1 DEF LaunchReplace, Standing, vmVars
    <3>1. v = cur + 1
      BY <1>1 DEF LaunchReplace
    <3>2. stops[v] = 0 /\ resumed[v] \in Nat
      BY <2>2, <3>1 DEF StandingInv, IInv, TypeOK
    <3> QED
      BY <3>2
  <2> QED
    BY <1>1, <2>3 DEF LaunchReplace, StandingInv, AGoto, vmVars
<1>2. CASE LaunchRespond \/ LaunchAnnounce \/ WaitUntilPaused \/ WaitTimesOut \/ Refuse
           \/ ReceiveReply \/ ReplyTimesOut \/ Respond \/ Greet
  <2>1. /\ UNCHANGED <<state, vpc, attached, resumed, stops, cmds, cur>>
        /\ apc' # "sending"
    BY <1>2 DEF LaunchRespond, LaunchAnnounce, WaitUntilPaused, WaitTimesOut, Refuse,
                ReceiveReply, ReplyTimesOut, Respond, Greet, AGoto, statusVars, vmVars, chanVars
  <2> QED
    BY <2>1, StandingFrame
<1>3. CASE LaunchSpawn
  <2>1. cur \in Vms /\ vpc[cur] = "none" /\ vpc' = [vpc EXCEPT ![cur] = "boot"]
    BY <1>3 DEF LaunchSpawn, IInv, TypeOK, ChannelInv, AdapterInv, Vms
  <2>2. ~ Standing(cur)
    BY <2>1 DEF StandingInv, InPause
  <2>3. /\ UNCHANGED <<state, attached, resumed, stops, cmds, cur>>
        /\ apc' # "sending"
    BY <1>3 DEF LaunchSpawn, AGoto, statusVars, chanVars
  <2>4. vpc'[cur] = "boot" /\ \A u \in Vms : u # cur => vpc'[u] = vpc[u]
    BY <2>1 DEF IInv, TypeOK
  <2> QED
    BY <2>1, <2>2, <2>3, <2>4 DEF StandingInv, Standing, InPause, ResumeQueued
<1>4. CASE AskVm
  <2>1. cur \in Vms /\ Command \in Commands /\ Command.kind = "query"
    <3>1. apc = "asking"
      BY <1>4 DEF AskVm
    <3>2. cur \in Vms /\ Command.kind = "query"
      BY <3>1 DEF Command, IInv, TypeOK, ChannelInv, AdapterInv, Vms
    <3> QED
      BY <3>1, <3>2, CommandTyped
  <2>2. \A u \in Vms : ResumeQueued(u)' => ResumeQueued(u)
    <3>1. CASE ReceiverAlive(cur)
      BY <1>4, <2>1, <3>1, QueuedAfterAppend DEF AskVm, IInv
    <3>2. CASE ~ ReceiverAlive(cur)
      BY <1>4, <3>2 DEF AskVm, ResumeQueued
    <3> QED
      BY <3>1, <3>2
  <2>3. /\ UNCHANGED <<state, vpc, attached, resumed, stops, cur>>
        /\ apc' # "sending"
    BY <1>4 DEF AskVm, AGoto, statusVars, vmVars
  <2> QED
    BY <2>2, <2>3 DEF StandingInv, Standing, InPause
<1>5. CASE BeginResumeOf
  <2>1. cur \in Vms
    BY <1>5 DEF BeginResumeOf, IInv, TypeOK, ChannelInv, AdapterInv, Vms
  <2>2. state[cur] = "Paused"
    BY <1>5 DEF BeginResumeOf, IInv, ChannelInv, AdapterInv
  <2>3. /\ state' = [state EXCEPT ![cur] = "Running"]
        /\ resumed' = [resumed EXCEPT ![cur] = stops[cur]]
        /\ UNCHANGED <<vpc, attached, stops, cmds, cur>>
    BY <1>5, <2>2 DEF BeginResumeOf, BeginResume, SetState, vmVars, chanVars
  <2>4. /\ resumed'[cur] = stops[cur] /\ stops[cur] \in Nat
        /\ \A u \in Vms : u # cur => resumed'[u] = resumed[u] /\ state'[u] = state[u]
    BY <2>1, <2>3 DEF IInv, TypeOK, StatusTypeOK
  <2>5. ~ Standing(cur)'
    BY <2>3, <2>4 DEF Standing
  <2> QED
    BY <2>3, <2>4, <2>5 DEF StandingInv, Standing, InPause, ResumeQueued
<1>6. CASE SendResume
  <2>1. cur \in Vms /\ Command \in Commands /\ ~ Standing(cur)
    <3>1. apc = "sending"
      BY <1>6 DEF SendResume
    <3>2. cur \in Vms /\ ~ Standing(cur)
      BY <3>1 DEF StandingInv, IInv, TypeOK, ChannelInv, AdapterInv, Vms
    <3> QED
      BY <3>1, <3>2, CommandTyped
  <2>2. /\ UNCHANGED <<vpc, attached, resumed, stops, cur>>
        /\ apc' # "sending"
    BY <1>6 DEF SendResume, AGoto, vmVars
  <2>3. \A u \in Vms : u # cur => /\ state'[u] = state[u]
                                  /\ ResumeQueued(u)' => ResumeQueued(u)
    <3>1. CASE ReceiverAlive(cur)
      BY <1>6, <2>1, <3>1, QueuedAfterAppend DEF SendResume, statusVars, IInv
    <3>2. CASE ~ ReceiverAlive(cur)
      BY <1>6, <3>2 DEF SendResume, SetState, ResumeQueued, IInv, TypeOK, StatusTypeOK
    <3> QED
      BY <3>1, <3>2
  <2>4. ~ Standing(cur)'
    BY <2>1, <2>2 DEF Standing
  <2> QED
    BY <2>1, <2>2, <2>3, <2>4 DEF StandingInv, Standing, InPause
<1>7. CASE TerminateVm
  <2>1. cur \in Vms
    BY <1>7 DEF TerminateVm, IInv, TypeOK, ChannelInv, AdapterInv, Vms
  <2>2. \A u \in Vms : state'[u] = state[u] \/ state'[u] = "Terminating"
    BY <1>7, <2>1 DEF TerminateVm, RequestTerminate, statusVars, IInv, TypeOK, StatusTypeOK
  <2>3. /\ UNCHANGED <<vpc, attached, resumed, stops, cmds, cur>>
        /\ apc' # "sending"
    BY <1>7 DEF TerminateVm, AGoto, vmVars, chanVars
  <2> QED
    BY <2>2, <2>3 DEF StandingInv, Standing, InPause, ResumeQueued
<1>8. CASE DropSender
  <2>1. /\ \A v \in Vms : ~ attached'[v]
        /\ UNCHANGED <<state, vpc, resumed, stops, cmds, cur>>
        /\ apc' # "sending"
    BY <1>8 DEF DropSender, AGoto, statusVars, vmVars, chanVars
  <2> QED
    BY <2>1 DEF StandingInv, Standing
<1> QED
  BY <1>1, <1>2, <1>3, <1>4, <1>5, <1>6, <1>7, <1>8 DEF AdapterStep

LEMMA StandingVmStep ==
  ASSUME IInv, StandingInv, NEW v \in Vms, VmStep(v) \/ VmPanic(v)
  PROVE  StandingInv'
<1>1. CASE VmBoot(v) \/ VmUnreadable(v) \/ VmPoll(v) \/ VmInstruction(v) \/ VmEnd(v)
           \/ VmFailed(v) \/ VmExit(v) \/ VmSendExited(v) \/ VmSendTerminated(v)
  <2>1. /\ ~ InPause(v) /\ vpc[v] \notin {"none", "panicked"}
        /\ \E pc \in VmPCs \ {"none"} : vpc' = [vpc EXCEPT ![v] = pc]
    BY <1>1 DEF VmBoot, VmUnreadable, VmPoll, VmInstruction, VmEnd, VmFailed, VmExit,
                VmSendExited, VmSendTerminated, At, Goto, InPause, VmPCs
  <2>2. /\ cmds' = cmds \/ cmds' = [cmds EXCEPT ![v] = <<>>]
        /\ UNCHANGED <<attached, resumed, stops, apc, cur>>
    BY <1>1 DEF VmBoot, VmUnreadable, VmPoll, VmInstruction, VmEnd, VmFailed, VmExit,
                VmSendExited, VmSendTerminated, adapterVars, chanVars
  <2>3. \A u \in Vms : u # v => state'[u] = state[u]
    BY <1>1 DEF VmBoot, VmUnreadable, VmPoll, VmInstruction, VmEnd, VmFailed, VmExit,
                VmSendExited, VmSendTerminated, InstallInterrupt, SetState, statusVars,
                IInv, TypeOK, StatusTypeOK
  <2> QED
    BY <2>1, <2>2, <2>3, StandingOutside
<1>2. CASE VmPause(v)
  <2>1. vpc[v] = "pausing" /\ UNCHANGED <<attached, resumed, cmds, apc, cur>>
    BY <1>2 DEF VmPause, At, adapterVars, chanVars
  <2>2. CASE Doomed(v)
    <3>1. /\ vpc' = [vpc EXCEPT ![v] = AfterPause(v)]
          /\ AfterPause(v) # "none"
          /\ UNCHANGED <<state, stops>>
      BY <1>2, <2>2 DEF VmPause, Goto, AfterPause, statusVars
    <3> QED
      BY <2>1, <3>1, StandingOutside DEF InPause
  <2>3. CASE ~ Doomed(v)
    <3>1. /\ vpc' = [vpc EXCEPT ![v] = "announce"]
          /\ stops' = [stops EXCEPT ![v] = @ + 1]
          /\ state' = [state EXCEPT ![v] = "Paused"]
      BY <1>2, <2>3 DEF VmPause, MarkPaused, SetState, Goto
    <3>2. /\ vpc'[v] = "announce" /\ stops'[v] = stops[v] + 1 /\ state'[v] = "Paused"
          /\ stops[v] \in Nat /\ resumed[v] \in Nat
          /\ \A u \in Vms : u # v => /\ vpc'[u] = vpc[u] /\ stops'[u] = stops[u]
                                     /\ state'[u] = state[u]
      BY <3>1 DEF IInv, TypeOK, StatusTypeOK
    <3>3. ~ ResumeQueued(v)'
      <4>1. PauseInv(v)
        BY DEF IInv, ChannelInv
      <4>2. cmds'[v] = <<>>
        BY <2>1, <4>1 DEF PauseInv, InPause
      <4> QED
        BY <4>2 DEF ResumeQueued
    <3>4. apc' = "sending" => cur # v /\ cur \in Vms
      BY <2>1 DEF IInv, TypeOK, ChannelInv, AdapterInv, InPause, Vms
    <3>5. apc' = "sending" => ~ Standing(cur)'
      BY <2>1, <3>2, <3>4 DEF StandingInv, Standing
    <3>6. ASSUME NEW u \in Vms
          PROVE  /\ resumed'[u] <= stops'[u]
                 /\ vpc'[u] = "none" => stops'[u] = 0
                 /\ Standing(u)' => /\ InPause(u)' \/ vpc'[u] = "panicked"
                                    /\ state'[u] \in {"Paused", "Terminating"}
                 /\ ResumeQueued(u)' => ~ Standing(u)'
      <4>1. CASE u = v
        BY <2>1, <3>2, <3>3, <4>1 DEF StandingInv, InPause
      <4>2. CASE u # v
        BY <2>1, <3>2, <4>2 DEF StandingInv, Standing, InPause, ResumeQueued
      <4> QED
        BY <4>1, <4>2
    <3> QED
      BY <3>5, <3>6 DEF StandingInv
  <2> QED
    BY <2>2, <2>3
<1>3. CASE VmResume(v)
  <2>1. ~ Standing(v)
    BY <1>3 DEF VmResume, At, StandingInv, InPause
  <2>2. /\ vpc[v] = "resuming" /\ vpc' = [vpc EXCEPT ![v] = AfterPause(v)]
        /\ AfterPause(v) # "none"
        /\ UNCHANGED <<attached, resumed, stops, cmds, apc, cur>>
    BY <1>3 DEF VmResume, At, Goto, AfterPause, adapterVars, chanVars
  <2>3. \A u \in Vms : u # v => state'[u] = state[u]
    BY <1>3 DEF VmResume, MarkRunning, SetState, IInv, TypeOK, StatusTypeOK
  <2> QED
    BY <2>2, <2>3, StandingOutside DEF InPause
<1>4. CASE VmAnnounce(v) \/ VmServe(v)
  <2>1. /\ vpc[v] # "none" /\ vpc' = [vpc EXCEPT ![v] = "listen"]
        /\ UNCHANGED <<state, attached, resumed, stops, cmds, apc, cur>>
    BY <1>4 DEF VmAnnounce, VmServe, At, Goto, statusVars, adapterVars
  <2> QED
    BY <2>1, StandingInside DEF ResumeQueued
<1>5. CASE VmReceive(v)
  <2>1. /\ vpc[v] = "listen" /\ cmds[v] # <<>> /\ cmds' = [cmds EXCEPT ![v] = Tail(@)]
        /\ vpc' = [vpc EXCEPT ![v] = IF Head(cmds[v]).kind = "resume" THEN "resuming"
                                     ELSE "serve"]
        /\ UNCHANGED <<state, attached, resumed, stops, apc, cur>>
    BY <1>5 DEF VmReceive, At, Goto, statusVars, adapterVars
  <2>2. Head(cmds[v]).kind = "resume" => ResumeQueued(v)
    <3>1. cmds[v] \in Seq(Commands)
      BY DEF IInv, TypeOK
    <3>2. Head(cmds[v]) = cmds[v][1] /\ 1 \in 1..Len(cmds[v])
      BY <2>1, <3>1, LenProperties
    <3> QED
      BY <3>2 DEF ResumeQueued
  <2>3. \A u \in Vms : ResumeQueued(u)' => ResumeQueued(u)
    BY <2>1, QueuedAfterTake DEF IInv
  <2>4. Standing(v) => Head(cmds[v]).kind # "resume"
    BY <2>2 DEF StandingInv
  <2> QED
    BY <2>1, <2>3, <2>4, StandingInside
<1>6. CASE VmDetached(v)
  <2>1. /\ vpc[v] # "none" /\ vpc' = [vpc EXCEPT ![v] = "resuming"]
        /\ ~ attached[v]
        /\ UNCHANGED <<state, attached, resumed, stops, cmds, apc, cur>>
    BY <1>6 DEF VmDetached, At, Goto, statusVars, adapterVars, chanVars
  <2> QED
    BY <2>1, StandingInside DEF Standing, ResumeQueued
<1>7. CASE VmPanic(v)
  <2>1. /\ vpc[v] # "none" /\ vpc' = [vpc EXCEPT ![v] = "panicked"]
        /\ cmds' = [cmds EXCEPT ![v] = <<>>]
        /\ UNCHANGED <<state, attached, resumed, stops, apc, cur>>
    BY <1>7 DEF VmPanic, At, Goto, statusVars, adapterVars
  <2>2. \A u \in Vms : ResumeQueued(u)' => ResumeQueued(u)
    BY <2>1 DEF ResumeQueued, IInv, TypeOK
  <2> QED
    BY <2>1, <2>2, StandingInside
<1> QED
  BY <1>1, <1>2, <1>3, <1>4, <1>5, <1>6, <1>7 DEF VmStep

LEMMA StandingStep == IInv /\ StandingInv /\ [Next]_vars => StandingInv'
<1> SUFFICES ASSUME IInv, StandingInv, [Next]_vars PROVE StandingInv'
  OBVIOUS
<1>1. CASE AdapterStep
  BY <1>1, StandingAdapterStep
<1>2. CASE \E v \in Vms : VmStep(v) \/ VmPanic(v)
  BY <1>2, StandingVmStep
<1>3. CASE ~ AdapterStep /\ ~ (\E v \in Vms : VmStep(v) \/ VmPanic(v))
  <2>1. /\ UNCHANGED <<state, vpc, attached, resumed, stops, cmds, cur>>
        /\ apc' = "sending" => apc = "sending"
    BY <1>3 DEF Next, vars, ReadRequest, EndOfInput, ForwarderTake, ForwarderWrite, AGoto,
                statusVars, adapterVars, vmVars, chanVars
  <2> QED
    BY <2>1, StandingFrame
<1> QED
  BY <1>1, <1>2, <1>3

\* The initial states have no stop.
LEMMA StandingStart == Init => StandingInv
<1> SUFFICES ASSUME Init PROVE StandingInv
  OBVIOUS
<1>1. \A v \in Vms : stops[v] = 0 /\ resumed[v] = 0 /\ cmds[v] = <<>>
  BY DEF Init
<1> QED
  BY <1>1 DEF Init, StandingInv, Standing, ResumeQueued

-----------------------------------------------------------------------------
(* Launches *)

\* What was told stays told, and is told before what is written next.
LEMMA WrittenStays ==
  ASSUME wire \in Seq(Messages), NEW m \in Messages, wire' = Append(wire, m),
         m.type \notin EventsOfVms \/ (m.vm \in Vms /\ Announced(m.vm))
  PROVE  /\ \A v : Answered(v) => Answered(v)'
         /\ \A v : Announced(v) => Announced(v)'
         /\ LaunchComesFirst => LaunchComesFirst'
         /\ WrittenOfVms => WrittenOfVms'
<1>1. /\ Len(wire) \in Nat /\ Len(wire') = Len(wire) + 1
      /\ \A i \in 1..Len(wire) : wire'[i] = wire[i]
      /\ wire'[Len(wire) + 1] = m
  BY AppendFacts
<1>2. ASSUME NEW v, Answered(v) PROVE Answered(v)'
  BY <1>1, <1>2 DEF Answered
<1>3. ASSUME NEW v, Announced(v) PROVE Announced(v)'
  <2>1. PICK j, k \in 1..Len(wire) :
          /\ j < k
          /\ wire[j].type = "response" /\ wire[j].kind = "launch" /\ wire[j].vm = v
          /\ wire[k].type = "process" /\ wire[k].vm = v
    BY <1>3 DEF Announced
  <2>2. /\ j \in 1..Len(wire') /\ k \in 1..Len(wire')
        /\ wire'[j] = wire[j] /\ wire'[k] = wire[k]
    BY <1>1
  <2> QED
    BY <2>1, <2>2 DEF Announced
<1>4. ASSUME LaunchComesFirst PROVE LaunchComesFirst'
  <2> SUFFICES ASSUME NEW i \in 1..Len(wire'), wire'[i].type \in EventsOfVms
               PROVE  \E j, k \in 1..(i - 1) :
                        /\ j < k
                        /\ wire'[j].type = "response" /\ wire'[j].kind = "launch"
                        /\ wire'[j].vm = wire'[i].vm
                        /\ wire'[k].type = "process" /\ wire'[k].vm = wire'[i].vm
    BY DEF LaunchComesFirst, EventsOfVms
  <2>1. CASE i \in 1..Len(wire)
    <3>1. wire'[i] = wire[i]
      BY <1>1, <2>1
    <3>2. PICK j, k \in 1..(i - 1) :
            /\ j < k
            /\ wire[j].type = "response" /\ wire[j].kind = "launch" /\ wire[j].vm = wire[i].vm
            /\ wire[k].type = "process" /\ wire[k].vm = wire[i].vm
      BY <1>4, <2>1, <3>1 DEF LaunchComesFirst, EventsOfVms
    <3>3. wire'[j] = wire[j] /\ wire'[k] = wire[k]
      BY <1>1, <2>1, <3>2
    <3> QED
      BY <3>1, <3>2, <3>3
  <2>2. CASE i \notin 1..Len(wire)
    <3>1. i = Len(wire) + 1 /\ wire'[i] = m
      BY <1>1, <2>2
    <3>2. PICK j, k \in 1..Len(wire) :
            /\ j < k
            /\ wire[j].type = "response" /\ wire[j].kind = "launch" /\ wire[j].vm = m.vm
            /\ wire[k].type = "process" /\ wire[k].vm = m.vm
      BY <3>1 DEF Announced
    <3>3. j \in 1..(i - 1) /\ k \in 1..(i - 1) /\ wire'[j] = wire[j] /\ wire'[k] = wire[k]
      BY <1>1, <3>1, <3>2
    <3> QED
      BY <3>1, <3>2, <3>3
  <2> QED
    BY <2>1, <2>2
<1>5. ASSUME WrittenOfVms PROVE WrittenOfVms'
  <2> SUFFICES ASSUME NEW i \in 1..Len(wire'), wire'[i].type \in EventsOfVms
               PROVE  wire'[i].vm \in Vms
    BY DEF WrittenOfVms
  <2>1. i \in 1..Len(wire) \/ i = Len(wire) + 1
    BY <1>1
  <2> QED
    BY <1>1, <1>5, <2>1 DEF WrittenOfVms
<1> QED
  BY <1>2, <1>3, <1>4, <1>5

\* Nothing is written, and no thread is spawned.
LEMMA LaunchFrame ==
  ASSUME IInv, LaunchInv, UNCHANGED <<wire, evq, fwd, vpc>>,
         apc' \in {"launching", "launchResponding"} => req'.kind = "launch",
         apc' \notin {"announcing", "spawning"}
  PROVE  LaunchInv'
  BY DEF LaunchInv, Announced, OfSpawned, WrittenOfVms, LaunchComesFirst, IInv, TypeOK

\* A message of the adapter is written.
LEMMA LaunchWrites ==
  ASSUME IInv, LaunchInv, UNCHANGED <<evq, fwd, vpc>>,
         NEW m \in Messages, wire' = Append(wire, m), m.type \notin EventsOfVms,
         apc' \notin {"launching", "launchResponding"},
         apc' = "announcing" => Answered(cur)', apc' = "spawning" => Announced(cur)'
  PROVE  LaunchInv'
<1>1. /\ \A v \in Vms : Announced(v) => Announced(v)'
      /\ LaunchComesFirst' /\ WrittenOfVms'
  BY WrittenStays DEF LaunchInv, IInv, TypeOK
<1>2. OfSpawned(evq)' /\ OfSpawned(fwd)' /\ Len(fwd') <= 1
  BY DEF LaunchInv, OfSpawned
<1>3. \A v \in Vms : vpc'[v] # "none" => Announced(v)'
  BY <1>1 DEF LaunchInv
<1> QED
  BY <1>1, <1>2, <1>3 DEF LaunchInv

\* A spawned thread moves on, and may have sent events.
LEMMA LaunchVm ==
  ASSUME IInv, LaunchInv, NEW v \in Vms, vpc[v] # "none",
         NEW pc, pc # "none", vpc' = [vpc EXCEPT ![v] = pc],
         UNCHANGED <<apc, req, cur, wire, fwd>>,
         OfSpawned(evq)'
  PROVE  LaunchInv'
<1>1. \A u \in Vms : vpc'[u] # "none" <=> vpc[u] # "none"
  BY DEF IInv, TypeOK
<1>2. OfSpawned(fwd)'
  BY <1>1 DEF LaunchInv, OfSpawned
<1>3. \A u \in Vms : vpc'[u] # "none" => Announced(u)'
  BY <1>1 DEF LaunchInv, Announced
<1> QED
  BY <1>2, <1>3 DEF LaunchInv, Answered, Announced, WrittenOfVms, LaunchComesFirst

\* What a VM thread sends goes to the end of the queue.
Sends(v, s) ==
  /\ s \in Seq(Messages)
  /\ \A i \in 1..Len(s) : s[i].type \in EventsOfVms /\ s[i].vm = v
  /\ evq' = evq \o s

LEMMA SentIsQueued ==
  ASSUME IInv, NEW v, NEW s, Sends(v, s)
  PROVE  /\ Len(evq) \in Nat /\ Len(s) \in Nat /\ Len(evq') = Len(evq) + Len(s)
         /\ \A i \in 1..Len(evq') :
              \/ i \in 1..Len(evq) /\ evq'[i] = evq[i]
              \/ i - Len(evq) \in 1..Len(s) /\ evq'[i] = s[i - Len(evq)]
<1>1. evq \in Seq(Messages)
  BY DEF IInv, TypeOK
<1>2. /\ Len(evq) \in Nat /\ Len(s) \in Nat /\ Len(evq') = Len(evq) + Len(s)
      /\ \A i \in 1..Len(evq) + Len(s) :
           evq'[i] = IF i <= Len(evq) THEN evq[i] ELSE s[i - Len(evq)]
  BY <1>1, ConcatProperties, LenProperties DEF Sends
<1> QED
  BY <1>2

LEMMA EmitSends ==
  ASSUME IInv, NEW v \in Vms, NEW e \in EventsOfVms, Emit(v, e)
  PROVE  Sends(v, <<Event(e, v, stops[v])>>)
<1>1. Event(e, v, stops[v]) \in Messages
  <2>1. v \in 0..MaxLaunch /\ stops[v] \in 0..MaxStops
    BY DEF IInv, TypeOK, Vms
  <2> QED
    BY <2>1, EventTyped DEF EventsOfVms
<1>2. evq' = evq \o <<Event(e, v, stops[v])>>
  BY <1>1, AppendIsConcat DEF Emit, IInv, TypeOK
<1>3. Event(e, v, stops[v]).type = e /\ Event(e, v, stops[v]).vm = v
  BY DEF Event
<1> QED
  BY <1>1, <1>2, <1>3 DEF Sends

\* A spawned thread sends events, and moves on.
LEMMA LaunchSends ==
  ASSUME IInv, LaunchInv, NEW v \in Vms, vpc[v] # "none",
         NEW pc, pc # "none", vpc' = [vpc EXCEPT ![v] = pc],
         UNCHANGED <<apc, req, cur, wire, fwd>>,
         NEW s, Sends(v, s)
  PROVE  LaunchInv'
<1>1. \A u \in Vms : vpc'[u] # "none" <=> vpc[u] # "none"
  BY DEF IInv, TypeOK
<1>2. ASSUME NEW i \in 1..Len(evq')
      PROVE  evq'[i].type \in EventsOfVms /\ evq'[i].vm \in Vms /\ vpc'[evq'[i].vm] # "none"
  <2>1. CASE i \in 1..Len(evq) /\ evq'[i] = evq[i]
    BY <1>1, <2>1 DEF LaunchInv, OfSpawned
  <2>2. CASE i - Len(evq) \in 1..Len(s) /\ evq'[i] = s[i - Len(evq)]
    BY <1>1, <2>2 DEF Sends
  <2> QED
    BY <2>1, <2>2, SentIsQueued
<1>3. OfSpawned(evq)'
  BY <1>2 DEF OfSpawned
<1> QED
  BY <1>3, LaunchVm

LEMMA LaunchAdapterStep ==
  ASSUME IInv, LaunchInv, AdapterStep
  PROVE  LaunchInv'
<1>1. CASE LaunchReplace
  <2>1. UNCHANGED <<wire, evq, fwd, vpc, req>> /\ apc = "launching" /\ apc' = "launchResponding"
    BY <1>1 DEF LaunchReplace, AGoto, vmVars, chanVars
  <2> QED
    BY <2>1, LaunchFrame DEF LaunchInv
<1>2. CASE LaunchRespond
  <2>1. /\ apc = "launchResponding" /\ apc' = "announcing" /\ wire' = Append(wire, Response(TRUE))
        /\ UNCHANGED <<evq, fwd, vpc, cur>>
    BY <1>2 DEF LaunchRespond, AGoto, vmVars
  <2>2. Response(TRUE) \in Messages
    BY <2>1, ResponseTyped DEF IInv, ChannelInv, AdapterInv
  <2>3. /\ Response(TRUE).type = "response" /\ Response(TRUE).kind = "launch"
        /\ Response(TRUE).vm = cur
    BY <2>1 DEF Response, LaunchInv
  <2>4. Answered(cur)'
    <3>0. wire \in Seq(Messages)
      BY DEF IInv, TypeOK
    <3>1. /\ Len(wire) \in Nat /\ Len(wire') = Len(wire) + 1
          /\ wire'[Len(wire) + 1] = Response(TRUE)
      BY <2>1, <2>2, <3>0, AppendFacts
    <3>2. Len(wire) + 1 \in 1..Len(wire')
      BY <3>1
    <3> QED
      BY <2>1, <2>3, <3>1, <3>2 DEF Answered
  <2> QED
    BY <2>1, <2>2, <2>3, <2>4, LaunchWrites DEF EventsOfVms
<1>3. CASE LaunchAnnounce
  <2>1. /\ apc = "announcing" /\ apc' = "spawning"
        /\ wire' = Append(wire, Event("process", cur, 0))
        /\ UNCHANGED <<evq, fwd, vpc, cur>>
    BY <1>3 DEF LaunchAnnounce, AGoto, vmVars
  <2>2. Event("process", cur, 0) \in Messages
    BY EventTyped DEF IInv, TypeOK
  <2>3. Event("process", cur, 0).type = "process" /\ Event("process", cur, 0).vm = cur
    BY DEF Event
  <2>4. Announced(cur)'
    <3>1. PICK j \in 1..Len(wire) :
            wire[j].type = "response" /\ wire[j].kind = "launch" /\ wire[j].vm = cur
      BY <2>1 DEF LaunchInv, Answered
    <3>2. /\ Len(wire) \in Nat /\ Len(wire') = Len(wire) + 1
          /\ wire'[Len(wire) + 1] = Event("process", cur, 0)
          /\ wire'[j] = wire[j]
      BY <2>1, <2>2, <3>1, AppendFacts DEF IInv, TypeOK
    <3>3. /\ j \in 1..Len(wire') /\ Len(wire) + 1 \in 1..Len(wire') /\ j < Len(wire) + 1
      BY <3>1, <3>2
    <3> QED
      BY <2>1, <2>3, <3>1, <3>2, <3>3 DEF Announced
  <2> QED
    BY <2>1, <2>2, <2>3, <2>4, LaunchWrites DEF EventsOfVms
<1>4. CASE LaunchSpawn
  <2>1. /\ apc = "spawning" /\ apc' = "idle" /\ vpc' = [vpc EXCEPT ![cur] = "boot"]
        /\ UNCHANGED <<wire, evq, fwd>>
    BY <1>4 DEF LaunchSpawn, AGoto, chanVars
  <2>2. \A v \in Vms : vpc'[v] # "none" => Announced(v)
    BY <2>1 DEF LaunchInv, IInv, TypeOK
  <2>3. OfSpawned(evq)' /\ OfSpawned(fwd)'
    BY <2>1 DEF LaunchInv, OfSpawned, IInv, TypeOK
  <2> QED
    BY <2>1, <2>2, <2>3 DEF LaunchInv, Announced, WrittenOfVms, LaunchComesFirst
<1>5. CASE Respond
  <2>1. /\ apc = "responding" /\ apc' \in {"quit", "greeting", "idle"}
        /\ wire' = Append(wire, Response(result))
        /\ UNCHANGED <<evq, fwd, vpc>>
    BY <1>5 DEF Respond, AGoto, vmVars
  <2>2. Response(result) \in Messages
    BY <2>1, ResponseTyped DEF IInv, TypeOK, ChannelInv, AdapterInv
  <2>3. Response(result).type = "response"
    BY DEF Response
  <2> QED
    BY <2>1, <2>2, <2>3, LaunchWrites DEF EventsOfVms
<1>6. CASE Greet
  <2>1. /\ apc' = "idle" /\ wire' = Append(wire, Event("initialized", 0, 0))
        /\ UNCHANGED <<evq, fwd, vpc>>
    BY <1>6 DEF Greet, AGoto, vmVars
  <2>2. Event("initialized", 0, 0) \in Messages
    BY EventTyped
  <2>3. Event("initialized", 0, 0).type = "initialized"
    BY DEF Event
  <2> QED
    BY <2>1, <2>2, <2>3, LaunchWrites DEF EventsOfVms
<1>7. CASE WaitUntilPaused \/ WaitTimesOut \/ Refuse \/ AskVm \/ ReceiveReply \/ ReplyTimesOut
           \/ BeginResumeOf \/ SendResume \/ TerminateVm \/ DropSender
  <2>1. /\ UNCHANGED <<wire, evq, fwd, vpc>>
        /\ apc' \notin {"launching", "launchResponding", "announcing", "spawning"}
    BY <1>7 DEF WaitUntilPaused, WaitTimesOut, Refuse, AskVm, ReceiveReply, ReplyTimesOut,
                BeginResumeOf, SendResume, TerminateVm, DropSender, AGoto, vmVars, chanVars
  <2> QED
    BY <2>1, LaunchFrame
<1> QED
  BY <1>1, <1>2, <1>3, <1>4, <1>5, <1>6, <1>7 DEF AdapterStep

\* How a VM thread moves, and what it sends meanwhile: nothing, one event, or
\* the breakpoints of a stop and the stop.
LEMMA VmMovesAndSends ==
  ASSUME IInv, NEW v \in Vms, VmStep(v) \/ VmPanic(v)
  PROVE  /\ vpc[v] # "none" /\ UNCHANGED <<apc, req, cur, wire, fwd>>
         /\ \E pc \in VmPCs \ {"none"} : vpc' = [vpc EXCEPT ![v] = pc]
         /\ \/ UNCHANGED evq
            \/ \E e \in EventsOfVms : Emit(v, e)
            \/ /\ vpc[v] = "announce"
               /\ evq' = evq \o <<Event("breakpoint", v, stops[v]),
                                  Event("stopped", v, stops[v])>>
<1>1. vpc[v] # "none" /\ UNCHANGED <<apc, req, cur, wire, fwd>>
  BY DEF VmStep, VmBoot, VmUnreadable, VmPoll, VmInstruction, VmEnd, VmFailed, VmPause,
         VmAnnounce, VmReceive, VmDetached, VmServe, VmResume, VmExit, VmSendExited,
         VmSendTerminated, VmPanic, At, adapterVars, chanVars
<1>2. \E pc \in VmPCs \ {"none"} : vpc' = [vpc EXCEPT ![v] = pc]
  BY DEF VmStep, VmBoot, VmUnreadable, VmPoll, VmInstruction, VmEnd, VmFailed, VmPause,
         VmAnnounce, VmReceive, VmDetached, VmServe, VmResume, VmExit, VmSendExited,
         VmSendTerminated, VmPanic, Goto, AfterPause, VmPCs
<1>3. \/ UNCHANGED evq
      \/ \E e \in EventsOfVms : Emit(v, e)
      \/ /\ vpc[v] = "announce"
         /\ evq' = evq \o <<Event("breakpoint", v, stops[v]), Event("stopped", v, stops[v])>>
  BY DEF VmStep, VmBoot, VmUnreadable, VmPoll, VmInstruction, VmEnd, VmFailed, VmPause,
         VmAnnounce, VmReceive, VmDetached, VmServe, VmResume, VmExit, VmSendExited,
         VmSendTerminated, VmPanic, At, chanVars, EventsOfVms
<1> QED
  BY <1>1, <1>2, <1>3

\* The events of a stop, with the breakpoints resolved since the last.
LEMMA StopSends ==
  ASSUME IInv, NEW v \in Vms,
         evq' = evq \o <<Event("breakpoint", v, stops[v]), Event("stopped", v, stops[v])>>
  PROVE  Sends(v, <<Event("breakpoint", v, stops[v]), Event("stopped", v, stops[v])>>)
<1> DEFINE s == <<Event("breakpoint", v, stops[v]), Event("stopped", v, stops[v])>>
<1>1. v \in 0..MaxLaunch /\ stops[v] \in 0..MaxStops
  BY DEF IInv, TypeOK, Vms
<1>2. /\ Event("breakpoint", v, stops[v]) \in Messages
      /\ Event("stopped", v, stops[v]) \in Messages
  BY <1>1, EventTyped
<1>3. s \in Seq(Messages) /\ Len(s) = 2
  BY <1>2
<1>4. ASSUME NEW i \in 1..Len(s) PROVE s[i].type \in EventsOfVms /\ s[i].vm = v
  <2>1. i = 1 \/ i = 2
    BY <1>3
  <2> QED
    BY <2>1 DEF Event, EventsOfVms
<1> QED
  BY <1>3, <1>4 DEF Sends

\* So it always sends a sequence of its own events.
LEMMA VmSends ==
  ASSUME IInv, NEW v \in Vms, VmStep(v) \/ VmPanic(v)
  PROVE  \E s : Sends(v, s)
<1>1. CASE UNCHANGED evq
  <2>1. <<>> \in Seq(Messages) /\ Len(<<>>) = 0 /\ evq' = evq \o <<>>
    BY <1>1, ConcatEmptySeq, EmptySeq DEF IInv, TypeOK
  <2>2. \A i \in 1..Len(<<>>) : FALSE
    BY <2>1
  <2> QED
    BY <2>1, <2>2 DEF Sends
<1>2. CASE \E e \in EventsOfVms : Emit(v, e)
  BY <1>2, EmitSends
<1>3. CASE evq' = evq \o <<Event("breakpoint", v, stops[v]), Event("stopped", v, stops[v])>>
  BY <1>3, StopSends
<1> QED
  BY <1>1, <1>2, <1>3, VmMovesAndSends

\* What the forwarder holds is one event.
LEMMA HeldEvent ==
  ASSUME IInv, LaunchInv, fwd # <<>>
  PROVE  /\ Len(fwd) = 1 /\ fwd[1] \in Messages /\ wire \o fwd = Append(wire, fwd[1])
<1>1. fwd \in Seq(Messages) /\ wire \in Seq(Messages)
  BY DEF IInv, TypeOK
<1>2. Len(fwd) = 1 /\ fwd[1] \in Messages
  <2>1. Len(fwd) \in Nat /\ Len(fwd) # 0
    BY <1>1, EmptySeq
  <2>2. Len(fwd) = 1
    <3>1. Len(fwd) <= 1
      BY DEF LaunchInv
    <3>2. \A n \in Nat : n # 0 /\ n <= 1 => n = 1
      OBVIOUS
    <3> QED
      BY <2>1, <3>1, <3>2
  <2>3. 1 \in 1..Len(fwd)
    BY <2>2
  <2> QED
    BY <1>1, <2>2, <2>3, ElementOfSeq
<1>3. fwd = <<fwd[1]>>
  <2>1. <<fwd[1]>> \in Seq(Messages) /\ Len(<<fwd[1]>>) = 1 /\ <<fwd[1]>>[1] = fwd[1]
    BY <1>2
  <2> QED
    BY <1>1, <1>2, <2>1, SeqEqual
<1> QED
  BY <1>1, <1>2, <1>3, AppendIsConcat

LEMMA LaunchForwarderStep ==
  ASSUME IInv, LaunchInv, ForwarderTake \/ ForwarderWrite
  PROVE  LaunchInv'
<1>1. UNCHANGED <<apc, req, cur, vpc>>
  BY DEF ForwarderTake, ForwarderWrite, adapterVars, vmVars
<1>2. CASE ForwarderTake
  <2>1. /\ evq \in Seq(Messages) /\ evq # <<>> /\ fwd' = <<Head(evq)>> /\ evq' = Tail(evq)
        /\ wire' = wire
    BY <1>2 DEF ForwarderTake, IInv, TypeOK
  <2>2. /\ Len(evq) \in Nat \ {0} /\ Head(evq) = evq[1] /\ Len(evq') = Len(evq) - 1
        /\ \A i \in 1..Len(evq') : evq'[i] = evq[i + 1]
    BY <2>1, HeadTailProperties, LenProperties, EmptySeq
  <2>3. OfSpawned(evq)'
    BY <1>1, <2>2 DEF LaunchInv, OfSpawned
  <2>4. Len(fwd') = 1 /\ fwd'[1] = evq[1]
    BY <2>1, <2>2
  <2>5. OfSpawned(fwd)'
    BY <1>1, <2>2, <2>4 DEF LaunchInv, OfSpawned
  <2> QED
    BY <1>1, <2>1, <2>3, <2>4, <2>5 DEF LaunchInv, Answered, Announced, WrittenOfVms, LaunchComesFirst
<1>3. CASE ForwarderWrite
  <2>1. wire' = Append(wire, fwd[1]) /\ fwd[1] \in Messages /\ Len(fwd) = 1
    BY <1>3, HeldEvent DEF ForwarderWrite
  <2>2. fwd[1].vm \in Vms /\ Announced(fwd[1].vm)
    BY <2>1 DEF LaunchInv, OfSpawned
  <2>3. /\ \A v \in Vms : Announced(v) => Announced(v)'
        /\ Answered(cur) => Answered(cur)'
        /\ Announced(cur) => Announced(cur)'
        /\ LaunchComesFirst' /\ WrittenOfVms'
    BY <1>1, <2>1, <2>2, WrittenStays DEF LaunchInv, IInv, TypeOK
  <2>4. fwd' = <<>> /\ evq' = evq
    BY <1>3 DEF ForwarderWrite
  <2>5. Len(fwd') = 0 /\ OfSpawned(fwd)' /\ OfSpawned(evq)'
    BY <1>1, <2>4 DEF LaunchInv, OfSpawned
  <2> QED
    BY <1>1, <2>3, <2>5 DEF LaunchInv
<1> QED
  BY <1>2, <1>3

LEMMA LaunchStep == IInv /\ LaunchInv /\ [Next]_vars => LaunchInv'
<1> SUFFICES ASSUME IInv, LaunchInv, [Next]_vars PROVE LaunchInv'
  OBVIOUS
<1>1. CASE AdapterStep
  BY <1>1, LaunchAdapterStep
<1>2. CASE ForwarderTake \/ ForwarderWrite
  BY <1>2, LaunchForwarderStep
<1>3. ASSUME NEW v \in Vms, VmStep(v) \/ VmPanic(v) PROVE LaunchInv'
  <2>1. PICK s : Sends(v, s)
    BY <1>3, VmSends
  <2>2. PICK pc \in VmPCs \ {"none"} : vpc' = [vpc EXCEPT ![v] = pc]
    BY <1>3, VmMovesAndSends
  <2>3. vpc[v] # "none" /\ UNCHANGED <<apc, req, cur, wire, fwd>>
    BY <1>3, VmMovesAndSends
  <2> QED
    BY <2>1, <2>2, <2>3, LaunchSends
<1>4. CASE \E k \in ClientKinds : ReadRequest(k)
  <2>1. PICK k \in ClientKinds : ReadRequest(k)
    BY <1>4
  <2>2. UNCHANGED <<wire, evq, fwd, vpc>>
    BY <2>1 DEF ReadRequest, vmVars
  <2>3. /\ apc' = "launching" => req'.kind = "launch"
        /\ apc' \notin {"launchResponding", "announcing", "spawning"}
    BY <2>1 DEF ReadRequest, AGoto
  <2> QED
    BY <2>2, <2>3, LaunchFrame
<1>5. CASE EndOfInput
  <2>1. UNCHANGED <<wire, evq, fwd, vpc>> /\ apc' = "quit"
    BY <1>5 DEF EndOfInput, AGoto, vmVars, chanVars
  <2> QED
    BY <2>1, LaunchFrame
<1>6. CASE UNCHANGED vars
  BY <1>6 DEF vars, statusVars, adapterVars, vmVars, chanVars, LaunchInv, Answered, Announced,
              OfSpawned, WrittenOfVms, LaunchComesFirst
<1> QED
  BY <1>1, <1>2, <1>3, <1>4, <1>5, <1>6 DEF Next

LEMMA LaunchStart == Init => LaunchInv
<1> SUFFICES ASSUME Init PROVE LaunchInv
  OBVIOUS
<1>1. Len(wire) = 0 /\ Len(evq) = 0 /\ Len(fwd) = 0
  BY EmptySeq DEF Init
<1> QED
  BY <1>1 DEF Init, LaunchInv, OfSpawned, WrittenOfVms, LaunchComesFirst

-----------------------------------------------------------------------------
(* Exits *)

\* Threads that left their exit behind do not come back from it.
ExitedStay ==
  \A v \in Vms : vpc[v] \in {"sendTerminated", "gone"} => vpc'[v] \in {"sendTerminated", "gone"}

LEMMA ExitsStayLast ==
  ASSUME ExitedStay, NEW s, ExitsAreLast(s)
  PROVE  \A i \in 1..Len(s) :
           s[i].type = "exited" =>
             s[i].vm \in Vms /\ vpc'[s[i].vm] \in {"sendTerminated", "gone"}
  BY DEF ExitedStay, ExitsAreLast

\* Nothing is written or sent.
LEMMA ExitFrame ==
  ASSUME ExitInv, UNCHANGED <<wire, evq, fwd>>, ExitedStay
  PROVE  ExitInv'
  BY DEF ExitInv, ExitsAreLast, OnlyTerminated, NothingAfterExit, ExitedStay

\* The adapter writes a message that no exit forbids.
LEMMA ExitWrites ==
  ASSUME IInv, ExitInv, UNCHANGED <<evq, fwd>>, ExitedStay,
         NEW m \in Messages, wire' = Append(wire, m), m.type # "exited",
         \A i \in 1..Len(wire) :
           wire[i].type = "exited" /\ m.vm = wire[i].vm
           => \/ m.type = "terminated"
              \/ m.type = "response" /\ ~ (m.kind = "query" /\ m.ok)
  PROVE  ExitInv'
<1>1. wire \in Seq(Messages)
  BY DEF IInv, TypeOK
<1>2. /\ Len(wire) \in Nat /\ Len(wire') = Len(wire) + 1
      /\ \A i \in 1..Len(wire) : wire'[i] = wire[i]
      /\ wire'[Len(wire) + 1] = m
  BY <1>1, AppendFacts
<1>3. ASSUME NEW i \in 1..Len(wire'), wire'[i].type = "exited"
      PROVE  i \in 1..Len(wire) /\ wire'[i] = wire[i]
  <2>1. i \in 1..Len(wire) \/ i = Len(wire) + 1
    BY <1>2
  <2> QED
    BY <1>2, <1>3, <2>1
<1>4. ExitsAreLast(wire)' /\ ExitsAreLast(fwd)' /\ ExitsAreLast(evq)'
  BY <1>3 DEF ExitInv, ExitsAreLast, ExitedStay
<1>5. OnlyTerminated(wire, fwd)' /\ OnlyTerminated(wire, evq)' /\ OnlyTerminated(fwd, evq)'
  BY <1>3 DEF ExitInv, OnlyTerminated
<1>6. NothingAfterExit'
  <2> SUFFICES ASSUME NEW i \in 1..Len(wire'), NEW j \in 1..Len(wire'),
                      i < j, wire'[i].type = "exited", wire'[j].vm = wire'[i].vm
               PROVE  \/ wire'[j].type = "terminated"
                      \/ wire'[j].type = "response" /\ ~ (wire'[j].kind = "query" /\ wire'[j].ok)
    BY DEF NothingAfterExit
  <2>1. i \in 1..Len(wire) /\ wire'[i] = wire[i]
    BY <1>3
  <2>2. CASE j \in 1..Len(wire)
    BY <1>2, <2>1, <2>2 DEF ExitInv, NothingAfterExit
  <2>3. CASE j \notin 1..Len(wire)
    <3>1. wire'[j] = m
      BY <1>2, <2>3
    <3> QED
      BY <2>1, <3>1
  <2> QED
    BY <2>2, <2>3
<1> QED
  BY <1>4, <1>5, <1>6 DEF ExitInv

\* A VM thread sends events: before its exit, its exit itself, or what follows.
LEMMA ExitSends ==
  ASSUME IInv, ExitInv, UNCHANGED <<wire, fwd>>, ExitedStay,
         NEW v \in Vms, NEW s, Sends(v, s),
         \/ vpc[v] \notin {"sendTerminated", "gone"}
         \/ \A i \in 1..Len(s) : s[i].type = "terminated",
         \/ \A i \in 1..Len(s) : s[i].type # "exited"
         \/ Len(s) = 1 /\ vpc'[v] \in {"sendTerminated", "gone"}
  PROVE  ExitInv'
<1>1. /\ Len(evq) \in Nat /\ Len(s) \in Nat /\ Len(evq') = Len(evq) + Len(s)
      /\ \A i \in 1..Len(evq') :
           \/ i \in 1..Len(evq) /\ evq'[i] = evq[i]
           \/ i - Len(evq) \in 1..Len(s) /\ evq'[i] = s[i - Len(evq)]
  BY SentIsQueued
<1>2. \A i \in 1..Len(s) : s[i].vm = v
  BY DEF Sends
<1>3. ASSUME NEW t, ExitsAreLast(t), NEW i \in 1..Len(t), t[i].type = "exited",
             NEW j \in 1..Len(s), s[j].vm = t[i].vm
      PROVE  s[j].type = "terminated"
  BY <1>2, <1>3 DEF ExitsAreLast
<1>4. ExitsAreLast(wire)' /\ ExitsAreLast(fwd)'
  BY DEF ExitInv, ExitsAreLast, ExitedStay
<1>5. ExitsAreLast(evq)'
  <2> SUFFICES ASSUME NEW i \in 1..Len(evq'), evq'[i].type = "exited"
               PROVE  evq'[i].vm \in Vms /\ vpc'[evq'[i].vm] \in {"sendTerminated", "gone"}
    BY DEF ExitsAreLast
  <2>1. CASE i \in 1..Len(evq) /\ evq'[i] = evq[i]
    BY <2>1 DEF ExitInv, ExitsAreLast, ExitedStay
  <2>2. CASE i - Len(evq) \in 1..Len(s) /\ evq'[i] = s[i - Len(evq)]
    BY <1>2, <2>2
  <2> QED
    BY <1>1, <2>1, <2>2
<1>6. OnlyTerminated(wire, evq)' /\ OnlyTerminated(fwd, evq)'
  <2>1. ASSUME NEW t, ExitsAreLast(t), OnlyTerminated(t, evq),
               NEW i \in 1..Len(t), NEW j \in 1..Len(evq'),
               t[i].type = "exited", evq'[j].vm = t[i].vm
        PROVE  evq'[j].type = "terminated"
    <3>1. CASE j \in 1..Len(evq) /\ evq'[j] = evq[j]
      BY <2>1, <3>1 DEF OnlyTerminated
    <3>2. CASE j - Len(evq) \in 1..Len(s) /\ evq'[j] = s[j - Len(evq)]
      BY <1>3, <2>1, <3>2
    <3> QED
      BY <1>1, <3>1, <3>2
  <2> QED
    BY <2>1 DEF ExitInv, OnlyTerminated
<1>7. OnlyTerminated(wire, fwd)' /\ NothingAfterExit'
  BY DEF ExitInv, OnlyTerminated, NothingAfterExit
<1>8. ASSUME NEW i \in 1..Len(evq'), NEW j \in 1..Len(evq'),
             i < j, evq'[i].type = "exited", evq'[j].vm = evq'[i].vm
      PROVE  evq'[j].type = "terminated"
  <2>1. CASE i \in 1..Len(evq) /\ evq'[i] = evq[i]
    <3>1. CASE j \in 1..Len(evq) /\ evq'[j] = evq[j]
      BY <1>8, <2>1, <3>1 DEF ExitInv
    <3>2. CASE j - Len(evq) \in 1..Len(s) /\ evq'[j] = s[j - Len(evq)]
      BY <1>3, <1>8, <2>1, <3>2 DEF ExitInv
    <3> QED
      BY <1>1, <3>1, <3>2
  <2>2. CASE i - Len(evq) \in 1..Len(s) /\ evq'[i] = s[i - Len(evq)]
    <3>1. Len(s) = 1
      BY <1>8, <2>2
    <3> QED
      BY <1>1, <1>8, <2>2, <3>1
  <2> QED
    BY <1>1, <2>1, <2>2
<1> QED
  BY <1>4, <1>5, <1>6, <1>7, <1>8 DEF ExitInv

LEMMA ExitForwarderStep ==
  ASSUME IInv, LaunchInv, ExitInv, ForwarderTake \/ ForwarderWrite
  PROVE  ExitInv'
<1>1. UNCHANGED vpc
  BY DEF ForwarderTake, ForwarderWrite, vmVars
<1>2. CASE ForwarderTake
  <2>1. /\ evq \in Seq(Messages) /\ evq # <<>> /\ fwd' = <<Head(evq)>> /\ evq' = Tail(evq)
        /\ wire' = wire
    BY <1>2 DEF ForwarderTake, IInv, TypeOK
  <2>2. /\ Len(evq) \in Nat /\ 1 \in 1..Len(evq) /\ Head(evq) = evq[1]
        /\ Len(evq') = Len(evq) - 1
        /\ \A i \in 1..Len(evq') : evq'[i] = evq[i + 1]
    BY <2>1, HeadTailProperties, LenProperties, EmptySeq
  <2>3. Len(fwd') = 1 /\ fwd'[1] = evq[1]
    BY <2>1, <2>2
  <2>4. \A i \in 1..Len(evq') : i + 1 \in 1..Len(evq) /\ 1 < i + 1
    BY <2>2
  <2>5. \A i \in 1..Len(fwd') : i = 1 /\ fwd'[i] = evq[1]
    BY <2>3
  <2>6. ExitsAreLast(wire)' /\ ExitsAreLast(fwd)' /\ ExitsAreLast(evq)'
    BY <1>1, <2>1, <2>2, <2>4, <2>5 DEF ExitInv, ExitsAreLast
  <2>7. OnlyTerminated(wire, fwd)' /\ OnlyTerminated(wire, evq)'
    BY <2>1, <2>2, <2>4, <2>5 DEF ExitInv, OnlyTerminated
  <2>8. OnlyTerminated(fwd, evq)'
    BY <2>2, <2>4, <2>5 DEF ExitInv, OnlyTerminated
  <2>9. ASSUME NEW i \in 1..Len(evq'), NEW j \in 1..Len(evq'),
               i < j, evq'[i].type = "exited", evq'[j].vm = evq'[i].vm
        PROVE  evq'[j].type = "terminated"
    <3>1. i + 1 < j + 1 /\ evq'[i] = evq[i + 1] /\ evq'[j] = evq[j + 1]
      BY <2>2, <2>9
    <3> QED
      BY <2>4, <2>9, <3>1 DEF ExitInv
  <2>10. NothingAfterExit'
    BY <2>1 DEF ExitInv, NothingAfterExit
  <2> QED
    BY <2>6, <2>7, <2>8, <2>9, <2>10 DEF ExitInv
<1>3. CASE ForwarderWrite
  <2>1. /\ wire' = Append(wire, fwd[1]) /\ fwd[1] \in Messages /\ Len(fwd) = 1
        /\ fwd' = <<>> /\ evq' = evq /\ wire \in Seq(Messages)
    BY <1>3, HeldEvent DEF ForwarderWrite, IInv, TypeOK
  <2>2. /\ Len(wire) \in Nat /\ Len(wire') = Len(wire) + 1
        /\ \A i \in 1..Len(wire) : wire'[i] = wire[i]
        /\ wire'[Len(wire) + 1] = fwd[1]
    BY <2>1, AppendFacts
  <2>3. 1 \in 1..Len(fwd) /\ Len(fwd') = 0
    BY <2>1
  <2>4. \A i \in 1..Len(wire') :
          \/ i \in 1..Len(wire) /\ wire'[i] = wire[i]
          \/ i = Len(wire) + 1 /\ wire'[i] = fwd[1]
    BY <2>2
  <2>5. ExitsAreLast(wire)' /\ ExitsAreLast(fwd)' /\ ExitsAreLast(evq)'
    BY <1>1, <2>1, <2>3, <2>4 DEF ExitInv, ExitsAreLast
  <2>6. OnlyTerminated(wire, fwd)' /\ OnlyTerminated(fwd, evq)'
    BY <2>3 DEF OnlyTerminated
  <2>7. OnlyTerminated(wire, evq)'
    BY <2>1, <2>3, <2>4 DEF ExitInv, OnlyTerminated
  <2>8. NothingAfterExit'
    <3> SUFFICES ASSUME NEW i \in 1..Len(wire'), NEW j \in 1..Len(wire'),
                        i < j, wire'[i].type = "exited", wire'[j].vm = wire'[i].vm
                 PROVE  \/ wire'[j].type = "terminated"
                        \/ wire'[j].type = "response" /\ ~ (wire'[j].kind = "query" /\ wire'[j].ok)
      BY DEF NothingAfterExit
    <3>1. i \in 1..Len(wire) /\ wire'[i] = wire[i]
      BY <2>2
    <3>2. CASE j \in 1..Len(wire) /\ wire'[j] = wire[j]
      BY <3>1, <3>2 DEF ExitInv, NothingAfterExit
    <3>3. CASE j = Len(wire) + 1 /\ wire'[j] = fwd[1]
      BY <2>3, <3>1, <3>3 DEF ExitInv, OnlyTerminated
    <3> QED
      BY <2>4, <3>2, <3>3
  <2>9. \A i, j \in 1..Len(evq') :
          i < j /\ evq'[i].type = "exited" /\ evq'[j].vm = evq'[i].vm => evq'[j].type = "terminated"
    BY <2>1 DEF ExitInv
  <2> QED
    BY <2>5, <2>6, <2>7, <2>8, <2>9 DEF ExitInv
<1> QED
  BY <1>2, <1>3

LEMMA ExitVmStep ==
  ASSUME IInv, ExitInv, NEW v \in Vms, VmStep(v) \/ VmPanic(v)
  PROVE  ExitInv'
<1>1. UNCHANGED <<wire, fwd>>
  BY VmMovesAndSends
<1>2. /\ vpc[v] # "gone"
      /\ vpc[v] = "sendTerminated" => vpc' = [vpc EXCEPT ![v] = "gone"]
  BY DEF VmStep, VmBoot, VmUnreadable, VmPoll, VmInstruction, VmEnd, VmFailed, VmPause,
         VmAnnounce, VmReceive, VmDetached, VmServe, VmResume, VmExit, VmSendExited,
         VmSendTerminated, VmPanic, At, Goto
<1>3. ExitedStay
  <2>1. PICK pc \in VmPCs : vpc' = [vpc EXCEPT ![v] = pc]
    BY VmMovesAndSends
  <2>2. \A u \in Vms : u # v => vpc'[u] = vpc[u]
    BY <2>1 DEF IInv, TypeOK
  <2>3. vpc[v] = "sendTerminated" => vpc'[v] = "gone"
    BY <1>2 DEF IInv, TypeOK
  <2> QED
    BY <1>2, <2>2, <2>3 DEF ExitedStay
<1>4. CASE VmSendExited(v)
  <2>1. /\ Emit(v, "exited") /\ vpc[v] = "sendExited"
        /\ vpc' = [vpc EXCEPT ![v] = "sendTerminated"]
    BY <1>4 DEF VmSendExited, At, Goto
  <2>2. Sends(v, <<Event("exited", v, stops[v])>>)
    BY <2>1, EmitSends DEF EventsOfVms
  <2>3. vpc'[v] = "sendTerminated" /\ Len(<<Event("exited", v, stops[v])>>) = 1
    BY <2>1 DEF IInv, TypeOK
  <2> QED
    BY <1>1, <1>3, <2>1, <2>2, <2>3, ExitSends
<1>5. CASE VmSendTerminated(v)
  <2>1. Sends(v, <<Event("terminated", v, stops[v])>>)
    BY <1>5, EmitSends DEF VmSendTerminated, EventsOfVms
  <2>2. \A i \in 1..Len(<<Event("terminated", v, stops[v])>>) :
          <<Event("terminated", v, stops[v])>>[i].type = "terminated"
    <3>1. \A i \in 1..Len(<<Event("terminated", v, stops[v])>>) : i = 1
      OBVIOUS
    <3> QED
      BY <3>1 DEF Event
  <2> QED
    BY <1>1, <1>3, <2>1, <2>2, ExitSends
<1>6. CASE UNCHANGED evq
  BY <1>1, <1>3, <1>6, ExitFrame
<1>7. CASE VmUnreadable(v) \/ VmFailed(v)
  <2>1. Emit(v, "output") /\ vpc[v] \notin {"sendTerminated", "gone"}
    BY <1>7 DEF VmUnreadable, VmFailed, At
  <2>2. Sends(v, <<Event("output", v, stops[v])>>)
    BY <2>1, EmitSends DEF EventsOfVms
  <2>3. \A i \in 1..Len(<<Event("output", v, stops[v])>>) :
          <<Event("output", v, stops[v])>>[i].type # "exited"
    <3>1. \A i \in 1..Len(<<Event("output", v, stops[v])>>) : i = 1
      OBVIOUS
    <3> QED
      BY <3>1 DEF Event
  <2> QED
    BY <1>1, <1>3, <2>1, <2>2, <2>3, ExitSends
<1>8. CASE VmAnnounce(v)
  <2>1. vpc[v] = "announce"
    BY <1>8 DEF VmAnnounce, At
  <2>2. \E s : Sends(v, s) /\ \A i \in 1..Len(s) : s[i].type # "exited"
    <3>1. CASE Emit(v, "stopped")
      <4>1. Sends(v, <<Event("stopped", v, stops[v])>>)
        BY <3>1, EmitSends DEF EventsOfVms
      <4>2. \A i \in 1..Len(<<Event("stopped", v, stops[v])>>) : i = 1
        OBVIOUS
      <4>3. \A i \in 1..Len(<<Event("stopped", v, stops[v])>>) :
              <<Event("stopped", v, stops[v])>>[i].type # "exited"
        BY <4>2 DEF Event
      <4> QED
        BY <4>1, <4>3
    <3>2. CASE evq' = evq \o <<Event("breakpoint", v, stops[v]), Event("stopped", v, stops[v])>>
      <4>1. Sends(v, <<Event("breakpoint", v, stops[v]), Event("stopped", v, stops[v])>>)
        BY <3>2, StopSends
      <4>2. \A i \in 1..Len(<<Event("breakpoint", v, stops[v]), Event("stopped", v, stops[v])>>) :
              i = 1 \/ i = 2
        OBVIOUS
      <4>3. \A i \in 1..Len(<<Event("breakpoint", v, stops[v]), Event("stopped", v, stops[v])>>) :
              <<Event("breakpoint", v, stops[v]), Event("stopped", v, stops[v])>>[i].type # "exited"
        BY <4>2 DEF Event
      <4> QED
        BY <4>1, <4>3
    <3> QED
      BY <1>8, <3>1, <3>2 DEF VmAnnounce
  <2> QED
    BY <1>1, <1>3, <2>1, <2>2, ExitSends
<1>9. CASE VmBoot(v) \/ VmPoll(v) \/ VmInstruction(v) \/ VmEnd(v) \/ VmPause(v) \/ VmReceive(v)
           \/ VmDetached(v) \/ VmServe(v) \/ VmResume(v) \/ VmExit(v) \/ VmPanic(v)
  BY <1>6, <1>9 DEF VmBoot, VmPoll, VmInstruction, VmEnd, VmPause, VmReceive, VmDetached,
                    VmServe, VmResume, VmExit, VmPanic, chanVars
<1> QED
  BY <1>4, <1>5, <1>7, <1>8, <1>9 DEF VmStep

\* A query is answered only while its VM is paused, so after no exit.
LEMMA QueryFrame ==
  ASSUME IInv, QueryInv, apc' = apc, UNCHANGED <<req, result, cur, attached>>,
         apc \in {"receiving", "responding"} /\ cur \in Vms /\ attached[cur] /\ state[cur] = "Paused"
           => state'[cur] = "Paused"
  PROVE  QueryInv'
  BY DEF QueryInv

LEMMA QueryVmStep ==
  ASSUME IInv, QueryInv, NEW v \in Vms, VmStep(v) \/ VmPanic(v)
  PROVE  QueryInv'
<1>1. UNCHANGED <<apc, req, result, cur, attached>>
  BY DEF VmStep, VmBoot, VmUnreadable, VmPoll, VmInstruction, VmEnd, VmFailed, VmPause,
         VmAnnounce, VmReceive, VmDetached, VmServe, VmResume, VmExit, VmSendExited,
         VmSendTerminated, VmPanic, adapterVars
<1>2. ASSUME cur \in Vms, attached[cur], state[cur] = "Paused"
      PROVE  state'[cur] = "Paused"
  <2>1. InPause(cur) \/ vpc[cur] = "panicked"
    BY <1>2 DEF IInv, ChannelInv, PauseInv
  <2>2. CASE VmPause(v) \/ VmResume(v) \/ VmExit(v)
    <3>1. vpc[v] \in {"pausing", "resuming", "exit"}
      BY <2>2 DEF VmPause, VmResume, VmExit, At
    <3>2. v # cur
      BY <2>1, <3>1 DEF InPause
    <3>3. UNCHANGED state \/ \E s : state' = [state EXCEPT ![v] = s]
      BY <2>2 DEF VmPause, VmResume, VmExit, MarkPaused, MarkRunning, SetState, statusVars
    <3> QED
      BY <1>2, <3>2, <3>3 DEF IInv, TypeOK, StatusTypeOK
  <2>3. CASE ~ (VmPause(v) \/ VmResume(v) \/ VmExit(v))
    <3>1. UNCHANGED state
      BY <2>3 DEF VmStep, VmBoot, VmUnreadable, VmPoll, VmInstruction, VmEnd, VmFailed,
                  VmAnnounce, VmReceive, VmDetached, VmServe, VmSendExited,
                  VmSendTerminated, VmPanic, InstallInterrupt, statusVars
    <3> QED
      BY <1>2, <3>1
  <2> QED
    BY <2>2, <2>3
<1> QED
  BY <1>1, <1>2, QueryFrame

LEMMA QueryStep == IInv /\ QueryInv /\ [Next]_vars => QueryInv'
<1> SUFFICES ASSUME IInv, QueryInv, [Next]_vars PROVE QueryInv'
  OBVIOUS
<1>1. ASSUME NEW k \in ClientKinds, ReadRequest(k) PROVE QueryInv'
  <2>1. /\ apc' \notin {"refusing", "asking", "receiving"}
        /\ req'.kind = k
        /\ k = "query" => ~ result' /\ apc' \notin {"terminating", "dropping"}
    BY <1>1 DEF ReadRequest, AGoto
  <2> QED
    BY <2>1 DEF QueryInv
<1>2. CASE AskVm
  <2>1. /\ apc = "asking" /\ req.kind = "query" /\ state[cur] = "Paused" /\ attached[cur]
        /\ cur \in Vms
    BY <1>2 DEF AskVm, IInv, TypeOK, ChannelInv, AdapterInv, Vms
  <2>2. /\ apc' \in {"receiving", "responding"}
        /\ UNCHANGED <<state, req, cur, attached, result>>
    BY <1>2 DEF AskVm, AGoto, statusVars
  <2>3. ~ result
    BY <2>1 DEF QueryInv
  <2> QED
    BY <2>1, <2>2, <2>3 DEF QueryInv
<1>3. CASE ReceiveReply
  BY <1>3 DEF ReceiveReply, AGoto, QueryInv, statusVars
<1>4. CASE ReplyTimesOut \/ Refuse
  <2>1. req.kind = "query" => ~ result
    BY <1>4 DEF ReplyTimesOut, Refuse, QueryInv
  <2> QED
    BY <1>4, <2>1 DEF ReplyTimesOut, Refuse, AGoto, QueryInv
<1>5. CASE WaitUntilPaused \/ WaitTimesOut
  <2>1. /\ apc = "waiting" /\ apc' \in {"refusing", "asking", "beginning"}
        /\ req'.kind = req.kind /\ result' = result
    BY <1>5 DEF WaitUntilPaused, WaitTimesOut, AGoto, IInv, TypeOK
  <2> QED
    BY <2>1 DEF QueryInv
<1>6. CASE BeginResumeOf \/ SendResume
  <2>1. req.kind = "resume" /\ req' = req /\ apc' \in {"sending", "refusing", "responding"}
    BY <1>6 DEF BeginResumeOf, SendResume, AGoto, IInv, ChannelInv, AdapterInv
  <2> QED
    BY <2>1 DEF QueryInv
<1>7. CASE TerminateVm
  BY <1>7 DEF TerminateVm, AGoto, QueryInv
<1>8. CASE DropSender
  <2>1. apc = "dropping" /\ apc' = "responding" /\ req' = req
    BY <1>8 DEF DropSender, AGoto
  <2>2. req.kind # "query"
    BY <2>1 DEF QueryInv
  <2> QED
    BY <2>1, <2>2 DEF QueryInv
<1>9. CASE LaunchReplace \/ LaunchRespond \/ LaunchAnnounce \/ LaunchSpawn \/ Respond \/ Greet
           \/ EndOfInput
  <2>1. apc' \in {"launchResponding", "announcing", "spawning", "idle", "quit", "greeting"}
    BY <1>9 DEF LaunchReplace, LaunchRespond, LaunchAnnounce, LaunchSpawn, Respond, Greet,
                EndOfInput, AGoto
  <2> QED
    BY <2>1 DEF QueryInv
<1>10. CASE ForwarderTake \/ ForwarderWrite \/ UNCHANGED vars
  <2>1. UNCHANGED <<apc, req, result, cur, attached, state>>
    BY <1>10 DEF ForwarderTake, ForwarderWrite, vars, adapterVars, statusVars
  <2> QED
    BY <2>1, QueryFrame
<1>11. CASE \E v \in Vms : VmStep(v) \/ VmPanic(v)
  BY <1>11, QueryVmStep
<1> QED
  BY <1>1, <1>2, <1>3, <1>4, <1>5, <1>6, <1>7, <1>8, <1>9, <1>10, <1>11 DEF Next, AdapterStep

LEMMA ExitAdapterStep ==
  ASSUME IInv, QueryInv, ExitInv, AdapterStep
  PROVE  ExitInv'
<1>1. CASE LaunchRespond
  <2>1. /\ apc = "launchResponding" /\ wire' = Append(wire, Response(TRUE))
        /\ UNCHANGED <<evq, fwd, vpc>> /\ cur \in Vms
    BY <1>1 DEF LaunchRespond, vmVars, IInv, TypeOK, ChannelInv, AdapterInv, Vms
  <2>2. Response(TRUE) \in Messages
    BY <2>1, ResponseTyped DEF IInv, ChannelInv, AdapterInv
  <2>3. Response(TRUE).type = "response" /\ Response(TRUE).vm = cur
    BY DEF Response
  <2>4. vpc[cur] = "none"
    BY <2>1 DEF IInv, ChannelInv, AdapterInv
  <2>5. \A i \in 1..Len(wire) : wire[i].type = "exited" => wire[i].vm # cur
    BY <2>4 DEF ExitInv, ExitsAreLast
  <2>6. ExitedStay
    BY <2>1 DEF ExitedStay
  <2> QED
    BY <2>1, <2>2, <2>3, <2>5, <2>6, ExitWrites
<1>2. CASE LaunchAnnounce
  <2>1. /\ apc = "announcing" /\ wire' = Append(wire, Event("process", cur, 0))
        /\ UNCHANGED <<evq, fwd, vpc>> /\ cur \in Vms
    BY <1>2 DEF LaunchAnnounce, vmVars, IInv, TypeOK, ChannelInv, AdapterInv, Vms
  <2>2. Event("process", cur, 0) \in Messages
    BY EventTyped DEF IInv, TypeOK
  <2>3. Event("process", cur, 0).type = "process" /\ Event("process", cur, 0).vm = cur
    BY DEF Event
  <2>4. vpc[cur] = "none"
    BY <2>1 DEF IInv, ChannelInv, AdapterInv
  <2>5. \A i \in 1..Len(wire) : wire[i].type = "exited" => wire[i].vm # cur
    BY <2>4 DEF ExitInv, ExitsAreLast
  <2>6. ExitedStay
    BY <2>1 DEF ExitedStay
  <2> QED
    BY <2>1, <2>2, <2>3, <2>5, <2>6, ExitWrites
<1>3. CASE Respond
  <2>1. /\ apc = "responding" /\ wire' = Append(wire, Response(result))
        /\ UNCHANGED <<evq, fwd, vpc>>
    BY <1>3 DEF Respond, vmVars
  <2>2. Response(result) \in Messages
    BY <2>1, ResponseTyped DEF IInv, TypeOK, ChannelInv, AdapterInv
  <2>3. /\ Response(result).type = "response" /\ Response(result).vm = cur
        /\ Response(result).kind = req.kind /\ Response(result).ok = result
    BY DEF Response
  <2>4. ASSUME req.kind = "query", result
        PROVE  \A i \in 1..Len(wire) : wire[i].type = "exited" => wire[i].vm # cur
    <3>1. cur \in Vms /\ attached[cur] /\ state[cur] = "Paused"
      BY <2>1, <2>4 DEF QueryInv
    <3>2. InPause(cur) \/ vpc[cur] = "panicked"
      BY <3>1 DEF IInv, ChannelInv, PauseInv
    <3> QED
      BY <3>2 DEF InPause, ExitInv, ExitsAreLast
  <2>5. ExitedStay
    BY <2>1 DEF ExitedStay
  <2> QED
    BY <2>1, <2>2, <2>3, <2>4, <2>5, ExitWrites
<1>4. CASE Greet
  <2>1. /\ wire' = Append(wire, Event("initialized", 0, 0))
        /\ UNCHANGED <<evq, fwd, vpc>>
    BY <1>4 DEF Greet, vmVars
  <2>2. Event("initialized", 0, 0) \in Messages
    BY EventTyped
  <2>3. Event("initialized", 0, 0).type = "initialized" /\ Event("initialized", 0, 0).vm = 0
    BY DEF Event
  <2>4. \A i \in 1..Len(wire) : wire[i].type = "exited" => wire[i].vm # 0
    BY DEF ExitInv, ExitsAreLast, Vms
  <2>5. ExitedStay
    BY <2>1 DEF ExitedStay
  <2> QED
    BY <2>1, <2>2, <2>3, <2>4, <2>5, ExitWrites
<1>5. CASE LaunchSpawn
  <2>1. /\ UNCHANGED <<wire, evq, fwd>> /\ vpc' = [vpc EXCEPT ![cur] = "boot"]
        /\ vpc[cur] = "none"
    BY <1>5 DEF LaunchSpawn, chanVars, IInv, ChannelInv, AdapterInv
  <2>2. ExitedStay
    BY <2>1 DEF ExitedStay, IInv, TypeOK
  <2> QED
    BY <2>1, <2>2, ExitFrame
<1>6. CASE LaunchReplace \/ WaitUntilPaused \/ WaitTimesOut \/ Refuse \/ AskVm \/ ReceiveReply
           \/ ReplyTimesOut \/ BeginResumeOf \/ SendResume \/ TerminateVm \/ DropSender
  <2>1. UNCHANGED <<wire, evq, fwd, vpc>>
    BY <1>6 DEF LaunchReplace, WaitUntilPaused, WaitTimesOut, Refuse, AskVm, ReceiveReply,
                ReplyTimesOut, BeginResumeOf, SendResume, TerminateVm, DropSender, vmVars, chanVars
  <2>2. ExitedStay
    BY <2>1 DEF ExitedStay
  <2> QED
    BY <2>1, <2>2, ExitFrame
<1> QED
  BY <1>1, <1>2, <1>3, <1>4, <1>5, <1>6 DEF AdapterStep

LEMMA ExitStep == IInv /\ LaunchInv /\ QueryInv /\ ExitInv /\ [Next]_vars => ExitInv'
<1> SUFFICES ASSUME IInv, LaunchInv, QueryInv, ExitInv, [Next]_vars PROVE ExitInv'
  OBVIOUS
<1>1. CASE AdapterStep
  BY <1>1, ExitAdapterStep
<1>2. CASE ForwarderTake \/ ForwarderWrite
  BY <1>2, ExitForwarderStep
<1>3. CASE \E v \in Vms : VmStep(v) \/ VmPanic(v)
  BY <1>3, ExitVmStep
<1>4. CASE (\E k \in ClientKinds : ReadRequest(k)) \/ EndOfInput \/ UNCHANGED vars
  <2>1. UNCHANGED <<wire, evq, fwd, vpc>>
    BY <1>4 DEF ReadRequest, EndOfInput, vars, vmVars, chanVars
  <2>2. ExitedStay
    BY <2>1 DEF ExitedStay
  <2> QED
    BY <2>1, <2>2, ExitFrame
<1> QED
  BY <1>1, <1>2, <1>3, <1>4 DEF Next

LEMMA ExitStart == Init => ExitInv /\ QueryInv
<1> SUFFICES ASSUME Init PROVE ExitInv /\ QueryInv
  OBVIOUS
<1>1. Len(wire) = 0 /\ Len(evq) = 0 /\ Len(fwd) = 0
  BY EmptySeq DEF Init
<1> QED
  BY <1>1 DEF Init, ExitInv, QueryInv, ExitsAreLast, OnlyTerminated, NothingAfterExit

-----------------------------------------------------------------------------
(* Theorems *)

\* Every reachable state of `wq dap` satisfies the four invariants.
LEMMA OrderInvariants ==
  Spec => [](IInv /\ StandingInv /\ LaunchInv /\ QueryInv /\ ExitInv)
<1>1. Init => IInv /\ StandingInv /\ LaunchInv /\ QueryInv /\ ExitInv
  BY InitInv, StandingStart, LaunchStart, ExitStart
<1>2. IInv /\ StandingInv /\ LaunchInv /\ QueryInv /\ ExitInv /\ [Next]_vars
      => (IInv /\ StandingInv /\ LaunchInv /\ QueryInv /\ ExitInv)'
  BY TypeStep, ChannelStep, StandingStep, LaunchStep, QueryStep, ExitStep DEF IInv
<1> QED
  BY <1>1, <1>2, PTL DEF Spec

\* The last stop a client was shown and has not ended itself is one the
\* debuggee is in: its status is Paused, or it is being terminated.
THEOREM StopTheorem == Spec => []StopShownIsReal
<1>1. IInv /\ StandingInv /\ LaunchInv => StopShownIsReal
  <2> SUFFICES ASSUME IInv, StandingInv, LaunchInv,
                      NEW i \in 1..Len(wire), wire[i].type = "stopped",
                      resumed[wire[i].vm] < stops[wire[i].vm], attached[wire[i].vm]
               PROVE  state[wire[i].vm] \in {"Paused", "Terminating"}
    BY DEF StopShownIsReal
  <2>1. wire[i].vm \in Vms
    BY DEF LaunchInv, WrittenOfVms, EventsOfVms
  <2> QED
    BY <2>1 DEF StandingInv, Standing
<1> QED
  BY <1>1, OrderInvariants, PTL

\* No event of a VM overtakes the response to its Launch and the Process event,
\* although another thread writes it: Command::Launch spawns the VM last.
THEOREM LaunchTheorem == Spec => []LaunchComesFirst
<1>1. LaunchInv => LaunchComesFirst
  BY DEF LaunchInv
<1> QED
  BY <1>1, OrderInvariants, PTL

\* After the exit of a VM the client hears only that it has terminated, and
\* responses, none of them a successful query of its stack or variables.
THEOREM AfterExitTheorem == Spec => []NothingAfterExit
<1>1. ExitInv => NothingAfterExit
  BY DEF ExitInv
<1> QED
  BY <1>1, OrderInvariants, PTL
=============================================================================
