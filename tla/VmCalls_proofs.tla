--------------------------- MODULE VmCalls_proofs ---------------------------
(***************************************************************************)
(* The properties of VmCalls, proved for any functions and modules, any    *)
(* depth of calls and any nesting of regions.                              *)
(***************************************************************************)
EXTENDS VmCalls, SequenceTheorems, FiniteSetTheorems, WellFoundedInduction, TLAPS

-----------------------------------------------------------------------------
(* Sequences.                                                              *)

\* What is left of a stack from which entries are popped.
LEMMA PrefixLemma ==
  ASSUME NEW S, NEW s \in Seq(S), NEW n \in 0 .. Len(s)
  PROVE  /\ SubSeq(s, 1, n) \in Seq(S)
         /\ Len(SubSeq(s, 1, n)) = n
         /\ DOMAIN SubSeq(s, 1, n) = 1 .. n
         /\ \A i \in 1 .. n : SubSeq(s, 1, n)[i] = s[i]
<1>1. \A i \in 1 .. n : s[i] \in S
  BY ElementOfSeq, LenProperties
<1>2. 1 \in Int /\ n \in Int /\ n - 1 + 1 = n /\ \A i \in 1 .. n : 1 + i - 1 = i
  OBVIOUS
<1>3. /\ SubSeq(s, 1, n) \in Seq(S)
      /\ Len(SubSeq(s, 1, n)) = IF 1 <= n THEN n - 1 + 1 ELSE 0
      /\ \A i \in 1 .. n - 1 + 1 : SubSeq(s, 1, n)[i] = s[1 + i - 1]
  BY <1>1, <1>2, SubSeqProperties
<1>4. Len(SubSeq(s, 1, n)) = n
  BY <1>3
<1> QED
  BY <1>2, <1>3, <1>4, LenProperties

LEMMA FrontLemma ==
  ASSUME NEW S, NEW s \in Seq(S), s # <<>>
  PROVE  /\ Front(s) \in Seq(S)
         /\ Len(Front(s)) = Len(s) - 1
         /\ DOMAIN Front(s) = 1 .. Len(s) - 1
         /\ \A i \in 1 .. Len(s) - 1 : Front(s)[i] = s[i]
         /\ Len(s) \in Nat \ {0}
         /\ Last(s) \in S
<1>1. Len(s) \in Nat \ {0}
  BY EmptySeq
<1>2. Len(s) - 1 \in 0 .. Len(s)
  BY <1>1
<1>3. Last(s) \in S
  BY <1>1, ElementOfSeq DEF Last
<1> QED
  BY <1>1, <1>2, <1>3, PrefixLemma DEF Front

\* Vec::pop of an empty stack leaves it so.
LEMMA FrontTypeLemma ==
  ASSUME NEW S, NEW s \in Seq(S)
  PROVE  Front(s) \in Seq(S)
<1>1. CASE s = <<>>
  <2>1. Len(s) = 0
    BY <1>1, EmptySeq
  <2>2. Front(s) = <<>>
    BY <2>1, SubSeqEmpty DEF Front
  <2> QED
    BY <2>2, EmptySeq
<1>2. CASE s # <<>>
  BY <1>2, FrontLemma
<1> QED
  BY <1>1, <1>2

LEMMA AppendLemma ==
  ASSUME NEW S, NEW s \in Seq(S), NEW e \in S
  PROVE  /\ Append(s, e) \in Seq(S)
         /\ Len(Append(s, e)) = Len(s) + 1
         /\ DOMAIN Append(s, e) = 1 .. Len(s) + 1
         /\ \A i \in 1 .. Len(s) : Append(s, e)[i] = s[i]
         /\ Append(s, e)[Len(s) + 1] = e
  BY AppendProperties, LenProperties

\* The last entry of a stack is replaced.
LEMMA TopLemma ==
  ASSUME NEW S, NEW s \in Seq(S), s # <<>>, NEW e \in S
  PROVE  /\ [s EXCEPT ![Len(s)] = e] \in Seq(S)
         /\ Len([s EXCEPT ![Len(s)] = e]) = Len(s)
         /\ DOMAIN [s EXCEPT ![Len(s)] = e] = 1 .. Len(s)
         /\ \A i \in 1 .. Len(s) - 1 : [s EXCEPT ![Len(s)] = e][i] = s[i]
         /\ [s EXCEPT ![Len(s)] = e][Len(s)] = e
<1>1. Len(s) \in Nat \ {0}
  BY EmptySeq
<1>2. Len(s) \in 1 .. Len(s)
  BY <1>1
<1>3. /\ [s EXCEPT ![Len(s)] = e] \in Seq(S)
      /\ Len([s EXCEPT ![Len(s)] = e]) = Len(s)
      /\ \A j \in 1 .. Len(s) : [s EXCEPT ![Len(s)] = e][j] = IF j = Len(s) THEN e ELSE s[j]
  BY <1>2, ExceptSeq
<1> DEFINE t == [s EXCEPT ![Len(s)] = e]
<1>4. DOMAIN t = 1 .. Len(t)
  BY <1>3, LenProperties
<1> HIDE DEF t
<1>5. /\ t \in Seq(S) /\ Len(t) = Len(s)
      /\ \A j \in 1 .. Len(s) : t[j] = IF j = Len(s) THEN e ELSE s[j]
  BY <1>3 DEF t
<1>6. \A i \in 1 .. Len(s) - 1 : t[i] = s[i]
  BY <1>1, <1>5
<1>7. t[Len(s)] = e
  BY <1>2, <1>5
<1> QED
  BY <1>4, <1>5, <1>6, <1>7 DEF t


-----------------------------------------------------------------------------
(* Steps of the stacks of activations, try frames and saved values.        *)

\* A set of natural numbers has a least one.
LEMMA LeastLemma ==
  ASSUME NEW T \in SUBSET Nat, T # {}
  PROVE  \E x \in T : \A y \in T : x <= y
<1> DEFINE R == OpToRel(<, Nat)
<1>1. IsWellFoundedOn(R, Nat)
  BY NatLessThanWellFounded
<1>2. \A x, y \in Nat : y < x => <<y, x>> \in R
  BY DEF OpToRel
<1> HIDE DEF R
<1>3. PICK x \in T : \A y \in T : ~ (<<y, x>> \in R)
  BY <1>1, WFMin
<1>4. \A y \in T : ~ (y < x)
  BY <1>2, <1>3
<1> QED
  BY <1>3, <1>4

\* The pop loop stops, below the try frames of the running activation.
LEMMA KeptLemma ==
  ASSUME TypeOK
  PROVE  /\ Kept \in 0 .. Len(tries)
         /\ Kept > 0 => tries[Kept].depth # Depth
         /\ \A i \in Kept + 1 .. Len(tries) : tries[i].depth = Depth
<1> DEFINE T == {n \in 0 .. Len(tries) : \A i \in n + 1 .. Len(tries) : tries[i].depth = Depth}
<1>1. Len(tries) \in Nat
  BY DEF TypeOK
<1>2. T \in SUBSET Nat /\ Len(tries) \in T
  BY <1>1
<1>3. PICK n \in T : \A m \in T : n <= m
  BY <1>2, LeastLemma
<1>4. n > 0 => tries[n].depth # Depth
  <2>1. SUFFICES ASSUME n > 0, tries[n].depth = Depth
                 PROVE  FALSE
    OBVIOUS
  <2>2. \A i \in n .. Len(tries) : tries[i].depth = Depth
    BY <1>1, <1>3, <2>1
  <2>3. n - 1 \in T
    BY <1>1, <1>3, <2>1, <2>2
  <2>4. n <= n - 1
    BY <1>3, <2>3
  <2>5. n \in Nat
    BY <1>1, <1>3
  <2> QED
    BY <2>4, <2>5
<1> QED
  BY <1>3, <1>4 DEF Kept


\* The running activation, and what rewinding leaves of the saved values.
LEMMA HereLemma ==
  ASSUME TypeOK
  PROVE  /\ acts # <<>> /\ Len(acts) \in Nat \ {0}
         /\ Depth \in 0 .. MaxDepth /\ Len(acts) = Depth + 1
         /\ DOMAIN acts = 1 .. Len(acts)
         /\ \A a \in 1 .. Len(acts) : acts[a] \in Activations
         /\ Here = acts[Len(acts)] /\ Here \in Activations
<1>1. acts \in Seq(Activations) /\ Len(acts) \in 1 .. MaxDepth + 1 /\ MaxDepth \in Nat
  BY VmCallsAssumption DEF TypeOK
<1>2. Len(acts) \in Nat \ {0} /\ Depth \in 0 .. MaxDepth /\ Len(acts) = Depth + 1
  BY <1>1 DEF Depth
<1>3. acts # <<>>
  BY <1>2, EmptySeq
<1>4. \A a \in 1 .. Len(acts) : acts[a] \in Activations
  BY <1>1, ElementOfSeq
<1>5. DOMAIN acts = 1 .. Len(acts)
  BY <1>1, LenProperties
<1> QED
  BY <1>2, <1>3, <1>4, <1>5 DEF Here, Last

LEMMA RewoundLemma ==
  ASSUME TypeOK, NEW n \in Nat
  PROVE  /\ Rewound(n) \in Seq(SavedValues)
         /\ DOMAIN Rewound(n) = 1 .. Len(Rewound(n))
         /\ Len(Rewound(n)) = IF n < Len(unpacks) THEN n ELSE Len(unpacks)
         /\ Len(Rewound(n)) \in Nat
         /\ \A i \in DOMAIN Rewound(n) : i \in DOMAIN unpacks /\ Rewound(n)[i] = unpacks[i]
<1>1. unpacks \in Seq(SavedValues) /\ Len(unpacks) \in Nat /\ DOMAIN unpacks = 1 .. Len(unpacks)
  BY LenProperties DEF TypeOK
<1>2. CASE n < Len(unpacks)
  <2>1. n \in 0 .. Len(unpacks)
    BY <1>1, <1>2
  <2>2. Rewound(n) = SubSeq(unpacks, 1, n)
    BY <1>2 DEF Rewound
  <2> QED
    BY <1>1, <1>2, <2>1, <2>2, PrefixLemma
<1>3. CASE ~ (n < Len(unpacks))
  BY <1>1, <1>3 DEF Rewound
<1> QED
  BY <1>2, <1>3

\* The code ends inside or outside of some regions: the regions are a prefix.
LEMMA PlaceLemma ==
  ASSUME TypeOK, NEW k \in 0 .. Len(Here.lex)
  PROVE  /\ SubSeq(Here.lex, 1, k) \in Seq({"try", "unpack"})
         /\ Len(SubSeq(Here.lex, 1, k)) = k
         /\ \A i \in 1 .. k : SubSeq(Here.lex, 1, k)[i] = Here.lex[i]
<1>1. Here.lex \in Seq({"try", "unpack"})
  BY HereLemma DEF Activations
<1> QED
  BY <1>1, PrefixLemma

Moved(lex) == [acts EXCEPT ![Len(acts)].lex = lex]

\* A step within the running activation changes where it is, and nothing else.
LEMMA MovedLemma ==
  ASSUME TypeOK, NEW lex \in Seq({"try", "unpack"})
  PROVE  /\ Moved(lex) \in Seq(Activations) /\ Len(Moved(lex)) = Len(acts)
         /\ DOMAIN Moved(lex) = 1 .. Len(acts)
         /\ \A a \in 1 .. Len(acts) - 1 : Moved(lex)[a] = acts[a]
         /\ \A a \in 1 .. Len(acts) : /\ Moved(lex)[a].code = acts[a].code
                                      /\ Moved(lex)[a].module = acts[a].module
                                      /\ Moved(lex)[a].unpack = acts[a].unpack
         /\ Moved(lex)[Len(acts)].lex = lex
<1> DEFINE act == [Here EXCEPT !.lex = lex]
<1>1. act \in Activations
  BY HereLemma DEF Activations
<1>2. Moved(lex) = [acts EXCEPT ![Len(acts)] = act]
  BY HereLemma DEF Moved
<1>3. act.lex = lex /\ act.code = Here.code /\ act.module = Here.module /\ act.unpack = Here.unpack
  BY HereLemma DEF Activations
<1>4. acts \in Seq(Activations) /\ acts # <<>>
  BY HereLemma DEF TypeOK
<1> HIDE DEF act
<1>5. /\ Moved(lex) \in Seq(Activations) /\ Len(Moved(lex)) = Len(acts)
      /\ DOMAIN Moved(lex) = 1 .. Len(acts)
      /\ \A a \in 1 .. Len(acts) - 1 : Moved(lex)[a] = acts[a]
      /\ Moved(lex)[Len(acts)] = act
  BY <1>1, <1>2, <1>4, TopLemma
<1>6. Here = acts[Len(acts)] /\ Len(acts) \in Nat \ {0}
  BY HereLemma
<1>7. \A a \in 1 .. Len(acts) : a \in 1 .. Len(acts) - 1 \/ a = Len(acts)
  BY <1>6
<1> QED
  BY <1>3, <1>5, <1>6, <1>7

\* A call puts an activation on top, whose regions are none.
LEMMA CalledLemma ==
  ASSUME TypeOK, NEW code \in Codes, NEW module \in Modules \cup {NoModule},
         NEW lex \in Seq({"try", "unpack"}), Called(code, module, lex)
  PROVE  /\ acts' \in Seq(Activations) /\ Len(acts') = Len(acts) + 1
         /\ DOMAIN acts' = 1 .. Len(acts) + 1
         /\ \A a \in 1 .. Len(acts) : acts'[a] = Moved(lex)[a]
         /\ acts'[Len(acts) + 1].code = code
         /\ acts'[Len(acts) + 1].module = module
         /\ acts'[Len(acts) + 1].lex = <<>>
         /\ acts'[Len(acts) + 1].unpack = Len(unpacks)
<1>1. Len(unpacks) \in Nat
  BY LenProperties DEF TypeOK
<1>2. Activation(code, module, Len(unpacks)) \in Activations
  BY <1>1, EmptySeq DEF Activation, Activations
<1>3. acts' = Append(Moved(lex), Activation(code, module, Len(unpacks)))
  BY DEF Called, Moved
<1>4. /\ acts' \in Seq(Activations) /\ Len(acts') = Len(acts) + 1
      /\ DOMAIN acts' = 1 .. Len(acts) + 1
      /\ \A a \in 1 .. Len(acts) : acts'[a] = Moved(lex)[a]
      /\ acts'[Len(acts) + 1] = Activation(code, module, Len(unpacks))
  BY <1>2, <1>3, MovedLemma, AppendLemma
<1> QED
  BY <1>4 DEF Activation

\* An activation ends, and the one below runs.
LEMMA PoppedLemma ==
  ASSUME TypeOK, acts' = Front(acts), Depth > 0
  PROVE  /\ acts' \in Seq(Activations) /\ Len(acts') = Len(acts) - 1
         /\ DOMAIN acts' = 1 .. Len(acts) - 1 /\ Len(acts) - 1 \in Nat \ {0}
         /\ \A a \in 1 .. Len(acts) - 1 : acts'[a] = acts[a]
<1>1. acts \in Seq(Activations) /\ acts # <<>> /\ Len(acts) = Depth + 1 /\ Depth \in Nat
  BY HereLemma, VmCallsAssumption DEF TypeOK
<1> QED
  BY <1>1, FrontLemma

\* The try frames that are left when an activation ends.
LEMMA DiscardedLemma ==
  ASSUME TypeOK
  PROVE  /\ Discarded \in Seq(TryFrames)
         /\ DOMAIN Discarded = 1 .. Kept /\ Len(Discarded) = Kept
         /\ \A i \in 1 .. Kept : i \in DOMAIN tries /\ Discarded[i] = tries[i]
<1>1. tries \in Seq(TryFrames) /\ Kept \in 0 .. Len(tries) /\ DOMAIN tries = 1 .. Len(tries)
  BY KeptLemma, LenProperties DEF TypeOK
<1> QED
  BY <1>1, PrefixLemma DEF Discarded


-----------------------------------------------------------------------------
(* What a step does to the activations, the try frames and the saved       *)
(* values is one of a few things, whatever else it does.                   *)

Pushes(module) ==
  \E code \in Codes, k \in 0 .. Len(Here.lex) :
    /\ Room
    /\ \A i \in k + 1 .. Len(Here.lex) : Here.lex[i] = "try"
    /\ Called(code, module, SubSeq(Here.lex, 1, k))
    /\ UNCHANGED <<tries, unpacks>>

Leaves ==
  \E k \in 0 .. Len(Here.lex) :
    /\ ~Escapes => \A i \in k + 1 .. Len(Here.lex) : Here.lex[i] = "try"
    /\ Position(SubSeq(Here.lex, 1, k))
    /\ UNCHANGED <<tries, unpacks>>

Recodes ==
  /\ TailPosition /\ ~AtBoundary
  /\ \E code \in Codes : acts' = [acts EXCEPT ![Len(acts)].code = code]
  /\ UNCHANGED <<tries, unpacks>>

Pops ==
  /\ Depth > 0
  /\ acts' = Front(acts) /\ tries' = Discarded /\ unpacks' = Rewound(Here.unpack)

Ends ==
  /\ Depth = 0 /\ status' \in {"ready", "failed"}
  /\ acts' = acts /\ tries' = Discarded /\ unpacks' = RewoundOwn

Regions == TryOpen \/ UnpackOpen \/ UnpackClose \/ FinishTry \/ CatchTry

Imports(m) ==
  /\ CanExecute /\ Pushes(m)
  /\ cache[m] = "none"
  /\ cache' = [cache EXCEPT ![m] = "loading"] /\ loading' = Append(loading, m)

Resets ==
  /\ \E code \in Codes : acts' = Root(code)
  /\ tries' = <<>> /\ unpacks' = <<>> /\ loading' = <<>>
  /\ cache' = Forgotten \/ cache' = [m \in Modules |-> "none"]

Stays == (Live' => Live) /\ UNCHANGED <<acts, tries, unpacks, modules>>

StackStep ==
  \/ /\ Live /\ UNCHANGED modules
     /\ Pushes(NoModule) \/ Leaves \/ Recodes \/ Ends \/ Regions
  \/ \E m \in Modules : Imports(m)
  \/ Live /\ Pops /\ (FinishModule(Here.module) \/ FailModule(Here.module))
  \/ Pops /\ CaptureError
  \/ Resets
  \/ Stays

\* Where an instruction leaves the program counter, as the number of regions.
LEMMA AfterLemma ==
  ASSUME TypeOK, NEW lex \in After
  PROVE  \E k \in 0 .. Len(Here.lex) :
           /\ lex = SubSeq(Here.lex, 1, k)
           /\ \A i \in k + 1 .. Len(Here.lex) : Here.lex[i] = "try"
  BY DEF After

LEMMA HereAfterLemma ==
  ASSUME TypeOK
  PROVE  Here.lex \in After
<1>1. Here.lex \in Seq({"try", "unpack"})
  BY HereLemma DEF Activations
<1>2. SubSeq(Here.lex, 1, Len(Here.lex)) = Here.lex /\ Len(Here.lex) \in Nat
  BY <1>1, SubSeqFull
<1>3. Len(Here.lex) \in {k \in 0 .. Len(Here.lex) :
                           \A i \in k + 1 .. Len(Here.lex) : Here.lex[i] = "try"}
  BY <1>2
<1> QED
  BY <1>2, <1>3 DEF After

LEMMA PushesLemma ==
  ASSUME TypeOK, NEW code \in Codes, NEW module, NEW lex \in After,
         Room, Called(code, module, lex), UNCHANGED <<tries, unpacks>>
  PROVE  Pushes(module)
  BY AfterLemma DEF Pushes

LEMMA LeavesLemma ==
  ASSUME TypeOK, NEW lex \in After, Position(lex), UNCHANGED <<tries, unpacks>>
  PROVE  Leaves
  BY AfterLemma DEF Leaves

LEMMA ExecuteStackStep ==
  ASSUME TypeOK, Execute
  PROVE  StackStep
<1> USE DEF CanExecute, Free, Loop
<1>1. ASSUME NEW code \in Codes, Call(code)
      PROVE  StackStep
  BY <1>1, PushesLemma, LeavesLemma DEF Call, StackStep, Live
<1>2. ASSUME NEW code \in Codes, TailCall(code)
      PROVE  StackStep
  BY <1>2 DEF TailCall, Recodes, StackStep, Live
<1>3. ASSUME NEW code \in Codes, NativeCalls(code)
      PROVE  StackStep
  BY <1>3, PushesLemma, HereAfterLemma DEF NativeCalls, InNative, StackStep, Live
<1>4. ASSUME NEW code \in Codes, FrameCalls(code)
      PROVE  StackStep
  BY <1>4, PushesLemma, HereAfterLemma DEF FrameCalls, FrameStep, StackStep, Live, Stays
<1>5. ASSUME FinishCall, status = "running"
      PROVE  StackStep
  <2>1. Depth \in Nat
    BY HereLemma
  <2>2. CASE Depth = 0
    BY <1>5, <2>2 DEF FinishCall, StackStep, Live, Ends
  <2>3. CASE Depth # 0
    BY <1>5, <2>1, <2>3 DEF FinishCall, StackStep, Live, Pops
  <2> QED
    BY <2>2, <2>3
<1>6. CASE Return \/ HaltLeave
  BY <1>5, <1>6 DEF Return, HaltLeave
<1>7. CASE TryOpen \/ UnpackOpen \/ UnpackClose \/ FinishTry
  BY <1>7 DEF TryOpen, UnpackOpen, UnpackClose, FinishTry, OpenRegion, StackStep, Live, Regions
<1>8. ASSUME NEW k \in 0 .. Len(Here.lex) - 1, Jump(k)
      PROVE  StackStep
  <2>1. k \in 0 .. Len(Here.lex)
    BY HereLemma DEF Activations
  <2> QED
    BY <1>8, <2>1 DEF Jump, StackStep, Live, Leaves
<1>9. ASSUME NEW e \in {"user", "machine"}, Raise(e)
      PROVE  StackStep
  BY <1>9 DEF Raise, StackStep, Stays, Live
<1>10. CASE CatchTry
  BY <1>10 DEF CatchTry, Unwinding, StackStep, Live, Regions
<1>11. CASE CaptureError
  <2>1. Depth > 0
    <3>1. builtins \in Seq(BuiltinFrames) /\ builtins # <<>>
      BY <1>11 DEF CaptureError, Captured, CalledBack, TypeOK
    <3>2. Last(builtins) \in BuiltinFrames
      BY <3>1, FrontLemma
    <3>3. Last(builtins).owner \in Nat
      BY <3>2, VmCallsAssumption DEF BuiltinFrames
    <3> QED
      BY <1>11, <3>3 DEF CaptureError, Captured, CalledBack
  <2> QED
    BY <1>11, <2>1 DEF CaptureError, StackStep, Pops
<1>12. CASE UnwindCall
  BY <1>12 DEF UnwindCall, Unwinding, StackStep, Live, Pops
<1>13. CASE FailEvaluation
  BY <1>13 DEF FailEvaluation, Unwinding, StackStep, Live, Ends
<1>14. ASSUME NEW m \in Modules, Import(m)
       PROVE  StackStep
  BY <1>14, PushesLemma, LeavesLemma DEF Import, Imports, StackStep, Live
<1>15. ASSUME NEW captures \in BOOLEAN, StartFrame(captures) \/ StartNative(captures)
       PROVE  StackStep
  BY <1>15, LeavesLemma DEF StartFrame, StartNative, StackStep, Live
<1>16. CASE NativeReturns \/ NativeFails \/ NativeCaptures
  BY <1>16 DEF NativeReturns, NativeFails, NativeCaptures, NativeEnds, InNative, StackStep, Stays, Live
<1>17. CASE FrameCallsAtomic \/ FrameReads \/ FrameAcceptsInput
  BY <1>17 DEF FrameCallsAtomic, FrameReads, FrameAcceptsInput, FrameStep, StackStep, Stays, Live
<1>18. ASSUME NEW e \in {"none", "user"}, FrameEnds(e)
       PROVE  StackStep
  BY <1>18 DEF FrameEnds, FrameStep, StackStep, Stays, Live
<1>19. CASE Input
  BY <1>19, LeavesLemma DEF Input, StackStep, Live
<1>20. CASE Suspend \/ RaiseHostError
  BY <1>20 DEF Suspend, RaiseHostError, StackStep, Stays, Live
<1> QED
  BY <1>1, <1>2, <1>3, <1>4, <1>6, <1>7, <1>8, <1>9, <1>10, <1>11, <1>12, <1>13, <1>14,
     <1>15, <1>16, <1>17, <1>18, <1>19, <1>20 DEF Execute

LEMMA NextStackStep ==
  ASSUME TypeOK, [Next]_vars
  PROVE  StackStep
<1>1. CASE Execute
  BY <1>1, ExecuteStackStep
<1>2. CASE Interrupt
  BY <1>2 DEF Interrupt, StackStep, Stays, Live
<1>3. ASSUME NEW code \in Codes, NEW mode \in Modes, Start(code, mode)
      PROVE  StackStep
  BY <1>3 DEF Start, Clear, StackStep, Resets
<1>4. CASE TakeHalt
  BY <1>4 DEF TakeHalt, Ended, StackStep, Stays, Live
<1>5. CASE Cancel \/ ResetWorkspace
  <2>1. Here.code \in Codes
    BY HereLemma DEF Activations
  <2>2. (CHOOSE code \in Codes : TRUE) \in Codes
    BY <2>1
  <2> QED
    BY <1>5, <2>2 DEF Cancel, ResetWorkspace, ResetExecution, Clear, StackStep, Resets
<1>6. ASSUME NEW ok \in BOOLEAN, ResumeInput(ok)
      PROVE  StackStep
  BY <1>6 DEF ResumeInput, StackStep, Stays, Live
<1>7. CASE UNCHANGED vars
  BY <1>7 DEF vars, modules, StackStep, Stays, Live
<1> QED
  BY <1>1, <1>2, <1>3, <1>4, <1>5, <1>6, <1>7 DEF Next, Host


-----------------------------------------------------------------------------
(* Types.                                                                  *)

\* The regions of the running activation, when one opens, ends or is left.
LEMMA LexLemma ==
  ASSUME TypeOK
  PROVE  /\ Here.lex \in Seq({"try", "unpack"}) /\ Len(Here.lex) \in Nat
         /\ DOMAIN Here.lex = 1 .. Len(Here.lex)
         /\ Here.code \in Codes /\ Here.unpack \in Nat
         /\ Here.module \in Modules \cup {NoModule}
  BY HereLemma, LenProperties DEF Activations

LEMMA TopTryLemma ==
  ASSUME TypeOK, tries # <<>>
  PROVE  /\ Last(tries) \in TryFrames /\ Last(tries) = tries[Len(tries)]
         /\ Last(tries).depth \in Nat /\ Last(tries).level \in Nat \ {0}
         /\ Last(tries).unpack \in Nat
         /\ Len(tries) \in Nat \ {0} /\ Front(tries) \in Seq(TryFrames)
         /\ DOMAIN tries = 1 .. Len(tries)
         /\ DOMAIN Front(tries) = 1 .. Len(tries) - 1
         /\ \A i \in 1 .. Len(tries) - 1 : Front(tries)[i] = tries[i]
<1>1. tries \in Seq(TryFrames)
  BY DEF TypeOK
<1>2. /\ Last(tries) \in TryFrames /\ Len(tries) \in Nat \ {0} /\ Front(tries) \in Seq(TryFrames)
      /\ DOMAIN Front(tries) = 1 .. Len(tries) - 1
      /\ \A i \in 1 .. Len(tries) - 1 : Front(tries)[i] = tries[i]
  BY <1>1, FrontLemma
<1>3. Last(tries) = tries[Len(tries)]
  BY DEF Last
<1>4. DOMAIN tries = 1 .. Len(tries)
  BY <1>1, LenProperties
<1>5. /\ Last(tries).depth \in Nat /\ Last(tries).level \in Nat \ {0}
      /\ Last(tries).unpack \in Nat
  BY <1>2, VmCallsAssumption DEF TryFrames
<1> QED
  BY <1>2, <1>3, <1>4, <1>5

NewTry == [depth |-> Depth, code |-> Here.code,
           level |-> Len(Here.lex) + 1, unpack |-> Len(unpacks)]
NewSaved == [depth |-> Depth, level |-> Len(Here.lex) + 1]

LEMMA OpenLemma ==
  ASSUME TypeOK, NEW kind \in {"try", "unpack"}, OpenRegion(kind)
  PROVE  /\ Append(Here.lex, kind) \in Seq({"try", "unpack"})
         /\ acts' = Moved(Append(Here.lex, kind))
         /\ Len(Here.lex) + 1 \in 1 .. MaxRegions
<1>1. Append(Here.lex, kind) \in Seq({"try", "unpack"})
  BY LexLemma, AppendLemma
<1> QED
  BY <1>1, LexLemma, VmCallsAssumption DEF OpenRegion, Position, Moved

LEMMA NewTryLemma ==
  ASSUME TypeOK, TryOpen
  PROVE  NewTry \in TryFrames /\ tries' = Append(tries, NewTry)
<1>1. Len(Here.lex) + 1 \in 1 .. MaxRegions
  BY OpenLemma DEF TryOpen
<1>2. Len(unpacks) \in Nat
  BY LenProperties DEF TypeOK
<1> QED
  BY <1>1, <1>2, HereLemma, LexLemma DEF TryOpen, NewTry, TryFrames

LEMMA NewSavedLemma ==
  ASSUME TypeOK, UnpackOpen
  PROVE  NewSaved \in SavedValues /\ unpacks' = Append(unpacks, NewSaved)
<1>1. Len(Here.lex) + 1 \in 1 .. MaxRegions
  BY OpenLemma DEF UnpackOpen
<1> QED
  BY <1>1, HereLemma DEF UnpackOpen, NewSaved, SavedValues

LEMMA OutsideLemma ==
  ASSUME TypeOK, CatchTry
  PROVE  /\ Outside(Last(tries).level) \in Seq({"try", "unpack"})
         /\ acts' = Moved(Outside(Last(tries).level))
         /\ Len(Outside(Last(tries).level)) =
              IF Last(tries).level > Len(Here.lex) THEN Len(Here.lex) ELSE Last(tries).level - 1
         /\ \A i \in 1 .. Len(Outside(Last(tries).level)) :
              i \in 1 .. Len(Here.lex) /\ Outside(Last(tries).level)[i] = Here.lex[i]
<1>1. tries # <<>>
  BY DEF CatchTry, Catches, TryHere
<1>2. Last(tries).level \in Nat \ {0} /\ Len(Here.lex) \in Nat
  BY <1>1, TopTryLemma, LexLemma
<1>3. CASE Last(tries).level > Len(Here.lex)
  BY <1>2, <1>3, LexLemma DEF Outside, CatchTry, Position, Moved
<1>4. CASE ~ (Last(tries).level > Len(Here.lex))
  <2>1. Last(tries).level - 1 \in 0 .. Len(Here.lex)
    BY <1>2, <1>4
  <2>2. Outside(Last(tries).level) = SubSeq(Here.lex, 1, Last(tries).level - 1)
    BY <1>4 DEF Outside
  <2> QED
    BY <1>2, <1>4, <2>1, <2>2, PlaceLemma DEF CatchTry, Position, Moved
<1> QED
  BY <1>3, <1>4

LEMMA CloseLemma ==
  ASSUME TypeOK, UnpackClose
  PROVE  /\ Front(Here.lex) \in Seq({"try", "unpack"})
         /\ acts' = Moved(Front(Here.lex))
         /\ Len(Here.lex) \in Nat \ {0}
         /\ Len(Front(Here.lex)) = Len(Here.lex) - 1
         /\ \A i \in 1 .. Len(Here.lex) - 1 : Front(Here.lex)[i] = Here.lex[i]
         /\ Here.lex[Len(Here.lex)] = "unpack"
  BY LexLemma, FrontLemma DEF UnpackClose, Position, Moved, Last

LEMMA RootLemma ==
  ASSUME NEW code \in Codes
  PROVE  /\ Root(code) \in Seq(Activations) /\ Len(Root(code)) = 1
         /\ DOMAIN Root(code) = {1}
         /\ Root(code)[1].module = NoModule /\ Root(code)[1].lex = <<>>
         /\ Root(code)[1].unpack = 0
<1>1. Activation(code, NoModule, 0) \in Activations
  BY EmptySeq DEF Activation, Activations
<1>2. /\ Root(code) \in Seq(Activations) /\ Len(Root(code)) = 1
      /\ Root(code)[1] = Activation(code, NoModule, 0)
  BY <1>1 DEF Root
<1>3. DOMAIN Root(code) = {1}
  BY <1>2, LenProperties
<1> QED
  BY <1>2, <1>3 DEF Activation

StackTyped ==
  /\ acts' \in Seq(Activations) /\ Len(acts') \in 1 .. MaxDepth + 1
  /\ tries' \in Seq(TryFrames)
  /\ unpacks' \in Seq(SavedValues)

LEMMA StackTypes ==
  ASSUME TypeOK, StackStep
  PROVE  StackTyped
<1> USE DEF StackTyped
<1>1. /\ acts \in Seq(Activations) /\ tries \in Seq(TryFrames) /\ unpacks \in Seq(SavedValues)
      /\ Len(acts) \in 1 .. MaxDepth + 1 /\ MaxDepth \in Nat
      /\ Len(acts) = Depth + 1 /\ Depth \in Nat
  BY HereLemma, VmCallsAssumption DEF TypeOK
<1>2. ASSUME NEW module \in Modules \cup {NoModule}, Pushes(module)
      PROVE  StackTyped
  <2>1. PICK code \in Codes, k \in 0 .. Len(Here.lex) :
          Room /\ Called(code, module, SubSeq(Here.lex, 1, k))
    BY <1>2 DEF Pushes
  <2>2. acts' \in Seq(Activations) /\ Len(acts') = Len(acts) + 1
    BY <2>1, PlaceLemma, CalledLemma
  <2> QED
    BY <1>1, <1>2, <2>1, <2>2 DEF Pushes, Room
<1>3. CASE Leaves
  <2>1. PICK k \in 0 .. Len(Here.lex) : acts' = Moved(SubSeq(Here.lex, 1, k))
    BY <1>3 DEF Leaves, Position, Moved
  <2>2. acts' \in Seq(Activations) /\ Len(acts') = Len(acts)
    BY <2>1, PlaceLemma, MovedLemma
  <2> QED
    BY <1>1, <1>3, <2>2 DEF Leaves
<1>4. CASE Recodes
  <2>1. PICK code \in Codes : acts' = [acts EXCEPT ![Len(acts)] = [acts[Len(acts)] EXCEPT !.code = code]]
    BY <1>4 DEF Recodes
  <2>2. [acts[Len(acts)] EXCEPT !.code = code] \in Activations
    BY HereLemma DEF Activations
  <2>3. acts' \in Seq(Activations) /\ Len(acts') = Len(acts)
    BY <1>1, <2>1, <2>2, HereLemma, TopLemma
  <2> QED
    BY <1>1, <1>4, <2>3 DEF Recodes
<1>5. CASE Pops
  <2>1. acts' \in Seq(Activations) /\ Len(acts') \in 1 .. MaxDepth + 1
    BY <1>1, <1>5, PoppedLemma DEF Pops
  <2>2. unpacks' \in Seq(SavedValues)
    BY <1>5, LexLemma, RewoundLemma DEF Pops
  <2> QED
    BY <1>5, <2>1, <2>2, DiscardedLemma DEF Pops
<1>6. CASE Ends
  <2>1. RewoundOwn \in Seq(SavedValues)
    <3>1. CASE Kept < Len(tries)
      <4>1. Kept + 1 \in 1 .. Len(tries)
        BY <3>1, KeptLemma
      <4>2. tries[Kept + 1] \in TryFrames
        BY <1>1, <4>1, ElementOfSeq
      <4>3. tries[Kept + 1].unpack \in Nat
        BY <4>2 DEF TryFrames
      <4> QED
        BY <3>1, <4>3, RewoundLemma DEF RewoundOwn
    <3>2. CASE ~ (Kept < Len(tries))
      BY <1>1, <3>2 DEF RewoundOwn
    <3> QED
      BY <3>1, <3>2
  <2>2. acts' = acts /\ tries' = Discarded /\ unpacks' = RewoundOwn
    BY <1>6 DEF Ends
  <2>3. Discarded \in Seq(TryFrames)
    BY DiscardedLemma
  <2> QED
    BY <1>1, <2>1, <2>2, <2>3
<1>7. CASE TryOpen
  <2>0. Append(Here.lex, "try") \in Seq({"try", "unpack"}) /\ acts' = Moved(Append(Here.lex, "try"))
    BY <1>7, OpenLemma DEF TryOpen
  <2>1. acts' \in Seq(Activations) /\ Len(acts') = Len(acts)
    BY <2>0, MovedLemma
  <2>2. tries' \in Seq(TryFrames)
    <3>1. NewTry \in TryFrames /\ tries' = Append(tries, NewTry)
      BY <1>7, NewTryLemma
    <3> QED
      BY <1>1, <3>1, AppendLemma
  <2>3. unpacks' = unpacks
    BY <1>7 DEF TryOpen
  <2> QED
    BY <1>1, <2>1, <2>2, <2>3
<1>8. CASE UnpackOpen
  <2>0. Append(Here.lex, "unpack") \in Seq({"try", "unpack"}) /\ acts' = Moved(Append(Here.lex, "unpack"))
    BY <1>8, OpenLemma DEF UnpackOpen
  <2>1. acts' \in Seq(Activations) /\ Len(acts') = Len(acts)
    BY <2>0, MovedLemma
  <2>2. unpacks' \in Seq(SavedValues)
    <3>1. NewSaved \in SavedValues /\ unpacks' = Append(unpacks, NewSaved)
      BY <1>8, NewSavedLemma
    <3> QED
      BY <1>1, <3>1, AppendLemma
  <2> QED
    BY <1>1, <1>8, <2>1, <2>2 DEF UnpackOpen
<1>9. CASE UnpackClose
  <2>1. acts' \in Seq(Activations) /\ Len(acts') = Len(acts)
    BY <1>9, CloseLemma, MovedLemma
  <2>2. unpacks' \in Seq(SavedValues)
    BY <1>1, <1>9, FrontTypeLemma DEF UnpackClose
  <2> QED
    BY <1>1, <1>9, <2>1, <2>2 DEF UnpackClose
<1>10. CASE FinishTry
  <2>1. tries # <<>>
    BY <1>10 DEF FinishTry, AtBoundary, TryHere
  <2> QED
    BY <1>1, <1>10, <2>1, TopTryLemma, RewoundLemma DEF FinishTry
<1>11. CASE CatchTry
  <2>1. tries # <<>>
    BY <1>11 DEF CatchTry, Catches, TryHere
  <2>2. acts' \in Seq(Activations) /\ Len(acts') = Len(acts)
    BY <1>11, OutsideLemma, MovedLemma
  <2> QED
    BY <1>1, <1>11, <2>1, <2>2, TopTryLemma, RewoundLemma DEF CatchTry
<1>12. CASE Resets
  <2>1. <<>> \in Seq(TryFrames) /\ <<>> \in Seq(SavedValues)
    BY EmptySeq
  <2> QED
    BY <1>1, <1>12, <2>1, RootLemma DEF Resets
<1>13. CASE Stays
  BY <1>1, <1>13 DEF Stays
<1> QED
  BY <1>2, <1>3, <1>4, <1>5, <1>6, <1>7, <1>8, <1>9, <1>10, <1>11, <1>12, <1>13
     DEF StackStep, Imports, Regions


-----------------------------------------------------------------------------
(* The modules that are being loaded.                                      *)

\* The root of an evaluation initializes no module, and neither does what a
\* builtin calls.
RootPlain == acts[1].module = NoModule
CallbackPlain ==
  Live => \A i \in DOMAIN builtins :
            builtins[i].wait = "call" /\ builtins[i].owner < Depth
              => acts[builtins[i].owner + 2].module = NoModule

\* The modules of the activations and the modules being loaded, as sets.
SameModules ==
  /\ \A i \in DOMAIN loading : \E a \in DOMAIN acts : acts[a].module = loading[i]
  /\ \A a \in DOMAIN acts : acts[a].module # NoModule
                              => \E i \in DOMAIN loading : loading[i] = acts[a].module
SameOrder ==
  \A i, j \in DOMAIN loading, a, b \in DOMAIN acts :
    acts[a].module = loading[i] /\ acts[b].module = loading[j] => (a < b <=> i < j)
CacheKnows ==
  \A m \in Modules : cache[m] = "loading" <=> (\E i \in DOMAIN loading : loading[i] = m)

LEMMA ModulesMatchLemma ==
  loading \in Seq(Modules) => (ModulesMatch <=> SameModules /\ SameOrder /\ CacheKnows)
<1> SUFFICES ASSUME loading \in Seq(Modules)
             PROVE  ModulesMatch <=> SameModules /\ SameOrder /\ CacheKnows
  OBVIOUS
<1>1. \A i \in DOMAIN loading : loading[i] # NoModule
  BY LenProperties, ElementOfSeq, VmCallsAssumption
<1> DEFINE theirs == {acts[a].module : a \in DOMAIN acts} \ {NoModule}
<1>2. ASSUME Range(loading) = theirs
      PROVE  SameModules
  <2>1. \A i \in DOMAIN loading : loading[i] \in theirs
    BY <1>2 DEF Range
  <2>2. \A a \in DOMAIN acts : acts[a].module # NoModule => acts[a].module \in Range(loading)
    BY <1>2
  <2> QED
    BY <2>1, <2>2 DEF SameModules, Range
<1>3. ASSUME SameModules
      PROVE  Range(loading) = theirs
  <2>1. \A m \in Range(loading) : m \in theirs
    BY <1>1, <1>3 DEF SameModules, Range
  <2>2. \A m \in theirs : m \in Range(loading)
    BY <1>3 DEF SameModules, Range
  <2> QED
    BY <2>1, <2>2
<1>4. \A m : m \in Range(loading) <=> \E i \in DOMAIN loading : loading[i] = m
  BY DEF Range
<1>5. (\A m \in Modules : cache[m] = "loading" <=> m \in Range(loading)) <=> CacheKnows
  BY <1>4 DEF CacheKnows
<1> QED
  BY <1>2, <1>3, <1>5 DEF ModulesMatch, SameOrder

LEMMA LoadingLemma ==
  ASSUME TypeOK
  PROVE  /\ loading \in Seq(Modules) /\ Len(loading) \in Nat
         /\ DOMAIN loading = 1 .. Len(loading)
         /\ \A i \in 1 .. Len(loading) : loading[i] \in Modules /\ loading[i] # NoModule
<1>1. loading \in Seq(Modules)
  BY DEF TypeOK
<1> QED
  BY <1>1, LenProperties, ElementOfSeq, VmCallsAssumption

\* The module whose initializer ends is the last of the list.
LEMMA UnloadedLemma ==
  ASSUME TypeOK, ModulesMatch, Here.module # NoModule
  PROVE  /\ Len(loading) \in Nat \ {0}
         /\ loading[Len(loading)] = Here.module
         /\ Unloaded(Here.module) = Front(loading)
<1>1. SameModules /\ SameOrder
  BY ModulesMatchLemma, LoadingLemma
<1>2. PICK i \in DOMAIN loading : loading[i] = Here.module
  BY <1>1, HereLemma DEF SameModules
<1>3. Len(loading) \in Nat \ {0} /\ Len(loading) \in DOMAIN loading /\ i \in 1 .. Len(loading)
  BY <1>2, LoadingLemma
<1>4. i = Len(loading)
  <2>1. PICK b \in DOMAIN acts : acts[b].module = loading[Len(loading)]
    BY <1>1, <1>3 DEF SameModules
  <2>2. (Len(acts) < b) <=> (i < Len(loading))
    BY <1>1, <1>2, <1>3, <2>1, HereLemma DEF SameOrder
  <2> QED
    BY <1>3, <2>1, <2>2, HereLemma
<1>5. Here.module \in Range(loading)
  BY <1>2 DEF Range
<1> DEFINE P(k) == loading[k] = Here.module
                     /\ \A j \in k + 1 .. Len(loading) : loading[j] # Here.module
<1>6. P(Len(loading))
  BY <1>2, <1>3, <1>4
<1>7. \A k \in DOMAIN loading : P(k) => k = Len(loading)
  BY <1>2, <1>3, <1>4, LoadingLemma
<1>8. (CHOOSE k \in DOMAIN loading : P(k)) = Len(loading)
  BY <1>3, <1>6, <1>7
<1>9. Unloaded(Here.module) = RemoveAt(loading, Len(loading))
  BY <1>5, <1>8 DEF Unloaded
<1>10. RemoveAt(loading, Len(loading))
         = SubSeq(loading, 1, Len(loading) - 1) \o SubSeq(loading, Len(loading) + 1, Len(loading))
  BY DEF RemoveAt
<1>11. SubSeq(loading, Len(loading) + 1, Len(loading)) = <<>>
  BY <1>3, SubSeqEmpty
<1>12. Front(loading) \in Seq(Modules)
  BY LoadingLemma, FrontTypeLemma
<1>13. Front(loading) \o <<>> = Front(loading)
  BY <1>12, ConcatEmptySeq
<1> QED
  BY <1>2, <1>3, <1>4, <1>9, <1>10, <1>11, <1>13 DEF Front

ModulesInv == RootPlain /\ ModulesMatch
ModulesTyped == loading' \in Seq(Modules) /\ cache' \in [Modules -> {"none", "loading", "loaded"}]

\* The activations change, their modules do not.
LEMMA ModulesKeptLemma ==
  ASSUME TypeOK, ModulesInv, UNCHANGED modules, Len(acts') = Len(acts),
         acts' \in Seq(Activations),
         \A a \in 1 .. Len(acts) : acts'[a].module = acts[a].module
  PROVE  ModulesInv' /\ ModulesTyped
<1>1. loading' = loading /\ cache' = cache
  BY DEF modules
<1>2. DOMAIN acts = 1 .. Len(acts) /\ DOMAIN acts' = DOMAIN acts /\ 1 \in 1 .. Len(acts)
  BY HereLemma, LenProperties
<1>3. SameModules' /\ SameOrder' /\ CacheKnows'
  <2>1. SameModules /\ SameOrder /\ CacheKnows
    BY ModulesMatchLemma, LoadingLemma DEF ModulesInv
  <2>2. SameModules'
    BY <1>1, <1>2, <2>1 DEF SameModules
  <2>3. SameOrder'
    BY <1>1, <1>2, <2>1 DEF SameOrder
  <2>4. CacheKnows'
    BY <1>1, <2>1 DEF CacheKnows
  <2> QED
    BY <2>2, <2>3, <2>4
<1>4. ModulesTyped
  BY <1>1 DEF TypeOK, ModulesTyped
<1>5. ModulesMatch'
  <2>1. (loading \in Seq(Modules) => (ModulesMatch <=> SameModules /\ SameOrder /\ CacheKnows))'
    BY ModulesMatchLemma, PTL
  <2> QED
    BY <1>3, <1>4, <2>1 DEF ModulesTyped
<1> QED
  BY <1>2, <1>4, <1>5 DEF ModulesInv, RootPlain


LEMMA ModulesNowLemma ==
  ASSUME TypeOK, ModulesInv
  PROVE  SameModules /\ SameOrder /\ CacheKnows
  BY ModulesMatchLemma, LoadingLemma DEF ModulesInv

LEMMA ModulesNextLemma ==
  ASSUME ModulesTyped, SameModules', SameOrder', CacheKnows', RootPlain'
  PROVE  ModulesInv'
<1>1. (loading \in Seq(Modules) => (ModulesMatch <=> SameModules /\ SameOrder /\ CacheKnows))'
  BY ModulesMatchLemma, PTL
<1> QED
  BY <1>1 DEF ModulesTyped, ModulesInv

\* An activation that initializes no module is put on top.
LEMMA ModulesCallLemma ==
  ASSUME TypeOK, ModulesInv, UNCHANGED modules, Len(acts') = Len(acts) + 1,
         acts' \in Seq(Activations),
         \A a \in 1 .. Len(acts) : acts'[a].module = acts[a].module,
         acts'[Len(acts) + 1].module = NoModule
  PROVE  ModulesInv' /\ ModulesTyped
<1>1. loading' = loading /\ cache' = cache
  BY DEF modules
<1>2. /\ DOMAIN acts = 1 .. Len(acts) /\ DOMAIN acts' = 1 .. Len(acts) + 1
      /\ 1 \in 1 .. Len(acts) /\ Len(acts) \in Nat
  BY HereLemma, LenProperties
<1>3. \A a \in DOMAIN acts' : a \in DOMAIN acts \/ acts'[a].module = NoModule
  BY <1>2
<1>4. ModulesTyped
  BY <1>1 DEF TypeOK, ModulesTyped
<1>5. SameModules /\ SameOrder /\ CacheKnows
  BY ModulesNowLemma
<1>6. SameModules'
  BY <1>1, <1>2, <1>3, <1>5 DEF SameModules
<1>7. SameOrder'
  BY <1>1, <1>2, <1>3, <1>5, LoadingLemma DEF SameOrder
<1>8. CacheKnows'
  BY <1>1, <1>5 DEF CacheKnows
<1>9. RootPlain'
  BY <1>2 DEF ModulesInv, RootPlain
<1> QED
  BY <1>4, <1>6, <1>7, <1>8, <1>9, ModulesNextLemma

\* An import: the module is of no other activation, as the cache has no entry.
LEMMA ModulesImportLemma ==
  ASSUME TypeOK, ModulesInv, Len(acts') = Len(acts) + 1, acts' \in Seq(Activations),
         \A a \in 1 .. Len(acts) : acts'[a].module = acts[a].module,
         NEW m \in Modules, acts'[Len(acts) + 1].module = m, cache[m] = "none",
         cache' = [cache EXCEPT ![m] = "loading"], loading' = Append(loading, m)
  PROVE  ModulesInv' /\ ModulesTyped
<1>1. /\ DOMAIN acts = 1 .. Len(acts) /\ DOMAIN acts' = 1 .. Len(acts) + 1
      /\ 1 \in 1 .. Len(acts) /\ Len(acts) \in Nat
  BY HereLemma, LenProperties
<1>2. /\ loading' \in Seq(Modules) /\ Len(loading') = Len(loading) + 1
      /\ DOMAIN loading' = 1 .. Len(loading) + 1
      /\ \A i \in 1 .. Len(loading) : loading'[i] = loading[i]
      /\ loading'[Len(loading) + 1] = m
      /\ DOMAIN loading = 1 .. Len(loading) /\ Len(loading) \in Nat
  BY LoadingLemma, AppendLemma
<1>3. ModulesTyped
  BY <1>2 DEF TypeOK, ModulesTyped
<1>4. SameModules /\ SameOrder /\ CacheKnows
  BY ModulesNowLemma
<1>5. \A i \in DOMAIN loading : loading[i] # m
  BY <1>4 DEF CacheKnows
<1>6. \A a \in DOMAIN acts : acts[a].module # m
  BY <1>4, <1>5, VmCallsAssumption DEF SameModules
<1>7. \A a \in DOMAIN acts' : a \in DOMAIN acts \/ a = Len(acts) + 1
  BY <1>1
<1>8. \A i \in DOMAIN loading' : i \in DOMAIN loading \/ i = Len(loading) + 1
  BY <1>2
<1>9. SameModules'
  <2>1. /\ Len(acts) + 1 \in DOMAIN acts' /\ Len(loading) + 1 \in DOMAIN loading'
        /\ DOMAIN acts \subseteq DOMAIN acts' /\ DOMAIN loading \subseteq DOMAIN loading'
        /\ acts'[Len(acts) + 1].module = loading'[Len(loading) + 1]
        /\ \A a \in DOMAIN acts : acts'[a].module = acts[a].module
        /\ \A i \in DOMAIN loading : loading'[i] = loading[i]
    BY <1>1, <1>2
  <2>2. ASSUME NEW i \in DOMAIN loading'
        PROVE  \E a \in DOMAIN acts' : acts'[a].module = loading'[i]
    <3>1. CASE i \in DOMAIN loading
      <4>1. PICK a \in DOMAIN acts : acts[a].module = loading[i]
        BY <1>4, <3>1 DEF SameModules
      <4>2. a \in DOMAIN acts' /\ acts'[a].module = loading'[i]
        BY <2>1, <3>1, <4>1
      <4> QED
        BY <4>2
    <3>2. CASE i = Len(loading) + 1
      BY <2>1, <3>2
    <3> QED
      BY <1>8, <3>1, <3>2
  <2>3. \A a \in DOMAIN acts' : acts'[a].module # NoModule
                                  => \E i \in DOMAIN loading' : loading'[i] = acts'[a].module
    BY <1>4, <1>7, <2>1 DEF SameModules
  <2> QED
    BY <2>2, <2>3 DEF SameModules
<1>10. SameOrder'
  <2> SUFFICES ASSUME NEW i \in DOMAIN loading', NEW j \in DOMAIN loading',
                      NEW a \in DOMAIN acts', NEW b \in DOMAIN acts',
                      acts'[a].module = loading'[i], acts'[b].module = loading'[j]
               PROVE  a < b <=> i < j
    BY DEF SameOrder
  <2>1. i \in DOMAIN loading <=> a \in DOMAIN acts
    BY <1>1, <1>2, <1>5, <1>6, <1>7, <1>8
  <2>2. j \in DOMAIN loading <=> b \in DOMAIN acts
    BY <1>1, <1>2, <1>5, <1>6, <1>7, <1>8
  <2>3. CASE i \in DOMAIN loading /\ j \in DOMAIN loading
    BY <1>1, <1>2, <1>4, <2>1, <2>2, <2>3 DEF SameOrder
  <2>4. CASE i \in DOMAIN loading /\ j \notin DOMAIN loading
    BY <1>1, <1>2, <1>7, <1>8, <2>1, <2>2, <2>4
  <2>5. CASE i \notin DOMAIN loading
    BY <1>1, <1>2, <1>7, <1>8, <2>1, <2>2, <2>5
  <2> QED
    BY <2>3, <2>4, <2>5
<1>11. CacheKnows'
  <2> SUFFICES ASSUME NEW n \in Modules
               PROVE  cache'[n] = "loading" <=> (\E i \in DOMAIN loading' : loading'[i] = n)
    BY DEF CacheKnows
  <2>1. CASE n = m
    <3>1. cache'[n] = "loading"
      BY <2>1 DEF TypeOK
    <3>2. Len(loading) + 1 \in DOMAIN loading' /\ loading'[Len(loading) + 1] = n
      BY <1>2, <2>1
    <3> QED
      BY <3>1, <3>2
  <2>2. CASE n # m
    <3>1. cache'[n] = cache[n]
      BY <2>2 DEF TypeOK
    <3>2. cache[n] = "loading" <=> \E i \in DOMAIN loading : loading[i] = n
      BY <1>4 DEF CacheKnows
    <3>3. (\E i \in DOMAIN loading' : loading'[i] = n) <=> (\E i \in DOMAIN loading : loading[i] = n)
      BY <1>2, <1>8, <2>2
    <3> QED
      BY <3>1, <3>2, <3>3
  <2> QED
    BY <2>1, <2>2
<1>12. RootPlain'
  BY <1>1 DEF ModulesInv, RootPlain
<1> QED
  BY <1>3, <1>9, <1>10, <1>11, <1>12, ModulesNextLemma

\* An activation that initializes no module ends.
LEMMA ModulesReturnLemma ==
  ASSUME TypeOK, ModulesInv, UNCHANGED modules, Pops, Here.module = NoModule
  PROVE  ModulesInv' /\ ModulesTyped
<1>1. loading' = loading /\ cache' = cache
  BY DEF modules
<1>2. /\ DOMAIN acts = 1 .. Len(acts) /\ DOMAIN acts' = 1 .. Len(acts) - 1
      /\ 1 \in 1 .. Len(acts) - 1 /\ Len(acts) \in Nat
      /\ \A a \in DOMAIN acts' : a \in DOMAIN acts /\ acts'[a] = acts[a]
      /\ \A a \in DOMAIN acts : a \in DOMAIN acts' \/ acts[a].module = NoModule
  BY HereLemma, PoppedLemma DEF Pops
<1>3. ModulesTyped
  BY <1>1 DEF TypeOK, ModulesTyped
<1>4. SameModules /\ SameOrder /\ CacheKnows
  BY ModulesNowLemma
<1>5. SameModules'
  BY <1>1, <1>2, <1>4, LoadingLemma DEF SameModules
<1>6. SameOrder'
  BY <1>1, <1>2, <1>4 DEF SameOrder
<1>7. CacheKnows'
  BY <1>1, <1>4 DEF CacheKnows
<1>8. RootPlain'
  BY <1>2 DEF ModulesInv, RootPlain
<1> QED
  BY <1>3, <1>5, <1>6, <1>7, <1>8, ModulesNextLemma

\* An initializer ends, with a value or with an error.
LEMMA ModulesEndLemma ==
  ASSUME TypeOK, ModulesInv, Pops, Here.module # NoModule,
         loading' = Unloaded(Here.module),
         NEW entry \in {"none", "loaded"}, cache' = [cache EXCEPT ![Here.module] = entry]
  PROVE  ModulesInv' /\ ModulesTyped
<1>1. /\ DOMAIN acts = 1 .. Len(acts) /\ DOMAIN acts' = 1 .. Len(acts) - 1
      /\ 1 \in 1 .. Len(acts) - 1 /\ Len(acts) \in Nat
      /\ \A a \in DOMAIN acts' : a \in DOMAIN acts /\ acts'[a] = acts[a]
      /\ \A a \in DOMAIN acts : a \in DOMAIN acts' \/ acts[a] = Here
  BY HereLemma, PoppedLemma DEF Pops
<1>2. /\ Len(loading) \in Nat \ {0} /\ loading[Len(loading)] = Here.module
      /\ loading' = Front(loading)
  BY UnloadedLemma DEF ModulesInv
<1>3. /\ loading' \in Seq(Modules) /\ DOMAIN loading' = 1 .. Len(loading) - 1
      /\ \A i \in DOMAIN loading' : i \in DOMAIN loading /\ loading'[i] = loading[i]
      /\ DOMAIN loading = 1 .. Len(loading)
      /\ \A i \in DOMAIN loading : i \in DOMAIN loading' \/ i = Len(loading)
  <2>1. loading \in Seq(Modules) /\ DOMAIN loading = 1 .. Len(loading) /\ loading # <<>>
    BY <1>2, LoadingLemma, EmptySeq
  <2> QED
    BY <1>2, <2>1, FrontLemma
<1>4. SameModules /\ SameOrder /\ CacheKnows
  BY ModulesNowLemma
<1>5. \A a \in DOMAIN acts' : acts[a].module # Here.module
  <2> SUFFICES ASSUME NEW a \in DOMAIN acts', acts[a].module = Here.module
               PROVE  FALSE
    OBVIOUS
  <2>1. /\ a \in DOMAIN acts /\ Len(acts) \in DOMAIN acts /\ a < Len(acts)
        /\ acts[Len(acts)].module = loading[Len(loading)] /\ Len(loading) \in DOMAIN loading
    BY <1>1, <1>2, <1>3, HereLemma
  <2>2. (a < Len(acts)) <=> (Len(loading) < Len(loading))
    BY <1>2, <1>4, <2>1 DEF SameOrder
  <2> QED
    BY <1>2, <2>1, <2>2
<1>6. \A i \in DOMAIN loading' : loading[i] # Here.module
  <2> SUFFICES ASSUME NEW i \in DOMAIN loading', loading[i] = Here.module
               PROVE  FALSE
    OBVIOUS
  <2>1. /\ i \in DOMAIN loading /\ Len(acts) \in DOMAIN acts /\ i < Len(loading)
        /\ acts[Len(acts)].module = loading[Len(loading)] /\ Len(loading) \in DOMAIN loading
        /\ acts[Len(acts)].module = loading[i]
    BY <1>1, <1>2, <1>3, HereLemma
  <2>2. (Len(acts) < Len(acts)) <=> (i < Len(loading))
    BY <1>4, <2>1 DEF SameOrder
  <2> QED
    BY <1>1, <2>1, <2>2
<1>7. ModulesTyped
  BY <1>3 DEF TypeOK, ModulesTyped
<1>8. SameModules'
  <2>1. \A i \in DOMAIN loading' : \E a \in DOMAIN acts' : acts'[a].module = loading'[i]
    BY <1>1, <1>3, <1>4, <1>6 DEF SameModules
  <2>2. \A a \in DOMAIN acts' : acts'[a].module # NoModule
                                  => \E i \in DOMAIN loading' : loading'[i] = acts'[a].module
    BY <1>1, <1>2, <1>3, <1>4, <1>5 DEF SameModules
  <2> QED
    BY <2>1, <2>2 DEF SameModules
<1>9. SameOrder'
  BY <1>1, <1>3, <1>4 DEF SameOrder
<1>10. CacheKnows'
  <2> SUFFICES ASSUME NEW n \in Modules
               PROVE  cache'[n] = "loading" <=> (\E i \in DOMAIN loading' : loading'[i] = n)
    BY DEF CacheKnows
  <2>1. CASE n = Here.module
    <3>1. cache'[n] = entry
      BY <2>1 DEF TypeOK
    <3> QED
      BY <1>3, <1>6, <2>1, <3>1
  <2>2. CASE n # Here.module
    <3>1. cache'[n] = cache[n]
      BY <2>2 DEF TypeOK
    <3>2. cache[n] = "loading" <=> \E i \in DOMAIN loading : loading[i] = n
      BY <1>4 DEF CacheKnows
    <3>3. (\E i \in DOMAIN loading' : loading'[i] = n) <=> (\E i \in DOMAIN loading : loading[i] = n)
      BY <1>2, <1>3, <2>2
    <3> QED
      BY <3>1, <3>2, <3>3
  <2> QED
    BY <2>1, <2>2
<1>11. RootPlain'
  BY <1>1 DEF ModulesInv, RootPlain
<1> QED
  BY <1>7, <1>8, <1>9, <1>10, <1>11, ModulesNextLemma


\* What a call, a step within the activation and a tail call leave alone.
LEMMA PushedLemma ==
  ASSUME TypeOK, NEW module \in Modules \cup {NoModule}, Pushes(module)
  PROVE  \E k \in 0 .. Len(Here.lex) :
           /\ \A i \in k + 1 .. Len(Here.lex) : Here.lex[i] = "try"
           /\ acts' \in Seq(Activations) /\ Len(acts') = Len(acts) + 1
           /\ DOMAIN acts' = 1 .. Len(acts) + 1
           /\ \A a \in 1 .. Len(acts) - 1 : acts'[a] = acts[a]
           /\ \A a \in 1 .. Len(acts) : /\ acts'[a].code = acts[a].code
                                        /\ acts'[a].module = acts[a].module
                                        /\ acts'[a].unpack = acts[a].unpack
           /\ Len(acts'[Len(acts)].lex) = k
           /\ \A i \in 1 .. k : acts'[Len(acts)].lex[i] = Here.lex[i]
           /\ acts'[Len(acts) + 1].module = module
           /\ acts'[Len(acts) + 1].lex = <<>>
           /\ acts'[Len(acts) + 1].unpack = Len(unpacks)
<1>1. PICK code \in Codes, k \in 0 .. Len(Here.lex) :
        /\ \A i \in k + 1 .. Len(Here.lex) : Here.lex[i] = "try"
        /\ Called(code, module, SubSeq(Here.lex, 1, k))
  BY DEF Pushes
<1> DEFINE lex == SubSeq(Here.lex, 1, k)
<1>2. lex \in Seq({"try", "unpack"}) /\ Len(lex) = k /\ \A i \in 1 .. k : lex[i] = Here.lex[i]
  BY PlaceLemma
<1>3. Called(code, module, lex)
  BY <1>1
<1> HIDE DEF lex
<1>4. /\ acts' \in Seq(Activations) /\ Len(acts') = Len(acts) + 1
      /\ DOMAIN acts' = 1 .. Len(acts) + 1
      /\ \A a \in 1 .. Len(acts) : acts'[a] = Moved(lex)[a]
      /\ acts'[Len(acts) + 1].module = module
      /\ acts'[Len(acts) + 1].lex = <<>>
      /\ acts'[Len(acts) + 1].unpack = Len(unpacks)
  BY <1>2, <1>3, CalledLemma
<1>5. /\ \A a \in 1 .. Len(acts) - 1 : Moved(lex)[a] = acts[a]
      /\ \A a \in 1 .. Len(acts) : /\ Moved(lex)[a].code = acts[a].code
                                   /\ Moved(lex)[a].module = acts[a].module
                                   /\ Moved(lex)[a].unpack = acts[a].unpack
      /\ Moved(lex)[Len(acts)].lex = lex
  BY <1>2, MovedLemma
<1>6. Len(acts) \in 1 .. Len(acts) /\ \A a \in 1 .. Len(acts) - 1 : a \in 1 .. Len(acts)
  BY HereLemma
<1>7. acts'[Len(acts)].lex = lex
  BY <1>4, <1>5, <1>6
<1>8. \A a \in 1 .. Len(acts) - 1 : acts'[a] = acts[a]
  BY <1>4, <1>5, <1>6
<1>9. \A a \in 1 .. Len(acts) : /\ acts'[a].code = acts[a].code
                                /\ acts'[a].module = acts[a].module
                                /\ acts'[a].unpack = acts[a].unpack
  BY <1>4, <1>5
<1> QED
  BY <1>1, <1>2, <1>4, <1>7, <1>8, <1>9

LEMMA LeftLemma ==
  ASSUME TypeOK, Leaves
  PROVE  \E k \in 0 .. Len(Here.lex) :
           /\ ~Escapes => \A i \in k + 1 .. Len(Here.lex) : Here.lex[i] = "try"
           /\ acts' \in Seq(Activations) /\ Len(acts') = Len(acts)
           /\ DOMAIN acts' = 1 .. Len(acts)
           /\ \A a \in 1 .. Len(acts) - 1 : acts'[a] = acts[a]
           /\ \A a \in 1 .. Len(acts) : /\ acts'[a].code = acts[a].code
                                        /\ acts'[a].module = acts[a].module
                                        /\ acts'[a].unpack = acts[a].unpack
           /\ Len(acts'[Len(acts)].lex) = k
           /\ \A i \in 1 .. k : acts'[Len(acts)].lex[i] = Here.lex[i]
<1>1. PICK k \in 0 .. Len(Here.lex) :
        /\ ~Escapes => \A i \in k + 1 .. Len(Here.lex) : Here.lex[i] = "try"
        /\ acts' = Moved(SubSeq(Here.lex, 1, k))
  BY DEF Leaves, Position, Moved
<1> DEFINE lex == SubSeq(Here.lex, 1, k)
<1>2. lex \in Seq({"try", "unpack"}) /\ Len(lex) = k /\ \A i \in 1 .. k : lex[i] = Here.lex[i]
  BY PlaceLemma
<1>3. acts' = Moved(lex)
  BY <1>1
<1> HIDE DEF lex
<1> QED
  BY <1>1, <1>2, <1>3, MovedLemma

LEMMA RecodedLemma ==
  ASSUME TypeOK, Recodes
  PROVE  /\ acts' \in Seq(Activations) /\ Len(acts') = Len(acts)
         /\ DOMAIN acts' = 1 .. Len(acts)
         /\ \A a \in 1 .. Len(acts) - 1 : acts'[a] = acts[a]
         /\ \A a \in 1 .. Len(acts) : /\ acts'[a].lex = acts[a].lex
                                      /\ acts'[a].module = acts[a].module
                                      /\ acts'[a].unpack = acts[a].unpack
<1>1. PICK code \in Codes : acts' = [acts EXCEPT ![Len(acts)] = [Here EXCEPT !.code = code]]
  BY HereLemma DEF Recodes
<1> DEFINE act == [Here EXCEPT !.code = code]
<1>2. act \in Activations
  BY HereLemma DEF Activations
<1>3. act.lex = Here.lex /\ act.module = Here.module /\ act.unpack = Here.unpack
  BY HereLemma DEF Activations
<1>4. acts \in Seq(Activations) /\ acts # <<>>
  BY HereLemma DEF TypeOK
<1>5. acts' = [acts EXCEPT ![Len(acts)] = act]
  BY <1>1
<1> HIDE DEF act
<1>6. /\ acts' \in Seq(Activations) /\ Len(acts') = Len(acts) /\ DOMAIN acts' = 1 .. Len(acts)
      /\ \A a \in 1 .. Len(acts) - 1 : acts'[a] = acts[a]
      /\ acts'[Len(acts)] = act
  BY <1>2, <1>4, <1>5, TopLemma
<1>7. \A a \in 1 .. Len(acts) : a \in 1 .. Len(acts) - 1 \/ (a = Len(acts) /\ acts[a] = Here)
  BY HereLemma
<1> QED
  BY <1>3, <1>6, <1>7

\* A region that opens, ends or is left keeps the activations and their code.
LEMMA RegionsKeepLemma ==
  ASSUME TypeOK, Regions
  PROVE  /\ acts' \in Seq(Activations) /\ Len(acts') = Len(acts)
         /\ DOMAIN acts' = 1 .. Len(acts)
         /\ \A a \in 1 .. Len(acts) - 1 : acts'[a] = acts[a]
         /\ \A a \in 1 .. Len(acts) : /\ acts'[a].code = acts[a].code
                                      /\ acts'[a].module = acts[a].module
                                      /\ acts'[a].unpack = acts[a].unpack
<1>1. ASSUME NEW lex \in Seq({"try", "unpack"}), acts' = Moved(lex)
      PROVE  /\ acts' \in Seq(Activations) /\ Len(acts') = Len(acts)
             /\ DOMAIN acts' = 1 .. Len(acts)
             /\ \A a \in 1 .. Len(acts) - 1 : acts'[a] = acts[a]
             /\ \A a \in 1 .. Len(acts) : /\ acts'[a].code = acts[a].code
                                          /\ acts'[a].module = acts[a].module
                                          /\ acts'[a].unpack = acts[a].unpack
  BY <1>1, MovedLemma
<1>2. CASE TryOpen
  <2>1. OpenRegion("try")
    BY <1>2 DEF TryOpen
  <2> QED
    BY <1>1, <2>1, OpenLemma
<1>3. CASE UnpackOpen
  <2>1. OpenRegion("unpack")
    BY <1>3 DEF UnpackOpen
  <2> QED
    BY <1>1, <2>1, OpenLemma
<1>4. CASE UnpackClose
  BY <1>1, <1>4, CloseLemma
<1>5. CASE FinishTry
  BY <1>5, HereLemma DEF FinishTry, TypeOK
<1>6. CASE CatchTry
  BY <1>1, <1>6, OutsideLemma
<1> QED
  BY <1>2, <1>3, <1>4, <1>5, <1>6 DEF Regions

\* The callback of a builtin that takes an error initializes no module.
LEMMA CapturedLemma ==
  ASSUME TypeOK, CallbackPlain, CaptureError
  PROVE  Here.module = NoModule
<1>1. builtins \in Seq(BuiltinFrames) /\ builtins # <<>> /\ Live
  BY DEF CaptureError, Captured, CalledBack, TypeOK, Unwinding, Live
<1>2. /\ Len(builtins) \in DOMAIN builtins /\ Last(builtins) = builtins[Len(builtins)]
      /\ Last(builtins) \in BuiltinFrames
  BY <1>1, FrontLemma, LenProperties DEF Last
<1>3. Last(builtins).wait = "call" /\ Last(builtins).owner + 1 = Depth
  BY DEF CaptureError, Captured, CalledBack
<1>4. Last(builtins).owner \in Nat
  BY <1>2, VmCallsAssumption DEF BuiltinFrames
<1>5. Last(builtins).owner < Depth /\ Last(builtins).owner + 2 = Len(acts)
  BY <1>3, <1>4, HereLemma
<1> QED
  BY <1>1, <1>2, <1>3, <1>5, HereLemma DEF CallbackPlain

LEMMA ModulesResetLemma ==
  ASSUME TypeOK, ModulesInv, Resets
  PROVE  ModulesInv' /\ ModulesTyped
<1>1. PICK code \in Codes : acts' = Root(code)
  BY DEF Resets
<1>2. DOMAIN acts' = {1} /\ acts'[1].module = NoModule
  BY <1>1, RootLemma
<1>3. loading' \in Seq(Modules) /\ DOMAIN loading' = {}
  BY EmptySeq, LenProperties DEF Resets
<1>4. CacheKnows
  BY ModulesNowLemma
<1>5. cache' \in [Modules -> {"none", "loaded"}]
  <2>1. ASSUME cache' = Forgotten
        PROVE  cache' \in [Modules -> {"none", "loaded"}]
    <3>1. \A m \in Modules : cache[m] = "loading" => m \in Range(loading)
      BY <1>4 DEF CacheKnows, Range
    <3> QED
      BY <2>1, <3>1 DEF Forgotten, TypeOK
  <2> QED
    BY <2>1 DEF Resets
<1> QED
  BY <1>2, <1>3, <1>5, ModulesNextLemma DEF ModulesTyped, SameModules, SameOrder, CacheKnows, RootPlain

LEMMA ModulesStepLemma ==
  ASSUME TypeOK, ModulesInv, CallbackPlain, StackStep
  PROVE  ModulesInv' /\ ModulesTyped
<1>1. CASE UNCHANGED modules /\ Pushes(NoModule)
  BY <1>1, PushedLemma, ModulesCallLemma
<1>2. CASE UNCHANGED modules /\ Leaves
  BY <1>2, LeftLemma, ModulesKeptLemma
<1>3. CASE UNCHANGED modules /\ Recodes
  BY <1>3, RecodedLemma, ModulesKeptLemma
<1>4. CASE UNCHANGED modules /\ Ends
  BY <1>4, ModulesKeptLemma DEF Ends, TypeOK
<1>5. CASE UNCHANGED modules /\ Regions
  BY <1>5, RegionsKeepLemma, ModulesKeptLemma
<1>6. ASSUME NEW m \in Modules, Imports(m)
      PROVE  ModulesInv' /\ ModulesTyped
  BY <1>6, PushedLemma, ModulesImportLemma DEF Imports
<1>7. CASE Pops /\ Here.module = NoModule /\ (FinishModule(NoModule) \/ FailModule(NoModule))
  BY <1>7, ModulesReturnLemma DEF FinishModule, FailModule
<1>8. CASE Pops /\ Here.module # NoModule /\ FinishModule(Here.module)
  BY <1>8, ModulesEndLemma DEF FinishModule
<1>9. CASE Pops /\ Here.module # NoModule /\ FailModule(Here.module)
  <2>1. Here.module \in Modules
    BY <1>9, LexLemma
  <2>2. \E i \in DOMAIN loading : loading[i] = Here.module
    BY <1>9, ModulesNowLemma, HereLemma DEF SameModules
  <2>3. cache[Here.module] = "loading"
    BY <2>1, <2>2, ModulesNowLemma DEF CacheKnows
  <2>4. cache' = [cache EXCEPT ![Here.module] = "none"] /\ loading' = Unloaded(Here.module)
    BY <1>9, <2>3 DEF FailModule
  <2> QED
    BY <1>9, <2>4, ModulesEndLemma
<1>10. CASE Pops /\ CaptureError
  BY <1>10, CapturedLemma, ModulesReturnLemma DEF CaptureError
<1>11. CASE Resets
  BY <1>11, ModulesResetLemma
<1>12. CASE Stays
  BY <1>12, ModulesKeptLemma DEF Stays, TypeOK
<1> QED
  BY <1>1, <1>2, <1>3, <1>4, <1>5, <1>6, <1>7, <1>8, <1>9, <1>10, <1>11, <1>12 DEF StackStep


-----------------------------------------------------------------------------
(* The try frames.                                                         *)

TriesSorted == \A i, j \in DOMAIN tries : i < j => Before(tries[i], tries[j])
TriesPlaced ==
  \A i \in DOMAIN tries :
    /\ tries[i].depth <= Depth
    /\ tries[i].code = acts[tries[i].depth + 1].code
    /\ tries[i].level <= Len(acts[tries[i].depth + 1].lex)
         => acts[tries[i].depth + 1].lex[tries[i].level] = "try"
TriesThere ==
  \A a \in DOMAIN acts : \A level \in DOMAIN acts[a].lex :
    acts[a].lex[level] = "try"
      => \E i \in DOMAIN tries : tries[i].depth + 1 = a /\ tries[i].level = level

TriesInv == TriesSorted /\ TriesPlaced /\ TriesThere

LEMMA RegionsMatchLemma == RegionsMatch <=> (Live => TriesInv)
  BY DEF RegionsMatch, TriesInv, TriesSorted, TriesPlaced, TriesThere, Range

LEMMA TriesLemma ==
  ASSUME TypeOK
  PROVE  /\ tries \in Seq(TryFrames) /\ Len(tries) \in Nat
         /\ DOMAIN tries = 1 .. Len(tries)
         /\ \A i \in DOMAIN tries : /\ tries[i] \in TryFrames
                                    /\ tries[i].depth \in Nat
                                    /\ tries[i].level \in Nat \ {0}
                                    /\ tries[i].unpack \in Nat
<1>1. tries \in Seq(TryFrames)
  BY DEF TypeOK
<1>2. \A i \in DOMAIN tries : tries[i] \in TryFrames
  BY <1>1, LenProperties, ElementOfSeq
<1> QED
  BY <1>1, <1>2, LenProperties, VmCallsAssumption DEF TryFrames

\* The regions of an activation, by its place.
LEMMA LexesLemma ==
  ASSUME TypeOK, NEW a \in DOMAIN acts
  PROVE  /\ acts[a].lex \in Seq({"try", "unpack"}) /\ Len(acts[a].lex) \in Nat
         /\ DOMAIN acts[a].lex = 1 .. Len(acts[a].lex)
         /\ acts[a].unpack \in Nat
<1>1. acts[a] \in Activations
  BY HereLemma
<1>2. acts[a].lex \in Seq({"try", "unpack"}) /\ acts[a].unpack \in Nat
  BY <1>1 DEF Activations
<1> QED
  BY <1>2, LenProperties

LEMMA TypedLexesLemma ==
  ASSUME acts' \in Seq(Activations), NEW a \in DOMAIN acts'
  PROVE  /\ acts'[a].lex \in Seq({"try", "unpack"}) /\ Len(acts'[a].lex) \in Nat
         /\ DOMAIN acts'[a].lex = 1 .. Len(acts'[a].lex)
<1>1. acts'[a] \in Activations
  BY LenProperties, ElementOfSeq
<1>2. acts'[a].lex \in Seq({"try", "unpack"})
  BY <1>1 DEF Activations
<1> QED
  BY <1>2, LenProperties

\* At an instruction, the try frames of the running activation are those of
\* regions it is inside of.
LEMMA OwnInsideLemma ==
  ASSUME TypeOK, TriesInv, ~AtBoundary
  PROVE  \A i \in DOMAIN tries : tries[i].depth = Depth => tries[i].level <= Len(Here.lex)
<1> SUFFICES ASSUME NEW i \in DOMAIN tries, tries[i].depth = Depth
             PROVE  tries[i].level <= Len(Here.lex)
  OBVIOUS
<1> DEFINE n == Len(tries)
<1>1. n \in DOMAIN tries /\ i <= n /\ tries # <<>>
  BY TriesLemma, EmptySeq
<1>2. tries[i].depth <= tries[n].depth /\ (tries[n].depth = Depth => tries[i].level <= tries[n].level)
  <2>1. i = n \/ Before(tries[i], tries[n])
    BY <1>1, TriesLemma DEF TriesInv, TriesSorted
  <2> QED
    BY <1>1, <2>1, TriesLemma, HereLemma DEF Before
<1>3. tries[n].depth <= Depth /\ tries[n].code = acts[tries[n].depth + 1].code
  BY <1>1 DEF TriesInv, TriesPlaced
<1>4. tries[n].depth = Depth
  BY <1>1, <1>2, <1>3, TriesLemma, HereLemma
<1>5. Last(tries) = tries[n] /\ TryHere
  BY <1>1, <1>3, <1>4, HereLemma DEF TryHere, Last
<1>6. ~ (Len(Here.lex) < tries[n].level)
  BY <1>5 DEF AtBoundary
<1> QED
  BY <1>1, <1>2, <1>4, <1>6, TriesLemma, LexLemma

\* The frames that the pop loop leaves are those of the activations below.
LEMMA KeptBelowLemma ==
  ASSUME TypeOK, TriesInv
  PROVE  \A i \in DOMAIN tries : i <= Kept <=> tries[i].depth < Depth
<1>1. /\ Kept \in 0 .. Len(tries)
      /\ Kept > 0 => tries[Kept].depth # Depth
      /\ \A i \in Kept + 1 .. Len(tries) : tries[i].depth = Depth
  BY KeptLemma
<1> SUFFICES ASSUME NEW i \in DOMAIN tries
             PROVE  i <= Kept <=> tries[i].depth < Depth
  OBVIOUS
<1>2. CASE i > Kept
  BY <1>1, <1>2, TriesLemma, HereLemma
<1>3. CASE i <= Kept
  <2>1. Kept \in DOMAIN tries /\ Kept > 0
    BY <1>1, <1>3, TriesLemma
  <2>2. tries[Kept].depth < Depth
    BY <1>1, <2>1, TriesLemma, HereLemma DEF TriesInv, TriesPlaced
  <2>3. i = Kept \/ Before(tries[i], tries[Kept])
    BY <1>3, <2>1, TriesLemma DEF TriesInv, TriesSorted
  <2> QED
    BY <1>3, <2>1, <2>2, <2>3, TriesLemma, HereLemma DEF Before
<1> QED
  BY <1>1, <1>2, <1>3, TriesLemma


\* The running activation goes on, or calls, inside the first k of its regions.
KeepsPrefix(k) ==
  /\ k \in 0 .. Len(Here.lex)
  /\ acts' \in Seq(Activations)
  /\ \/ Len(acts') = Len(acts)
     \/ /\ Len(acts') = Len(acts) + 1
        /\ acts'[Len(acts) + 1].lex = <<>> /\ acts'[Len(acts) + 1].unpack = Len(unpacks)
  /\ \A a \in 1 .. Len(acts) - 1 : acts'[a] = acts[a]
  /\ \A a \in 1 .. Len(acts) : acts'[a].code = acts[a].code /\ acts'[a].unpack = acts[a].unpack
  /\ Len(acts'[Len(acts)].lex) = k
  /\ \A i \in 1 .. k : acts'[Len(acts)].lex[i] = Here.lex[i]

\* The places of the regions of every activation are as before, but for those
\* the running one leaves.
LEMMA PrefixKeepsLemma ==
  ASSUME TypeOK, NEW k, KeepsPrefix(k)
  PROVE  /\ Depth \in Nat /\ Depth' \in Nat /\ Depth <= Depth'
         /\ DOMAIN acts = 1 .. Depth + 1
         /\ \A a \in DOMAIN acts :
              /\ a \in DOMAIN acts' /\ acts'[a].code = acts[a].code
              /\ \A i \in Nat \ {0} : i <= Len(acts'[a].lex)
                   => i <= Len(acts[a].lex) /\ acts'[a].lex[i] = acts[a].lex[i]
         /\ \A a \in DOMAIN acts' : a \in DOMAIN acts \/ acts'[a].lex = <<>>
         /\ \A a \in DOMAIN acts : acts'[a] = acts[a] \/ a = Depth + 1
<1>1. /\ Len(acts) = Depth + 1 /\ Depth \in Nat /\ DOMAIN acts = 1 .. Len(acts)
      /\ Here = acts[Len(acts)]
  BY HereLemma
<1>2. Len(acts') = Depth + 1 \/ (Len(acts') = Depth + 2 /\ acts'[Depth + 2].lex = <<>>)
  BY <1>1 DEF KeepsPrefix
<1>3. \/ DOMAIN acts' = 1 .. Depth + 1
      \/ DOMAIN acts' = 1 .. Depth + 2 /\ acts'[Depth + 2].lex = <<>>
  BY <1>2, LenProperties DEF KeepsPrefix
<1>4. Depth' \in Nat /\ Depth <= Depth'
  <2>1. Depth' = Len(acts') - 1 /\ Depth \in Nat
    BY HereLemma DEF Depth
  <2> QED
    BY <1>2, <2>1
<1>5. \A a \in DOMAIN acts' : a \in DOMAIN acts \/ acts'[a].lex = <<>>
  BY <1>1, <1>3
<1>6. ASSUME NEW a \in DOMAIN acts, NEW i \in Nat \ {0}, i <= Len(acts'[a].lex)
      PROVE  i <= Len(acts[a].lex) /\ acts'[a].lex[i] = acts[a].lex[i]
  <2>1. CASE a \in 1 .. Len(acts) - 1
    BY <1>6, <2>1 DEF KeepsPrefix
  <2>2. CASE a = Len(acts)
    <3>1. /\ Len(acts'[a].lex) = k
          /\ \A j \in 1 .. k : acts'[a].lex[j] = acts[a].lex[j]
      BY <1>1, <2>2 DEF KeepsPrefix
    <3>2. k <= Len(acts[a].lex) /\ k \in Nat /\ Len(acts[a].lex) \in Nat
      BY <1>1, <2>2, LexLemma DEF KeepsPrefix
    <3> QED
      BY <1>6, <3>1, <3>2
  <2> QED
    BY <1>1, <2>1, <2>2
<1>7. \A a \in DOMAIN acts : a \in DOMAIN acts' /\ acts'[a].code = acts[a].code
  <2>1. \A a \in DOMAIN acts : a \in DOMAIN acts'
    BY <1>1, <1>3
  <2> QED
    BY <1>1, <2>1 DEF KeepsPrefix
<1>8. \A a \in DOMAIN acts : acts'[a] = acts[a] \/ a = Depth + 1
  BY <1>1 DEF KeepsPrefix
<1> QED
  BY <1>1, <1>4, <1>5, <1>6, <1>7, <1>8

LEMMA TriesPrefixLemma ==
  ASSUME TypeOK, TriesInv, tries' = tries, NEW k, KeepsPrefix(k)
  PROVE  TriesInv'
<1>1. /\ Depth \in Nat /\ Depth' \in Nat /\ Depth <= Depth'
      /\ DOMAIN acts = 1 .. Depth + 1
      /\ \A a \in DOMAIN acts :
           /\ a \in DOMAIN acts' /\ acts'[a].code = acts[a].code
           /\ \A i \in Nat \ {0} : i <= Len(acts'[a].lex)
                => i <= Len(acts[a].lex) /\ acts'[a].lex[i] = acts[a].lex[i]
      /\ \A a \in DOMAIN acts' : a \in DOMAIN acts \/ acts'[a].lex = <<>>
  BY PrefixKeepsLemma
<1>2. TriesSorted'
  BY DEF TriesInv, TriesSorted
<1>3. TriesPlaced'
  <2> SUFFICES ASSUME NEW i \in DOMAIN tries
               PROVE  /\ tries[i].depth <= Depth'
                      /\ tries[i].code = acts'[tries[i].depth + 1].code
                      /\ tries[i].level <= Len(acts'[tries[i].depth + 1].lex)
                           => acts'[tries[i].depth + 1].lex[tries[i].level] = "try"
    BY DEF TriesPlaced
  <2>1. /\ tries[i].depth <= Depth /\ tries[i].code = acts[tries[i].depth + 1].code
        /\ tries[i].level <= Len(acts[tries[i].depth + 1].lex)
             => acts[tries[i].depth + 1].lex[tries[i].level] = "try"
    BY DEF TriesInv, TriesPlaced
  <2>2. tries[i].depth \in Nat /\ tries[i].level \in Nat \ {0}
    BY TriesLemma
  <2>3. tries[i].depth + 1 \in DOMAIN acts /\ tries[i].depth <= Depth'
    BY <1>1, <2>1, <2>2
  <2> QED
    BY <1>1, <2>1, <2>2, <2>3
<1>4. TriesThere'
  <2> SUFFICES ASSUME NEW a \in DOMAIN acts', NEW level \in DOMAIN acts'[a].lex,
                      acts'[a].lex[level] = "try"
               PROVE  \E i \in DOMAIN tries : tries[i].depth + 1 = a /\ tries[i].level = level
    BY DEF TriesThere
  <2>1. level \in 1 .. Len(acts'[a].lex) /\ Len(acts'[a].lex) \in Nat
    BY TypedLexesLemma DEF KeepsPrefix
  <2>2. a \in DOMAIN acts
    BY <1>1, <2>1, EmptySeq
  <2>3. level \in 1 .. Len(acts[a].lex) /\ acts[a].lex[level] = "try"
    BY <1>1, <2>1, <2>2, LexesLemma
  <2> QED
    BY <2>2, <2>3, LexesLemma DEF TriesInv, TriesThere
<1> QED
  BY <1>2, <1>3, <1>4 DEF TriesInv

\* A tail call is made outside of every region.
LEMMA TriesRecodedLemma ==
  ASSUME TypeOK, TriesInv, Recodes
  PROVE  TriesInv'
<1>1. tries' = tries /\ Here.lex = <<>> /\ ~AtBoundary
  BY DEF Recodes, TailPosition
<1>2. /\ acts' \in Seq(Activations) /\ Len(acts') = Len(acts) /\ DOMAIN acts' = 1 .. Len(acts)
      /\ \A a \in 1 .. Len(acts) - 1 : acts'[a] = acts[a]
      /\ \A a \in 1 .. Len(acts) : acts'[a].lex = acts[a].lex
  BY RecodedLemma
<1>3. Depth' = Depth /\ Len(acts) = Depth + 1 /\ Depth \in Nat /\ DOMAIN acts = 1 .. Len(acts)
  BY <1>2, HereLemma DEF Depth
<1>4. \A i \in DOMAIN tries : tries[i].depth + 1 \in 1 .. Len(acts) - 1
  <2> SUFFICES ASSUME NEW i \in DOMAIN tries
               PROVE  tries[i].depth + 1 \in 1 .. Len(acts) - 1
    OBVIOUS
  <2>1. tries[i].depth = Depth => tries[i].level <= 0
    BY <1>1, OwnInsideLemma, EmptySeq
  <2>2. tries[i].depth # Depth /\ tries[i].depth \in Nat
    BY <2>1, TriesLemma
  <2>3. tries[i].depth <= Depth
    BY DEF TriesInv, TriesPlaced
  <2> QED
    BY <1>3, <2>2, <2>3
<1>5. TriesSorted'
  BY <1>1 DEF TriesInv, TriesSorted
<1>6. TriesPlaced'
  BY <1>1, <1>2, <1>3, <1>4 DEF TriesInv, TriesPlaced
<1>7. TriesThere'
  BY <1>1, <1>2, <1>3 DEF TriesInv, TriesThere
<1> QED
  BY <1>5, <1>6, <1>7 DEF TriesInv

\* An activation ends with its try frames.
LEMMA TriesPoppedLemma ==
  ASSUME TypeOK, TriesInv, Pops
  PROVE  TriesInv'
<1>1. /\ acts' \in Seq(Activations) /\ Len(acts') = Len(acts) - 1 /\ DOMAIN acts' = 1 .. Len(acts) - 1
      /\ \A a \in 1 .. Len(acts) - 1 : acts'[a] = acts[a]
  BY PoppedLemma DEF Pops
<1>2. /\ DOMAIN acts = 1 .. Len(acts) /\ Len(acts) = Depth + 1 /\ Depth \in Nat
      /\ Depth' = Depth - 1
  BY <1>1, HereLemma DEF Depth
<1>3. /\ DOMAIN tries' = 1 .. Kept
      /\ \A i \in DOMAIN tries' : i \in DOMAIN tries /\ tries'[i] = tries[i]
  BY DiscardedLemma DEF Pops
<1>4. \A i \in DOMAIN tries : tries[i].depth < Depth => i \in DOMAIN tries'
  BY <1>3, KeptBelowLemma, KeptLemma, TriesLemma
<1>5. \A i \in DOMAIN tries' : tries[i].depth < Depth /\ tries[i].depth \in Nat
  BY <1>3, KeptBelowLemma, KeptLemma, TriesLemma
<1>6. TriesSorted'
  BY <1>3 DEF TriesInv, TriesSorted, Before
<1>7. TriesPlaced'
  <2> SUFFICES ASSUME NEW i \in DOMAIN tries'
               PROVE  /\ tries[i].depth <= Depth'
                      /\ tries[i].code = acts'[tries[i].depth + 1].code
                      /\ tries[i].level <= Len(acts'[tries[i].depth + 1].lex)
                           => acts'[tries[i].depth + 1].lex[tries[i].level] = "try"
    BY <1>3 DEF TriesPlaced
  <2>1. tries[i].depth + 1 \in 1 .. Len(acts) - 1 /\ tries[i].depth <= Depth'
    BY <1>2, <1>5
  <2> QED
    BY <1>1, <1>3, <2>1 DEF TriesInv, TriesPlaced
<1>8. TriesThere'
  <2> SUFFICES ASSUME NEW a \in DOMAIN acts', NEW level \in DOMAIN acts[a].lex,
                      acts[a].lex[level] = "try"
               PROVE  \E i \in DOMAIN tries' : tries'[i].depth + 1 = a /\ tries'[i].level = level
    BY <1>1 DEF TriesThere
  <2>1. a \in DOMAIN acts /\ a < Depth + 1
    BY <1>1, <1>2
  <2>2. PICK i \in DOMAIN tries : tries[i].depth + 1 = a /\ tries[i].level = level
    BY <2>1 DEF TriesInv, TriesThere
  <2>3. tries[i].depth < Depth
    BY <1>2, <2>1, <2>2, TriesLemma
  <2> QED
    BY <1>3, <1>4, <2>2, <2>3
<1> QED
  BY <1>6, <1>7, <1>8 DEF TriesInv


\* The innermost try frame goes, at the end of its region or as its handler.
LEMMA TriesFrontLemma ==
  ASSUME TypeOK, TriesInv, tries # <<>>, tries' = Front(tries), NEW k, KeepsPrefix(k),
         Last(tries).depth = Depth, k < Last(tries).level
  PROVE  TriesInv'
<1> DEFINE n == Len(tries)
<1>1. /\ n \in Nat \ {0} /\ DOMAIN tries = 1 .. n /\ DOMAIN tries' = 1 .. n - 1
      /\ \A i \in 1 .. n - 1 : tries'[i] = tries[i]
      /\ tries[n].depth = Depth /\ k < tries[n].level
  BY TopTryLemma
<1>2. \A i \in DOMAIN tries' : i \in DOMAIN tries /\ tries'[i] = tries[i]
  BY <1>1
<1>3. \A i \in DOMAIN tries : i \in DOMAIN tries' \/ i = n
  BY <1>1
<1> HIDE DEF n
<1>4. /\ Depth \in Nat /\ Depth' \in Nat /\ Depth <= Depth'
      /\ DOMAIN acts = 1 .. Depth + 1
      /\ \A a \in DOMAIN acts :
           /\ a \in DOMAIN acts' /\ acts'[a].code = acts[a].code
           /\ \A i \in Nat \ {0} : i <= Len(acts'[a].lex)
                => i <= Len(acts[a].lex) /\ acts'[a].lex[i] = acts[a].lex[i]
      /\ \A a \in DOMAIN acts' : a \in DOMAIN acts \/ acts'[a].lex = <<>>
  BY PrefixKeepsLemma
<1>5. Len(acts'[Depth + 1].lex) = k
  BY HereLemma DEF KeepsPrefix
<1>6. TriesSorted'
  BY <1>2 DEF TriesInv, TriesSorted, Before
<1>7. TriesPlaced'
  <2> SUFFICES ASSUME NEW i \in DOMAIN tries
               PROVE  /\ tries[i].depth <= Depth'
                      /\ tries[i].code = acts'[tries[i].depth + 1].code
                      /\ tries[i].level <= Len(acts'[tries[i].depth + 1].lex)
                           => acts'[tries[i].depth + 1].lex[tries[i].level] = "try"
    BY <1>2 DEF TriesPlaced
  <2>1. /\ tries[i].depth <= Depth /\ tries[i].code = acts[tries[i].depth + 1].code
        /\ tries[i].level <= Len(acts[tries[i].depth + 1].lex)
             => acts[tries[i].depth + 1].lex[tries[i].level] = "try"
    BY DEF TriesInv, TriesPlaced
  <2>2. tries[i].depth \in Nat /\ tries[i].level \in Nat \ {0}
    BY TriesLemma
  <2>3. tries[i].depth + 1 \in DOMAIN acts /\ tries[i].depth <= Depth'
    BY <1>4, <2>1, <2>2
  <2> QED
    BY <1>4, <2>1, <2>2, <2>3
<1>8. TriesThere'
  <2> SUFFICES ASSUME NEW a \in DOMAIN acts', NEW level \in DOMAIN acts'[a].lex,
                      acts'[a].lex[level] = "try"
               PROVE  \E i \in DOMAIN tries' : tries'[i].depth + 1 = a /\ tries'[i].level = level
    BY DEF TriesThere
  <2>1. level \in 1 .. Len(acts'[a].lex) /\ Len(acts'[a].lex) \in Nat
    BY TypedLexesLemma DEF KeepsPrefix
  <2>2. a \in DOMAIN acts
    BY <1>4, <2>1, EmptySeq
  <2>3. level \in 1 .. Len(acts[a].lex) /\ acts[a].lex[level] = "try"
    BY <1>4, <2>1, <2>2, LexesLemma
  <2>4. PICK i \in DOMAIN tries : tries[i].depth + 1 = a /\ tries[i].level = level
    BY <2>2, <2>3, LexesLemma DEF TriesInv, TriesThere
  <2>5. i # n
    <3> SUFFICES ASSUME i = n
                 PROVE  FALSE
      OBVIOUS
    <3>1. a = Depth + 1 /\ k < level
      BY <1>1, <2>4
    <3>2. level <= k /\ level \in Nat
      BY <1>5, <2>1, <3>1
    <3>3. k \in Nat
      BY LexLemma DEF KeepsPrefix
    <3> QED
      BY <3>1, <3>2, <3>3
  <2> QED
    BY <1>2, <1>3, <2>4, <2>5
<1> QED
  BY <1>6, <1>7, <1>8 DEF TriesInv

\* A region opens inside of the others.
LEMMA GrowLemma ==
  ASSUME TypeOK, NEW kind \in {"try", "unpack"}, OpenRegion(kind)
  PROVE  /\ acts' \in Seq(Activations)
         /\ Depth \in Nat /\ Depth' = Depth /\ DOMAIN acts = 1 .. Depth + 1
         /\ DOMAIN acts' = 1 .. Depth + 1 /\ Here = acts[Depth + 1]
         /\ \A a \in 1 .. Depth : acts'[a] = acts[a]
         /\ \A a \in 1 .. Depth + 1 : /\ acts'[a].code = acts[a].code
                                      /\ acts'[a].unpack = acts[a].unpack
         /\ Len(Here.lex) \in Nat
         /\ Len(acts'[Depth + 1].lex) = Len(Here.lex) + 1
         /\ \A i \in 1 .. Len(Here.lex) : acts'[Depth + 1].lex[i] = Here.lex[i]
         /\ acts'[Depth + 1].lex[Len(Here.lex) + 1] = kind
<1> DEFINE lex == Append(Here.lex, kind)
<1>1. lex \in Seq({"try", "unpack"}) /\ acts' = Moved(lex)
  BY OpenLemma
<1>2. /\ Len(lex) = Len(Here.lex) + 1
      /\ \A i \in 1 .. Len(Here.lex) : lex[i] = Here.lex[i]
      /\ lex[Len(Here.lex) + 1] = kind
      /\ Len(Here.lex) \in Nat
  BY LexLemma, AppendLemma
<1> HIDE DEF lex
<1>3. /\ Depth \in Nat /\ Len(acts) = Depth + 1 /\ DOMAIN acts = 1 .. Depth + 1
      /\ Here = acts[Depth + 1]
  BY HereLemma
<1>4. /\ acts' \in Seq(Activations) /\ Len(acts') = Len(acts)
      /\ DOMAIN acts' = 1 .. Depth + 1
      /\ \A a \in 1 .. Len(acts) - 1 : acts'[a] = acts[a]
      /\ \A a \in 1 .. Len(acts) : /\ acts'[a].code = acts[a].code
                                   /\ acts'[a].unpack = acts[a].unpack
      /\ acts'[Len(acts)].lex = lex
  BY <1>1, <1>3, MovedLemma
<1>5. \A a \in 1 .. Depth : acts'[a] = acts[a]
  BY <1>3, <1>4
<1>6. Depth' = Depth
  BY <1>3, <1>4 DEF Depth
<1>7. acts'[Depth + 1].lex = lex
  BY <1>3, <1>4
<1> QED
  BY <1>2, <1>3, <1>4, <1>5, <1>6, <1>7

LEMMA TriesTryOpenLemma ==
  ASSUME TypeOK, TriesInv, TryOpen
  PROVE  TriesInv'
<1> DEFINE n == Len(tries) + 1
           l == Len(Here.lex) + 1
<1>1. OpenRegion("try") /\ ~AtBoundary
  BY DEF TryOpen, OpenRegion, CanExecute
<1>2. /\ Depth \in Nat /\ Depth' = Depth /\ DOMAIN acts = 1 .. Depth + 1
      /\ DOMAIN acts' = 1 .. Depth + 1 /\ Here = acts[Depth + 1]
      /\ \A a \in 1 .. Depth : acts'[a] = acts[a]
      /\ \A a \in 1 .. Depth + 1 : acts'[a].code = acts[a].code
      /\ l \in Nat \ {0}
      /\ Len(acts'[Depth + 1].lex) = l
      /\ \A i \in 1 .. l - 1 : acts'[Depth + 1].lex[i] = Here.lex[i]
      /\ acts'[Depth + 1].lex[l] = "try"
  BY <1>1, GrowLemma
<1>3. acts' \in Seq(Activations)
  BY <1>1, GrowLemma
<1>4. /\ DOMAIN tries = 1 .. n - 1 /\ DOMAIN tries' = 1 .. n /\ n \in Nat \ {0}
      /\ \A i \in 1 .. n - 1 : tries'[i] = tries[i]
      /\ tries'[n] = NewTry
  BY TriesLemma, NewTryLemma, AppendLemma
<1>5. /\ \A i \in DOMAIN tries : i \in DOMAIN tries' /\ tries'[i] = tries[i] /\ i < n
      /\ \A i \in DOMAIN tries' : i \in DOMAIN tries \/ i = n
      /\ n \in DOMAIN tries'
      /\ tries'[n].depth = Depth /\ tries'[n].code = Here.code /\ tries'[n].level = l
  BY <1>4 DEF NewTry
<1>6. \A i \in DOMAIN tries : /\ tries[i].depth \in Nat /\ tries[i].level \in Nat \ {0}
                              /\ tries[i].depth <= Depth
                              /\ tries[i].depth = Depth => tries[i].level < l
  <2>1. \A i \in DOMAIN tries : tries[i].depth = Depth => tries[i].level <= l - 1
    BY <1>1, <1>2, OwnInsideLemma
  <2> QED
    BY <1>2, <2>1, TriesLemma DEF TriesInv, TriesPlaced
<1> HIDE DEF n, l
<1>7. TriesSorted'
  <2> SUFFICES ASSUME NEW i \in DOMAIN tries', NEW j \in DOMAIN tries', i < j
               PROVE  Before(tries'[i], tries'[j])
    BY DEF TriesSorted, Before
  <2>1. CASE j \in DOMAIN tries
    <3>1. i \in DOMAIN tries
      BY <1>4, <2>1
    <3> QED
      BY <1>5, <2>1, <3>1 DEF TriesInv, TriesSorted
  <2>2. CASE j = n
    <3>1. i \in DOMAIN tries
      BY <1>4, <2>2
    <3> QED
      BY <1>2, <1>5, <1>6, <2>2, <3>1 DEF Before
  <2> QED
    BY <1>5, <2>1, <2>2
<1>8. TriesPlaced'
  <2> SUFFICES ASSUME NEW i \in DOMAIN tries'
               PROVE  /\ tries'[i].depth <= Depth'
                      /\ tries'[i].code = acts'[tries'[i].depth + 1].code
                      /\ tries'[i].level <= Len(acts'[tries'[i].depth + 1].lex)
                           => acts'[tries'[i].depth + 1].lex[tries'[i].level] = "try"
    BY DEF TriesPlaced
  <2>1. CASE i = n
    BY <1>2, <1>5, <2>1
  <2>2. CASE i \in DOMAIN tries /\ tries[i].depth = Depth
    <3>1. tries[i].level \in 1 .. l - 1 /\ tries[i].level <= Len(Here.lex)
      BY <1>2, <1>6, <2>2 DEF l
    <3>2. tries[i].code = Here.code /\ Here.lex[tries[i].level] = "try"
      BY <1>2, <2>2, <3>1 DEF TriesInv, TriesPlaced
    <3> QED
      BY <1>2, <1>5, <2>2, <3>1, <3>2
  <2>3. CASE i \in DOMAIN tries /\ tries[i].depth # Depth
    <3>1. tries[i].depth + 1 \in 1 .. Depth /\ tries[i].depth <= Depth
      BY <1>2, <1>6, <2>3
    <3> QED
      BY <1>2, <1>5, <2>3, <3>1 DEF TriesInv, TriesPlaced
  <2> QED
    BY <1>5, <2>1, <2>2, <2>3
<1>9. TriesThere'
  <2> SUFFICES ASSUME NEW a \in DOMAIN acts', NEW level \in DOMAIN acts'[a].lex,
                      acts'[a].lex[level] = "try"
               PROVE  \E i \in DOMAIN tries' : tries'[i].depth + 1 = a /\ tries'[i].level = level
    BY DEF TriesThere
  <2>1. level \in 1 .. Len(acts'[a].lex)
    BY <1>3, TypedLexesLemma
  <2>2. CASE a = Depth + 1 /\ level = l
    BY <1>5, <2>2
  <2>3. CASE ~ (a = Depth + 1 /\ level = l)
    <3>1. a \in DOMAIN acts /\ level \in 1 .. Len(acts[a].lex) /\ acts[a].lex[level] = "try"
      <4>1. CASE a = Depth + 1
        <5>1. level \in 1 .. l - 1
          BY <1>2, <2>1, <2>3, <4>1
        <5> QED
          BY <1>2, <4>1, <5>1 DEF l
      <4>2. CASE a \in 1 .. Depth
        BY <1>2, <2>1, <4>2
      <4> QED
        BY <1>2, <4>1, <4>2
    <3>2. PICK i \in DOMAIN tries : tries[i].depth + 1 = a /\ tries[i].level = level
      BY <3>1, LexesLemma DEF TriesInv, TriesThere
    <3> QED
      BY <1>5, <3>2
  <2> QED
    BY <2>2, <2>3
<1> QED
  BY <1>7, <1>8, <1>9 DEF TriesInv



LEMMA TriesUnpackOpenLemma ==
  ASSUME TypeOK, TriesInv, UnpackOpen
  PROVE  TriesInv'
<1> DEFINE l == Len(Here.lex) + 1
<1>1. OpenRegion("unpack") /\ ~AtBoundary /\ tries' = tries
  BY DEF UnpackOpen, OpenRegion, CanExecute
<1>2. /\ Depth \in Nat /\ Depth' = Depth /\ DOMAIN acts = 1 .. Depth + 1
      /\ DOMAIN acts' = 1 .. Depth + 1 /\ Here = acts[Depth + 1]
      /\ \A a \in 1 .. Depth : acts'[a] = acts[a]
      /\ \A a \in 1 .. Depth + 1 : acts'[a].code = acts[a].code
      /\ l \in Nat \ {0}
      /\ Len(acts'[Depth + 1].lex) = l
      /\ \A i \in 1 .. l - 1 : acts'[Depth + 1].lex[i] = Here.lex[i]
      /\ acts'[Depth + 1].lex[l] = "unpack"
  BY <1>1, GrowLemma
<1>3. acts' \in Seq(Activations)
  BY <1>1, GrowLemma
<1>4. \A i \in DOMAIN tries : /\ tries[i].depth \in Nat /\ tries[i].level \in Nat \ {0}
                              /\ tries[i].depth <= Depth
                              /\ tries[i].depth = Depth => tries[i].level < l
  <2>1. \A i \in DOMAIN tries : tries[i].depth = Depth => tries[i].level <= l - 1
    BY <1>1, <1>2, OwnInsideLemma
  <2> QED
    BY <1>2, <2>1, TriesLemma DEF TriesInv, TriesPlaced
<1> HIDE DEF l
<1>5. TriesSorted'
  BY <1>1 DEF TriesInv, TriesSorted
<1>6. TriesPlaced'
  <2> SUFFICES ASSUME NEW i \in DOMAIN tries
               PROVE  /\ tries[i].depth <= Depth'
                      /\ tries[i].code = acts'[tries[i].depth + 1].code
                      /\ tries[i].level <= Len(acts'[tries[i].depth + 1].lex)
                           => acts'[tries[i].depth + 1].lex[tries[i].level] = "try"
    BY <1>1 DEF TriesPlaced
  <2>1. CASE tries[i].depth = Depth
    <3>1. tries[i].level \in 1 .. l - 1 /\ tries[i].level <= Len(Here.lex)
      BY <1>2, <1>4, <2>1 DEF l
    <3>2. tries[i].code = Here.code /\ Here.lex[tries[i].level] = "try"
      BY <1>2, <2>1, <3>1 DEF TriesInv, TriesPlaced
    <3> QED
      BY <1>2, <2>1, <3>1, <3>2
  <2>2. CASE tries[i].depth # Depth
    <3>1. tries[i].depth + 1 \in 1 .. Depth /\ tries[i].depth <= Depth
      BY <1>2, <1>4, <2>2
    <3> QED
      BY <1>2, <2>2, <3>1 DEF TriesInv, TriesPlaced
  <2> QED
    BY <2>1, <2>2
<1>7. TriesThere'
  <2> SUFFICES ASSUME NEW a \in DOMAIN acts', NEW level \in DOMAIN acts'[a].lex,
                      acts'[a].lex[level] = "try"
               PROVE  \E i \in DOMAIN tries : tries[i].depth + 1 = a /\ tries[i].level = level
    BY <1>1 DEF TriesThere
  <2>1. level \in 1 .. Len(acts'[a].lex)
    BY <1>3, TypedLexesLemma
  <2>2. ~ (a = Depth + 1 /\ level = l)
    BY <1>2
  <2>3. a \in DOMAIN acts /\ level \in 1 .. Len(acts[a].lex) /\ acts[a].lex[level] = "try"
    <3>1. CASE a = Depth + 1
      <4>1. level \in 1 .. l - 1
        BY <1>2, <2>1, <2>2, <3>1
      <4> QED
        BY <1>2, <3>1, <4>1 DEF l
    <3>2. CASE a \in 1 .. Depth
      BY <1>2, <2>1, <3>2
    <3> QED
      BY <1>2, <3>1, <3>2
  <2> QED
    BY <2>3, LexesLemma DEF TriesInv, TriesThere
<1> QED
  BY <1>5, <1>6, <1>7 DEF TriesInv

\* The steps that keep a prefix of the regions.
LEMMA PushesKeepsLemma ==
  ASSUME TypeOK, NEW module \in Modules \cup {NoModule}, Pushes(module)
  PROVE  \E k : KeepsPrefix(k) /\ \A i \in k + 1 .. Len(Here.lex) : Here.lex[i] = "try"
  BY PushedLemma DEF KeepsPrefix

LEMMA LeavesKeepsLemma ==
  ASSUME TypeOK, Leaves
  PROVE  \E k : /\ KeepsPrefix(k)
                /\ ~Escapes => \A i \in k + 1 .. Len(Here.lex) : Here.lex[i] = "try"
  BY LeftLemma DEF KeepsPrefix

\* The regions of the running activation are cut to a shorter sequence.
LEMMA CutKeepsLemma ==
  ASSUME TypeOK, NEW lex \in Seq({"try", "unpack"}), acts' = Moved(lex),
         Len(lex) \in 0 .. Len(Here.lex),
         \A i \in 1 .. Len(lex) : lex[i] = Here.lex[i]
  PROVE  KeepsPrefix(Len(lex))
<1>1. /\ acts' \in Seq(Activations) /\ Len(acts') = Len(acts)
      /\ \A a \in 1 .. Len(acts) - 1 : acts'[a] = acts[a]
      /\ \A a \in 1 .. Len(acts) : acts'[a].code = acts[a].code /\ acts'[a].unpack = acts[a].unpack
      /\ acts'[Len(acts)].lex = lex
  BY MovedLemma
<1> QED
  BY <1>1 DEF KeepsPrefix

LEMMA SameKeepsLemma ==
  ASSUME TypeOK, acts' = acts
  PROVE  KeepsPrefix(Len(Here.lex))
<1>1. Len(Here.lex) \in 0 .. Len(Here.lex) /\ Here = acts[Len(acts)]
  BY LexLemma, HereLemma
<1>2. acts \in Seq(Activations)
  BY DEF TypeOK
<1> QED
  BY <1>1, <1>2 DEF KeepsPrefix

LEMMA TriesStepLemma ==
  ASSUME TypeOK, Live => TriesInv, StackStep
  PROVE  (Live => TriesInv)'
<1>0. ASSUME TriesInv, tries' = tries, \E k : KeepsPrefix(k)
      PROVE  TriesInv'
  BY <1>0, TriesPrefixLemma
<1>1. ASSUME NEW module \in Modules \cup {NoModule}, Pushes(module), Live
      PROVE  TriesInv'
  BY <1>0, <1>1, PushesKeepsLemma DEF Pushes
<1>2. CASE Leaves /\ Live
  BY <1>0, <1>2, LeavesKeepsLemma DEF Leaves
<1>3. CASE Recodes /\ Live
  BY <1>3, TriesRecodedLemma
<1>4. CASE Ends
  BY <1>4 DEF Ends, Live
<1>5. CASE TryOpen /\ Live
  BY <1>5, TriesTryOpenLemma
<1>6. CASE UnpackOpen /\ Live
  BY <1>6, TriesUnpackOpenLemma
<1>7. CASE UnpackClose /\ Live
  <2>1. /\ Front(Here.lex) \in Seq({"try", "unpack"}) /\ acts' = Moved(Front(Here.lex))
        /\ Len(Front(Here.lex)) \in 0 .. Len(Here.lex)
        /\ \A i \in 1 .. Len(Front(Here.lex)) : Front(Here.lex)[i] = Here.lex[i]
    BY <1>7, CloseLemma
  <2>2. KeepsPrefix(Len(Front(Here.lex)))
    BY <2>1, CutKeepsLemma
  <2> QED
    BY <1>0, <1>7, <2>2 DEF UnpackClose
<1>8. CASE FinishTry /\ Live
  <2>1. /\ tries # <<>> /\ tries' = Front(tries) /\ acts' = acts
        /\ Last(tries).depth = Depth /\ Len(Here.lex) < Last(tries).level
    BY <1>8 DEF FinishTry, AtBoundary, TryHere
  <2> QED
    BY <1>8, <2>1, SameKeepsLemma, TriesFrontLemma
<1>9. CASE CatchTry /\ Live
  <2> DEFINE lex == Outside(Last(tries).level)
  <2>1. /\ tries # <<>> /\ tries' = Front(tries) /\ Last(tries).depth = Depth
    BY <1>9 DEF CatchTry, Catches, TryHere
  <2>2. Last(tries).level \in Nat \ {0} /\ Len(Here.lex) \in Nat
    BY <2>1, TopTryLemma, LexLemma
  <2>3. /\ lex \in Seq({"try", "unpack"}) /\ acts' = Moved(lex)
        /\ Len(lex) = IF Last(tries).level > Len(Here.lex) THEN Len(Here.lex)
                                                          ELSE Last(tries).level - 1
        /\ \A i \in 1 .. Len(lex) : lex[i] = Here.lex[i]
    BY <1>9, OutsideLemma
  <2> HIDE DEF lex
  <2>4. Len(lex) \in 0 .. Len(Here.lex) /\ Len(lex) < Last(tries).level
    BY <2>2, <2>3
  <2>5. KeepsPrefix(Len(lex))
    BY <2>3, <2>4, CutKeepsLemma
  <2> QED
    BY <1>9, <2>1, <2>4, <2>5, TriesFrontLemma
<1>10. CASE Pops /\ Live
  BY <1>10, TriesPoppedLemma
<1>11. CASE Resets
  <2>1. PICK code \in Codes : acts' = Root(code) /\ tries' = <<>>
    BY <1>11 DEF Resets
  <2>2. DOMAIN acts' = {1} /\ acts'[1].lex = <<>>
    BY <2>1, RootLemma
  <2>3. DOMAIN tries' = {} /\ DOMAIN acts'[1].lex = {}
    BY <2>1, <2>2, EmptySeq, LenProperties
  <2> QED
    BY <2>2, <2>3 DEF TriesInv, TriesSorted, TriesPlaced, TriesThere
<1>12. CASE Stays
  <2>1. Live' => Live /\ acts' = acts /\ tries' = tries
    BY <1>12 DEF Stays
  <2> QED
    BY <2>1 DEF TriesInv, TriesSorted, TriesPlaced, TriesThere, Depth
<1>13. ASSUME NEW m \in Modules, Imports(m)
       PROVE  Pushes(m) /\ Live
  BY <1>13 DEF Imports, CanExecute, Free, Loop, Live
<1>14. CaptureError => Live
  BY DEF CaptureError, Unwinding, Live
<1> QED
  BY <1>1, <1>2, <1>3, <1>4, <1>5, <1>6, <1>7, <1>8, <1>9, <1>10, <1>11, <1>12, <1>13, <1>14
     DEF StackStep, Regions


-----------------------------------------------------------------------------
(* The saved values of destructuring assignments, which no jump leaves.    *)

\* A destructuring assignment is under way, as a place in the activations.
Unpacking(stack, a, level) ==
  a \in DOMAIN stack /\ level \in DOMAIN stack[a].lex /\ stack[a].lex[level] = "unpack"

SavesSorted == \A i, j \in DOMAIN unpacks : i < j => Before(unpacks[i], unpacks[j])
SavesPlaced == \A i \in DOMAIN unpacks : Unpacking(acts, unpacks[i].depth + 1, unpacks[i].level)
SavesThere ==
  \A a, level \in Nat :
    Unpacking(acts, a, level)
      => \E i \in DOMAIN unpacks : unpacks[i].depth + 1 = a /\ unpacks[i].level = level

\* What a try frame and an activation rewind to: the values of the assignments
\* around them.
TriesSaved ==
  \A t \in DOMAIN tries :
    /\ tries[t].unpack <= Len(unpacks)
    /\ \A i \in DOMAIN unpacks : i <= tries[t].unpack <=> Before(unpacks[i], tries[t])
ActsSaved ==
  \A a \in DOMAIN acts :
    /\ acts[a].unpack <= Len(unpacks)
    /\ \A i \in DOMAIN unpacks : i <= acts[a].unpack <=> unpacks[i].depth + 1 < a

SavesInv == SavesSorted /\ SavesPlaced /\ SavesThere /\ TriesSaved /\ ActsSaved

LEMMA SavesLemma ==
  ASSUME TypeOK
  PROVE  /\ unpacks \in Seq(SavedValues) /\ Len(unpacks) \in Nat
         /\ DOMAIN unpacks = 1 .. Len(unpacks)
         /\ \A i \in DOMAIN unpacks : unpacks[i].depth \in Nat /\ unpacks[i].level \in Nat \ {0}
<1>1. unpacks \in Seq(SavedValues)
  BY DEF TypeOK
<1>2. \A i \in DOMAIN unpacks : unpacks[i] \in SavedValues
  BY <1>1, LenProperties, ElementOfSeq
<1> QED
  BY <1>1, <1>2, LenProperties, VmCallsAssumption DEF SavedValues

LEMMA UnpacksMatchLemma ==
  ASSUME TypeOK, Live => SavesInv
  PROVE  UnpacksMatch
<1> SUFFICES ASSUME SavesInv
             PROVE  UnpacksMatch
  BY DEF UnpacksMatch
<1>1. \A i, j \in DOMAIN unpacks : i < j => Before(unpacks[i], unpacks[j])
  BY DEF SavesInv, SavesSorted
<1>2. ASSUME NEW u \in Range(unpacks)
      PROVE  /\ u.depth <= Depth
             /\ u.level <= Len(acts[u.depth + 1].lex)
             /\ acts[u.depth + 1].lex[u.level] = "unpack"
  <2>1. PICK i \in DOMAIN unpacks : u = unpacks[i]
    BY <1>2 DEF Range
  <2>2. u.depth \in Nat /\ Unpacking(acts, u.depth + 1, u.level)
    BY <2>1, SavesLemma DEF SavesInv, SavesPlaced
  <2>3. u.depth + 1 \in DOMAIN acts
    BY <2>2 DEF Unpacking
  <2>4. u.depth <= Depth
    BY <2>2, <2>3, HereLemma
  <2> QED
    BY <2>2, <2>3, <2>4, LexesLemma DEF Unpacking
<1>3. ASSUME NEW a \in DOMAIN acts, NEW level \in DOMAIN acts[a].lex,
             acts[a].lex[level] = "unpack"
      PROVE  \E u \in Range(unpacks) : u.depth + 1 = a /\ u.level = level
  <2>1. a \in Nat /\ level \in Nat
    BY HereLemma, LexesLemma
  <2>2. PICK i \in DOMAIN unpacks : unpacks[i].depth + 1 = a /\ unpacks[i].level = level
    BY <1>3, <2>1 DEF SavesInv, SavesThere, Unpacking
  <2> QED
    BY <2>2 DEF Range
<1> QED
  BY <1>1, <1>2, <1>3 DEF UnpacksMatch

\* The saved values are the first n, those of the assignments still under way.
Cuts(n) ==
  /\ n \in 0 .. Len(unpacks)
  /\ Len(unpacks') = n /\ DOMAIN unpacks' = 1 .. n
  /\ \A i \in 1 .. n : unpacks'[i] = unpacks[i]
  /\ \A i \in DOMAIN unpacks : i <= n <=> Unpacking(acts', unpacks[i].depth + 1, unpacks[i].level)
  /\ \A a, level \in Nat : Unpacking(acts', a, level) => Unpacking(acts, a, level)
  /\ \A t \in DOMAIN tries' :
       \/ \E s \in DOMAIN tries : tries'[t] = tries[s] /\ tries[s].unpack <= n
       \/ tries'[t].unpack = n /\ \A i \in 1 .. n : Before(unpacks[i], tries'[t])
  /\ \A a \in DOMAIN acts' :
       \/ a \in DOMAIN acts /\ acts'[a].unpack = acts[a].unpack /\ acts[a].unpack <= n
       \/ acts'[a].unpack = n /\ \A i \in 1 .. n : unpacks[i].depth + 1 < a

LEMMA SavesCutLemma ==
  ASSUME TypeOK, SavesInv, NEW n, Cuts(n)
  PROVE  SavesInv'
<1>1. /\ n \in Nat /\ Len(unpacks') = n /\ DOMAIN unpacks' = 1 .. n
      /\ \A i \in 1 .. n : i \in DOMAIN unpacks /\ unpacks'[i] = unpacks[i]
  <2>1. /\ n \in 0 .. Len(unpacks)
        /\ Len(unpacks') = n /\ DOMAIN unpacks' = 1 .. n
        /\ \A i \in 1 .. n : unpacks'[i] = unpacks[i]
    BY DEF Cuts
  <2>2. DOMAIN unpacks = 1 .. Len(unpacks) /\ Len(unpacks) \in Nat
    BY SavesLemma
  <2> QED
    BY <2>1, <2>2
<1>2. SavesSorted'
  <2>1. \A i, j \in 1 .. n : i < j => Before(unpacks[i], unpacks[j])
    BY <1>1 DEF SavesInv, SavesSorted
  <2> QED
    BY <1>1, <2>1 DEF SavesSorted, Before
<1>3. SavesPlaced'
  <2>1. \A i \in 1 .. n : Unpacking(acts', unpacks[i].depth + 1, unpacks[i].level)
    BY <1>1 DEF Cuts
  <2> QED
    BY <1>1, <2>1 DEF SavesPlaced, Unpacking
<1>4. SavesThere'
  <2> SUFFICES ASSUME NEW a \in Nat, NEW level \in Nat, Unpacking(acts', a, level)
               PROVE  \E i \in DOMAIN unpacks' : unpacks'[i].depth + 1 = a /\ unpacks'[i].level = level
    BY DEF SavesThere, Unpacking
  <2>1. Unpacking(acts, a, level)
    BY DEF Cuts
  <2>2. PICK i \in DOMAIN unpacks : unpacks[i].depth + 1 = a /\ unpacks[i].level = level
    BY <2>1 DEF SavesInv, SavesThere
  <2>3. i <= n
    BY <2>2 DEF Cuts
  <2>4. i \in 1 .. n
    BY <1>1, <2>3, SavesLemma
  <2> QED
    BY <1>1, <2>2, <2>4
<1>5. TriesSaved'
  <2> SUFFICES ASSUME NEW t \in DOMAIN tries'
               PROVE  /\ tries'[t].unpack <= n
                      /\ \A i \in 1 .. n : i <= tries'[t].unpack <=> Before(unpacks[i], tries'[t])
    BY <1>1 DEF TriesSaved, Before
  <2>1. CASE tries'[t].unpack = n /\ \A i \in 1 .. n : Before(unpacks[i], tries'[t])
    BY <1>1, <2>1
  <2>2. ASSUME NEW s \in DOMAIN tries, tries'[t] = tries[s], tries[s].unpack <= n
        PROVE  /\ tries'[t].unpack <= n
               /\ \A i \in 1 .. n : i <= tries'[t].unpack <=> Before(unpacks[i], tries'[t])
    BY <1>1, <2>2 DEF SavesInv, TriesSaved
  <2> QED
    BY <2>1, <2>2 DEF Cuts
<1>6. ActsSaved'
  <2> SUFFICES ASSUME NEW a \in DOMAIN acts'
               PROVE  /\ acts'[a].unpack <= n
                      /\ \A i \in 1 .. n : i <= acts'[a].unpack <=> unpacks[i].depth + 1 < a
    BY <1>1 DEF ActsSaved
  <2>1. CASE acts'[a].unpack = n /\ \A i \in 1 .. n : unpacks[i].depth + 1 < a
    BY <1>1, <2>1
  <2>2. CASE a \in DOMAIN acts /\ acts'[a].unpack = acts[a].unpack /\ acts[a].unpack <= n
    BY <1>1, <2>2 DEF SavesInv, ActsSaved
  <2> QED
    BY <2>1, <2>2 DEF Cuts
<1> QED
  BY <1>2, <1>3, <1>4, <1>5, <1>6 DEF SavesInv


\* Where the running activation goes on inside the first k of its regions, the
\* assignments under way are those of before, but for the ones it has left.
LEMMA PrefixUnpackingLemma ==
  ASSUME TypeOK, NEW k, KeepsPrefix(k), NEW a \in Nat, NEW level \in Nat
  PROVE  Unpacking(acts', a, level)
           <=> Unpacking(acts, a, level) /\ (a = Depth + 1 => level <= k)
<1>1. /\ DOMAIN acts = 1 .. Depth + 1 /\ Depth \in Nat
      /\ \A b \in DOMAIN acts : b \in DOMAIN acts'
      /\ \A b \in DOMAIN acts' : b \in DOMAIN acts \/ acts'[b].lex = <<>>
      /\ \A b \in DOMAIN acts : acts'[b] = acts[b] \/ b = Depth + 1
  BY PrefixKeepsLemma
<1>2. CASE a \notin DOMAIN acts
  <2>1. ASSUME a \in DOMAIN acts'
        PROVE  DOMAIN acts'[a].lex = {}
    <3>1. acts'[a].lex = <<>>
      BY <1>1, <1>2, <2>1
    <3> QED
      BY <3>1
  <2> QED
    BY <1>2, <2>1 DEF Unpacking
<1>3. CASE a \in DOMAIN acts /\ a # Depth + 1
  <2>1. acts'[a] = acts[a] /\ a \in DOMAIN acts'
    BY <1>1, <1>3
  <2> QED
    BY <1>3, <2>1 DEF Unpacking
<1>4. CASE a = Depth + 1
  <2>1. Len(acts) = a /\ a \in DOMAIN acts /\ a \in DOMAIN acts' /\ Here = acts[a]
    BY <1>1, <1>4, HereLemma
  <2>2. /\ k \in 0 .. Len(Here.lex) /\ Len(acts'[a].lex) = k
        /\ \A i \in 1 .. k : acts'[a].lex[i] = Here.lex[i]
    BY <2>1 DEF KeepsPrefix
  <2>3. DOMAIN acts'[a].lex = 1 .. k
    BY <2>1, <2>2, TypedLexesLemma DEF KeepsPrefix
  <2>4. DOMAIN acts[a].lex = 1 .. Len(Here.lex) /\ Len(Here.lex) \in Nat /\ k \in Nat
    BY <2>1, <2>2, LexLemma
  <2>5. level \in DOMAIN acts'[a].lex <=> level \in DOMAIN acts[a].lex /\ level <= k
    BY <2>2, <2>3, <2>4
  <2> QED
    BY <1>4, <2>1, <2>2, <2>3, <2>5 DEF Unpacking
<1> QED
  BY <1>2, <1>3, <1>4

\* The activations refer to no more saved values than there are.
LEMMA PrefixSavedLemma ==
  ASSUME TypeOK, SavesInv, NEW k, KeepsPrefix(k), NEW a \in DOMAIN acts'
  PROVE  \/ a \in DOMAIN acts /\ acts'[a].unpack = acts[a].unpack
         \/ acts'[a].unpack = Len(unpacks) /\ \A i \in DOMAIN unpacks : unpacks[i].depth + 1 < a
<1>1. /\ Len(acts) = Depth + 1 /\ Depth \in Nat /\ DOMAIN acts = 1 .. Depth + 1
  BY HereLemma
<1>2. a \in 1 .. Len(acts')
  BY LenProperties DEF KeepsPrefix
<1>3. CASE a \in DOMAIN acts
  BY <1>1, <1>3 DEF KeepsPrefix
<1>4. CASE a \notin DOMAIN acts
  <2>1. Len(acts') = Len(acts) + 1 /\ acts'[Len(acts) + 1].unpack = Len(unpacks) /\ a = Depth + 2
    <3>1. Len(acts') # Len(acts)
      BY <1>1, <1>2, <1>4
    <3>2. Len(acts') = Len(acts) + 1 /\ acts'[Len(acts) + 1].unpack = Len(unpacks)
      BY <3>1 DEF KeepsPrefix
    <3> QED
      BY <1>1, <1>2, <1>4, <3>2
  <2>2. \A i \in DOMAIN unpacks : unpacks[i].depth + 1 <= Depth + 1 /\ unpacks[i].depth \in Nat
    BY <1>1, SavesLemma DEF SavesInv, SavesPlaced, Unpacking
  <2>3. \A i \in DOMAIN unpacks : unpacks[i].depth + 1 < a
    BY <1>1, <2>1, <2>2
  <2> QED
    BY <1>1, <2>1, <2>3
<1> QED
  BY <1>3, <1>4

\* The saved values stay, and so do the assignments under way.
TriesSaveAll ==
  \A t \in DOMAIN tries' :
    \/ \E s \in DOMAIN tries : tries'[t] = tries[s]
    \/ tries'[t].unpack = Len(unpacks) /\ \A i \in DOMAIN unpacks : Before(unpacks[i], tries'[t])
ActsSaveAll ==
  \A a \in DOMAIN acts' :
    \/ a \in DOMAIN acts /\ acts'[a].unpack = acts[a].unpack
    \/ acts'[a].unpack = Len(unpacks) /\ \A i \in DOMAIN unpacks : unpacks[i].depth + 1 < a
SameUnpacking ==
  \A a, level \in Nat : Unpacking(acts', a, level) <=> Unpacking(acts, a, level)

LEMMA SavesSameLemma ==
  ASSUME TypeOK, SavesInv, unpacks' = unpacks, SameUnpacking, TriesSaveAll, ActsSaveAll
  PROVE  SavesInv'
<1> DEFINE n == Len(unpacks)
<1>1. n \in 0 .. Len(unpacks) /\ DOMAIN unpacks = 1 .. n
  BY SavesLemma
<1>2. \A i \in DOMAIN unpacks : Unpacking(acts', unpacks[i].depth + 1, unpacks[i].level)
  BY SavesLemma DEF SavesInv, SavesPlaced, SameUnpacking
<1>3. \A i \in DOMAIN unpacks : i <= n
  BY <1>1
<1>4. \A t \in DOMAIN tries' :
        \/ \E s \in DOMAIN tries : tries'[t] = tries[s] /\ tries[s].unpack <= n
        \/ tries'[t].unpack = n /\ \A i \in 1 .. n : Before(unpacks[i], tries'[t])
  <2>1. \A s \in DOMAIN tries : tries[s].unpack <= n
    BY DEF SavesInv, TriesSaved
  <2> QED
    BY <1>1, <2>1 DEF TriesSaveAll
<1>5. \A a \in DOMAIN acts' :
        \/ a \in DOMAIN acts /\ acts'[a].unpack = acts[a].unpack /\ acts[a].unpack <= n
        \/ acts'[a].unpack = n /\ \A i \in 1 .. n : unpacks[i].depth + 1 < a
  BY <1>1 DEF SavesInv, ActsSaved, ActsSaveAll
<1>6. Cuts(n)
  BY <1>1, <1>2, <1>3, <1>4, <1>5 DEF Cuts, SameUnpacking
<1> QED
  BY <1>6, SavesCutLemma

\* An instruction leaves no assignment, and changes no try frame.
LEMMA SavesKeptLemma ==
  ASSUME TypeOK, SavesInv, NEW k, KeepsPrefix(k), UNCHANGED <<tries, unpacks>>,
         \A i \in k + 1 .. Len(Here.lex) : Here.lex[i] = "try"
  PROVE  SavesInv'
<1>1. SameUnpacking
  <2> SUFFICES ASSUME NEW a \in Nat, NEW level \in Nat, Unpacking(acts, a, level), a = Depth + 1
               PROVE  level <= k
    BY PrefixUnpackingLemma DEF SameUnpacking
  <2>1. level \in 1 .. Len(Here.lex) /\ Here.lex[level] # "try"
    BY HereLemma, LexLemma DEF Unpacking
  <2>2. ~ (level \in k + 1 .. Len(Here.lex))
    BY <2>1
  <2> QED
    BY <2>1, <2>2, LexLemma DEF KeepsPrefix
<1>2. TriesSaveAll
  BY DEF TriesSaveAll
<1>3. ActsSaveAll
  BY PrefixSavedLemma DEF ActsSaveAll
<1> QED
  BY <1>1, <1>2, <1>3, SavesSameLemma

LEMMA SavesRecodedLemma ==
  ASSUME TypeOK, SavesInv, Recodes
  PROVE  SavesInv'
<1>1. /\ DOMAIN acts' = DOMAIN acts
      /\ \A a \in DOMAIN acts : acts'[a].lex = acts[a].lex /\ acts'[a].unpack = acts[a].unpack
  BY RecodedLemma, HereLemma
<1>2. unpacks' = unpacks /\ tries' = tries
  BY DEF Recodes
<1>3. SameUnpacking
  BY <1>1 DEF SameUnpacking, Unpacking
<1>4. TriesSaveAll /\ ActsSaveAll
  BY <1>1, <1>2 DEF TriesSaveAll, ActsSaveAll
<1> QED
  BY <1>2, <1>3, <1>4, SavesSameLemma

\* All the saved values are of assignments around what the running activation
\* does next.
LEMMA SavesInsideLemma ==
  ASSUME TypeOK, SavesInv
  PROVE  \A i \in DOMAIN unpacks :
           /\ unpacks[i].depth \in Nat /\ unpacks[i].level \in Nat \ {0}
           /\ unpacks[i].depth <= Depth
           /\ unpacks[i].depth = Depth => unpacks[i].level <= Len(Here.lex)
<1> SUFFICES ASSUME NEW i \in DOMAIN unpacks
             PROVE  /\ unpacks[i].depth \in Nat /\ unpacks[i].level \in Nat \ {0}
                    /\ unpacks[i].depth <= Depth
                    /\ unpacks[i].depth = Depth => unpacks[i].level <= Len(Here.lex)
  OBVIOUS
<1>1. unpacks[i].depth \in Nat /\ unpacks[i].level \in Nat \ {0}
  BY SavesLemma
<1>2. Unpacking(acts, unpacks[i].depth + 1, unpacks[i].level)
  BY DEF SavesInv, SavesPlaced
<1>3. unpacks[i].depth <= Depth
  BY <1>1, <1>2, HereLemma DEF Unpacking
<1>4. unpacks[i].depth = Depth => unpacks[i].level <= Len(Here.lex)
  BY <1>1, <1>2, HereLemma, LexLemma DEF Unpacking
<1> QED
  BY <1>1, <1>3, <1>4

LEMMA GrowUnpackingLemma ==
  ASSUME TypeOK, NEW kind \in {"try", "unpack"}, OpenRegion(kind),
         NEW a \in Nat, NEW level \in Nat
  PROVE  Unpacking(acts', a, level)
           <=> \/ Unpacking(acts, a, level)
               \/ kind = "unpack" /\ a = Depth + 1 /\ level = Len(Here.lex) + 1
<1>1. /\ Depth \in Nat /\ Depth' = Depth /\ DOMAIN acts = 1 .. Depth + 1
      /\ DOMAIN acts' = 1 .. Depth + 1 /\ Here = acts[Depth + 1]
      /\ \A b \in 1 .. Depth : acts'[b] = acts[b]
      /\ Len(Here.lex) \in Nat
      /\ Len(acts'[Depth + 1].lex) = Len(Here.lex) + 1
      /\ \A i \in 1 .. Len(Here.lex) : acts'[Depth + 1].lex[i] = Here.lex[i]
      /\ acts'[Depth + 1].lex[Len(Here.lex) + 1] = kind
  BY GrowLemma
<1>2. acts' \in Seq(Activations)
  BY GrowLemma
<1>3. CASE a # Depth + 1
  BY <1>1, <1>3 DEF Unpacking
<1>4. CASE a = Depth + 1
  <2>1. DOMAIN acts'[a].lex = 1 .. Len(Here.lex) + 1
    BY <1>1, <1>2, <1>4, TypedLexesLemma
  <2>2. DOMAIN acts[a].lex = 1 .. Len(Here.lex)
    BY <1>1, <1>4, LexLemma
  <2> QED
    BY <1>1, <1>4, <2>1, <2>2 DEF Unpacking
<1> QED
  BY <1>3, <1>4


LEMMA SavesTryOpenLemma ==
  ASSUME TypeOK, SavesInv, TryOpen
  PROVE  SavesInv'
<1>1. OpenRegion("try") /\ unpacks' = unpacks
  BY DEF TryOpen
<1>2. SameUnpacking
  BY <1>1, GrowUnpackingLemma DEF SameUnpacking
<1>3. TriesSaveAll
  <2>1. /\ DOMAIN tries' = 1 .. Len(tries) + 1 /\ DOMAIN tries = 1 .. Len(tries)
        /\ \A i \in 1 .. Len(tries) : tries'[i] = tries[i]
        /\ tries'[Len(tries) + 1] = NewTry /\ Len(tries) \in Nat
    BY TriesLemma, NewTryLemma, AppendLemma
  <2>2. NewTry.unpack = Len(unpacks) /\ NewTry.depth = Depth /\ NewTry.level = Len(Here.lex) + 1
    BY DEF NewTry
  <2>3. \A i \in DOMAIN unpacks : Before(unpacks[i], NewTry)
    BY <2>2, SavesInsideLemma, LexLemma, HereLemma DEF Before
  <2>4. \A t \in DOMAIN tries' : t \in DOMAIN tries \/ t = Len(tries) + 1
    BY <2>1
  <2> QED
    BY <2>1, <2>2, <2>3, <2>4 DEF TriesSaveAll
<1>4. ActsSaveAll
  BY <1>1, GrowLemma DEF ActsSaveAll
<1> QED
  BY <1>1, <1>2, <1>3, <1>4, SavesSameLemma

LEMMA SavesUnpackOpenLemma ==
  ASSUME TypeOK, TriesInv, SavesInv, UnpackOpen
  PROVE  SavesInv'
<1> DEFINE n == Len(unpacks) + 1
           l == Len(Here.lex) + 1
<1>1. OpenRegion("unpack") /\ ~AtBoundary /\ tries' = tries
  BY DEF UnpackOpen, OpenRegion, CanExecute
<1>2. /\ DOMAIN unpacks = 1 .. n - 1 /\ DOMAIN unpacks' = 1 .. n /\ n \in Nat \ {0}
      /\ Len(unpacks') = n /\ Len(unpacks) = n - 1
      /\ \A i \in 1 .. n - 1 : unpacks'[i] = unpacks[i]
      /\ unpacks'[n] = NewSaved
  BY SavesLemma, NewSavedLemma, AppendLemma
<1>3. unpacks'[n].depth = Depth /\ unpacks'[n].level = l
  BY <1>2 DEF NewSaved
<1>4. Depth \in Nat /\ l \in Nat \ {0} /\ Depth' = Depth
  BY <1>1, GrowLemma
<1>5. \A i \in DOMAIN unpacks : /\ i \in DOMAIN unpacks' /\ unpacks'[i] = unpacks[i] /\ i < n
                                /\ Before(unpacks[i], unpacks'[n])
  <2>1. \A i \in DOMAIN unpacks : Before(unpacks[i], unpacks'[n])
    BY <1>3, <1>4, SavesInsideLemma, LexLemma DEF Before
  <2> QED
    BY <1>2, <2>1
<1>6. \A i \in DOMAIN unpacks' : i \in DOMAIN unpacks \/ i = n
  BY <1>2
<1>7. \A a, level \in Nat : Unpacking(acts', a, level)
                              <=> Unpacking(acts, a, level) \/ (a = Depth + 1 /\ level = l)
  BY <1>1, GrowUnpackingLemma
<1>8. n \in DOMAIN unpacks'
  BY <1>2
<1> HIDE DEF n, l
<1>9. SavesSorted'
  <2> SUFFICES ASSUME NEW i \in DOMAIN unpacks', NEW j \in DOMAIN unpacks', i < j
               PROVE  Before(unpacks'[i], unpacks'[j])
    BY DEF SavesSorted, Before
  <2>1. i \in DOMAIN unpacks
    BY <1>2, <1>6
  <2> QED
    BY <1>5, <1>6, <2>1 DEF SavesInv, SavesSorted
<1>10. SavesPlaced'
  <2> SUFFICES ASSUME NEW i \in DOMAIN unpacks'
               PROVE  Unpacking(acts', unpacks'[i].depth + 1, unpacks'[i].level)
    BY DEF SavesPlaced, Unpacking
  <2>1. CASE i = n
    BY <1>3, <1>4, <1>7, <2>1
  <2>2. CASE i \in DOMAIN unpacks
    BY <1>5, <1>7, <2>2, SavesLemma DEF SavesInv, SavesPlaced
  <2> QED
    BY <1>6, <2>1, <2>2
<1>11. SavesThere'
  <2> SUFFICES ASSUME NEW a \in Nat, NEW level \in Nat, Unpacking(acts', a, level)
               PROVE  \E i \in DOMAIN unpacks' : unpacks'[i].depth + 1 = a /\ unpacks'[i].level = level
    BY DEF SavesThere, Unpacking
  <2>1. CASE a = Depth + 1 /\ level = l
    BY <1>3, <1>8, <2>1
  <2>2. CASE Unpacking(acts, a, level)
    <3>1. PICK i \in DOMAIN unpacks : unpacks[i].depth + 1 = a /\ unpacks[i].level = level
      BY <2>2 DEF SavesInv, SavesThere
    <3> QED
      BY <1>5, <3>1
  <2> QED
    BY <1>7, <2>1, <2>2
<1>12. TriesSaved'
  <2> SUFFICES ASSUME NEW t \in DOMAIN tries
               PROVE  /\ tries[t].unpack <= n
                      /\ \A i \in DOMAIN unpacks' :
                           i <= tries[t].unpack <=> Before(unpacks'[i], tries[t])
    BY <1>1, <1>2 DEF TriesSaved, Before
  <2>1. /\ tries[t].unpack <= n - 1 /\ tries[t].unpack \in Nat
        /\ tries[t].depth \in Nat /\ tries[t].level \in Nat \ {0}
        /\ tries[t].depth <= Depth
        /\ tries[t].depth = Depth => tries[t].level <= Len(Here.lex)
    BY <1>1, <1>2, TriesLemma, OwnInsideLemma DEF SavesInv, TriesSaved, TriesInv, TriesPlaced
  <2>2. ~Before(unpacks'[n], tries[t])
    <3>1. tries[t].depth = Depth => tries[t].level < l
      BY <2>1, LexLemma DEF l
    <3> QED
      BY <1>3, <1>4, <2>1, <3>1 DEF Before
  <2>3. ~ (n <= tries[t].unpack) /\ tries[t].unpack <= n
    BY <1>2, <2>1
  <2>4. \A i \in DOMAIN unpacks : i <= tries[t].unpack <=> Before(unpacks'[i], tries[t])
    BY <1>5 DEF SavesInv, TriesSaved
  <2> QED
    BY <1>6, <2>2, <2>3, <2>4
<1>13. ActsSaved'
  <2> SUFFICES ASSUME NEW a \in DOMAIN acts'
               PROVE  /\ acts'[a].unpack <= n
                      /\ \A i \in DOMAIN unpacks' :
                           i <= acts'[a].unpack <=> unpacks'[i].depth + 1 < a
    BY <1>2 DEF ActsSaved
  <2>1. a \in 1 .. Depth + 1 /\ a \in DOMAIN acts /\ acts'[a].unpack = acts[a].unpack
    BY <1>1, GrowLemma
  <2>2. acts[a].unpack \in Nat /\ acts[a].unpack <= n - 1
    BY <1>2, <2>1, LexesLemma DEF SavesInv, ActsSaved
  <2>3. ~ (n <= acts[a].unpack) /\ acts[a].unpack <= n /\ ~ (unpacks'[n].depth + 1 < a)
    BY <1>2, <1>3, <1>4, <2>1, <2>2
  <2>4. \A i \in DOMAIN unpacks : i <= acts[a].unpack <=> unpacks'[i].depth + 1 < a
    BY <1>5, <2>1 DEF SavesInv, ActsSaved
  <2> QED
    BY <1>6, <2>1, <2>3, <2>4
<1> QED
  BY <1>9, <1>10, <1>11, <1>12, <1>13 DEF SavesInv


\* What is kept of the saved values is what the places that are left say.
LEMMA SavesRewoundLemma ==
  ASSUME TypeOK, NEW n \in 0 .. Len(unpacks), unpacks' = Rewound(n)
  PROVE  /\ Len(unpacks') = n /\ DOMAIN unpacks' = 1 .. n
         /\ \A i \in 1 .. n : unpacks'[i] = unpacks[i]
<1>1. n \in Nat /\ n <= Len(unpacks) /\ Len(unpacks) \in Nat
  BY SavesLemma
<1>2. /\ DOMAIN unpacks' = 1 .. Len(unpacks')
      /\ Len(unpacks') = IF n < Len(unpacks) THEN n ELSE Len(unpacks)
      /\ \A i \in DOMAIN unpacks' : unpacks'[i] = unpacks[i]
  BY <1>1, RewoundLemma
<1>3. Len(unpacks') = n
  BY <1>1, <1>2
<1> QED
  BY <1>2, <1>3

LEMMA SavesCloseLemma ==
  ASSUME TypeOK, TriesInv, SavesInv, UnpackClose
  PROVE  SavesInv'
<1> DEFINE n == Len(unpacks)
           l == Len(Here.lex)
<1>1. /\ CanExecute /\ unpacks # <<>> /\ unpacks' = Front(unpacks) /\ tries' = tries
      /\ ~AtBoundary
  BY DEF UnpackClose, CanExecute
<1>2. /\ n \in Nat \ {0} /\ DOMAIN unpacks = 1 .. n
      /\ Len(unpacks') = n - 1 /\ DOMAIN unpacks' = 1 .. n - 1
      /\ \A i \in 1 .. n - 1 : unpacks'[i] = unpacks[i]
  BY <1>1, SavesLemma, FrontLemma
<1>3. /\ Front(Here.lex) \in Seq({"try", "unpack"}) /\ acts' = Moved(Front(Here.lex))
      /\ Len(Front(Here.lex)) = l - 1 /\ l \in Nat \ {0}
      /\ \A i \in 1 .. l - 1 : Front(Here.lex)[i] = Here.lex[i]
      /\ Here.lex[l] = "unpack"
  BY CloseLemma
<1>4. KeepsPrefix(l - 1)
  BY <1>3, CutKeepsLemma
<1>5. /\ DOMAIN acts = 1 .. Depth + 1 /\ Here = acts[Depth + 1] /\ Depth \in Nat
      /\ DOMAIN acts' = DOMAIN acts
  BY <1>3, HereLemma, MovedLemma
<1>6. unpacks[n].depth = Depth /\ unpacks[n].level = l
  <2>1. Unpacking(acts, Depth + 1, l)
    BY <1>3, <1>5, LexLemma DEF Unpacking
  <2>2. PICK i \in DOMAIN unpacks : unpacks[i].depth + 1 = Depth + 1 /\ unpacks[i].level = l
    BY <1>3, <1>5, <2>1 DEF SavesInv, SavesThere
  <2>3. i = n
    <3> SUFFICES ASSUME i # n
                 PROVE  FALSE
      OBVIOUS
    <3>1. Before(unpacks[i], unpacks[n])
      BY <1>2 DEF SavesInv, SavesSorted
    <3>2. /\ unpacks[n].depth <= Depth /\ unpacks[n].depth \in Nat /\ unpacks[n].level \in Nat
          /\ unpacks[n].depth = Depth => unpacks[n].level <= l
      BY <1>2, SavesInsideLemma
    <3>3. unpacks[i].depth = Depth
      BY <1>5, <2>2, SavesLemma
    <3> QED
      BY <1>3, <1>5, <2>2, <3>1, <3>2, <3>3 DEF Before
  <2> QED
    BY <1>5, <2>2, <2>3, SavesLemma
<1>7. \A i \in DOMAIN unpacks :
        /\ i <= n - 1 <=> i # n
        /\ i # n => unpacks[i].depth < Depth \/ unpacks[i].level <= l - 1
  <2> SUFFICES ASSUME NEW i \in DOMAIN unpacks
               PROVE  /\ i <= n - 1 <=> i # n
                      /\ i # n => unpacks[i].depth < Depth \/ unpacks[i].level <= l - 1
    OBVIOUS
  <2>1. i <= n - 1 <=> i # n
    BY <1>2
  <2>2. i # n => Before(unpacks[i], unpacks[n])
    BY <1>2 DEF SavesInv, SavesSorted
  <2> QED
    BY <1>3, <1>6, <2>1, <2>2, SavesLemma DEF Before
<1> HIDE DEF n, l
<1>8. \A i \in DOMAIN unpacks : i <= n - 1 <=> Unpacking(acts', unpacks[i].depth + 1, unpacks[i].level)
  <2> SUFFICES ASSUME NEW i \in DOMAIN unpacks
               PROVE  i <= n - 1 <=> Unpacking(acts', unpacks[i].depth + 1, unpacks[i].level)
    OBVIOUS
  <2>1. unpacks[i].depth \in Nat /\ unpacks[i].level \in Nat
        /\ Unpacking(acts, unpacks[i].depth + 1, unpacks[i].level)
    BY SavesLemma DEF SavesInv, SavesPlaced
  <2>2. Unpacking(acts', unpacks[i].depth + 1, unpacks[i].level)
          <=> (unpacks[i].depth = Depth => unpacks[i].level <= l - 1)
    BY <1>4, <1>5, <2>1, PrefixUnpackingLemma
  <2>3. CASE i = n
    BY <1>3, <1>6, <1>7, <2>2, <2>3
  <2>4. CASE i # n
    BY <1>5, <1>7, <2>1, <2>2, <2>4
  <2> QED
    BY <2>3, <2>4
<1>9. \A a, level \in Nat : Unpacking(acts', a, level) => Unpacking(acts, a, level)
  BY <1>4, PrefixUnpackingLemma
<1>10. n \in DOMAIN unpacks
  BY <1>2
<1>11. \A t \in DOMAIN tries : tries[t].unpack <= n - 1
  <2> SUFFICES ASSUME NEW t \in DOMAIN tries
               PROVE  tries[t].unpack <= n - 1
    OBVIOUS
  <2>1. /\ tries[t].unpack <= n /\ tries[t].unpack \in Nat
        /\ tries[t].depth \in Nat /\ tries[t].level \in Nat \ {0}
        /\ tries[t].depth <= Depth
        /\ tries[t].depth = Depth => tries[t].level <= l
    BY <1>1, TriesLemma, OwnInsideLemma DEF SavesInv, TriesSaved, TriesInv, TriesPlaced, n, l
  <2>2. ~Before(unpacks[n], tries[t])
    BY <1>3, <1>5, <1>6, <2>1 DEF Before
  <2>3. ~ (n <= tries[t].unpack)
    BY <1>10, <2>2 DEF SavesInv, TriesSaved
  <2> QED
    BY <1>2, <2>1, <2>3
<1>12. \A a \in DOMAIN acts : acts[a].unpack <= n - 1
  <2> SUFFICES ASSUME NEW a \in DOMAIN acts
               PROVE  acts[a].unpack <= n - 1
    OBVIOUS
  <2>1. acts[a].unpack \in Nat /\ acts[a].unpack <= n
    BY LexesLemma DEF SavesInv, ActsSaved, n
  <2>2. ~ (unpacks[n].depth + 1 < a)
    BY <1>5, <1>6
  <2>3. ~ (n <= acts[a].unpack)
    BY <1>10, <2>2 DEF SavesInv, ActsSaved
  <2> QED
    BY <1>2, <2>1, <2>3
<1>13. Cuts(n - 1)
  <2>1. n - 1 \in 0 .. Len(unpacks)
    BY <1>2 DEF n
  <2>2. \A a \in DOMAIN acts' : a \in DOMAIN acts /\ acts'[a].unpack = acts[a].unpack
    BY <1>3, <1>5, HereLemma, MovedLemma
  <2> QED
    BY <1>1, <1>2, <1>8, <1>9, <1>11, <1>12, <2>1, <2>2 DEF Cuts
<1> QED
  BY <1>13, SavesCutLemma

\* A try frame goes, and what was saved inside of its region.
LEMMA SavesFrontLemma ==
  ASSUME TypeOK, TriesInv, SavesInv, tries # <<>>, tries' = Front(tries),
         unpacks' = Rewound(Last(tries).unpack), Last(tries).depth = Depth,
         NEW k, KeepsPrefix(k), Len(acts') = Len(acts),
         k = Len(Here.lex) \/ k = Last(tries).level - 1, k < Last(tries).level
  PROVE  SavesInv'
<1> DEFINE t == Last(tries)
           n == t.unpack
<1>1. /\ t = tries[Len(tries)] /\ Len(tries) \in DOMAIN tries
      /\ t.depth \in Nat /\ t.level \in Nat \ {0} /\ n \in Nat
      /\ \A s \in DOMAIN tries' : s \in DOMAIN tries /\ tries'[s] = tries[s] /\ s < Len(tries)
  BY TopTryLemma
<1>2. n <= Len(unpacks) /\ \A i \in DOMAIN unpacks : i <= n <=> Before(unpacks[i], t)
  BY <1>1 DEF SavesInv, TriesSaved
<1>3. n \in 0 .. Len(unpacks)
  BY <1>1, <1>2, SavesLemma
<1>4. /\ Len(unpacks') = n /\ DOMAIN unpacks' = 1 .. n
      /\ \A i \in 1 .. n : unpacks'[i] = unpacks[i]
  BY <1>3, SavesRewoundLemma
<1>5. t.depth = Depth /\ k < t.level /\ (k = Len(Here.lex) \/ k = t.level - 1)
  OBVIOUS
<1>6. \A s \in DOMAIN tries' : Before(tries[s], t)
  BY <1>1 DEF TriesInv, TriesSorted
<1> HIDE DEF t, n
<1>7. \A i \in DOMAIN unpacks : i <= n <=> Unpacking(acts', unpacks[i].depth + 1, unpacks[i].level)
  <2> SUFFICES ASSUME NEW i \in DOMAIN unpacks
               PROVE  i <= n <=> Unpacking(acts', unpacks[i].depth + 1, unpacks[i].level)
    OBVIOUS
  <2>1. /\ unpacks[i].depth \in Nat /\ unpacks[i].level \in Nat \ {0}
        /\ unpacks[i].depth <= Depth
        /\ unpacks[i].depth = Depth => unpacks[i].level <= Len(Here.lex)
        /\ Unpacking(acts, unpacks[i].depth + 1, unpacks[i].level)
    BY SavesInsideLemma DEF SavesInv, SavesPlaced
  <2>2. Unpacking(acts', unpacks[i].depth + 1, unpacks[i].level)
          <=> (unpacks[i].depth = Depth => unpacks[i].level <= k)
    <3>1. unpacks[i].depth + 1 = Depth + 1 <=> unpacks[i].depth = Depth
      BY <2>1, HereLemma
    <3> QED
      BY <2>1, <3>1, PrefixUnpackingLemma
  <2>3. Before(unpacks[i], t) <=> (unpacks[i].depth = Depth => unpacks[i].level <= k)
    BY <1>1, <1>5, <2>1, HereLemma, LexLemma DEF Before
  <2> QED
    BY <1>2, <2>2, <2>3
<1>8. \A a, level \in Nat : Unpacking(acts', a, level) => Unpacking(acts, a, level)
  BY PrefixUnpackingLemma
<1>9. \A s \in DOMAIN tries' : s \in DOMAIN tries /\ tries'[s] = tries[s] /\ tries[s].unpack <= n
  <2> SUFFICES ASSUME NEW s \in DOMAIN tries', ~ (tries[s].unpack <= n)
               PROVE  FALSE
    BY <1>1
  <2>1. s \in DOMAIN tries
    BY <1>1
  <2>2. tries[s].depth \in Nat /\ tries[s].level \in Nat /\ tries[s].unpack \in Nat
    BY <2>1, TriesLemma
  <2>3. tries[s].unpack <= Len(unpacks)
    BY <2>1 DEF SavesInv, TriesSaved
  <2>4. /\ tries[s].unpack \in DOMAIN unpacks /\ tries[s].unpack > n
        /\ tries[s].depth \in Nat /\ tries[s].level \in Nat
    BY <1>1, <2>2, <2>3, SavesLemma
  <2>5. Before(unpacks[tries[s].unpack], tries[s])
    BY <1>1, <2>4, TriesLemma DEF SavesInv, TriesSaved
  <2>6. Before(unpacks[tries[s].unpack], t)
    <3>1. unpacks[tries[s].unpack].depth \in Nat /\ unpacks[tries[s].unpack].level \in Nat
      BY <2>4, SavesLemma
    <3>2. Before(tries[s], t)
      BY <1>6
    <3> QED
      BY <1>1, <2>4, <2>5, <3>1, <3>2 DEF Before
  <2>7. tries[s].unpack <= n
    BY <1>2, <2>4, <2>6
  <2> QED
    BY <2>7
<1>10. \A a \in DOMAIN acts' : a \in DOMAIN acts /\ acts'[a].unpack = acts[a].unpack
                               /\ acts[a].unpack <= n
  <2> SUFFICES ASSUME NEW a \in DOMAIN acts'
               PROVE  a \in DOMAIN acts /\ acts'[a].unpack = acts[a].unpack /\ acts[a].unpack <= n
    OBVIOUS
  <2>1. a \in 1 .. Len(acts) /\ a \in DOMAIN acts
    BY HereLemma, LenProperties DEF KeepsPrefix
  <2>2. acts'[a].unpack = acts[a].unpack
    BY <2>1 DEF KeepsPrefix
  <2>3. acts[a].unpack <= n
    <3> SUFFICES ASSUME ~ (acts[a].unpack <= n)
                 PROVE  FALSE
      OBVIOUS
    <3>1. acts[a].unpack \in DOMAIN unpacks /\ acts[a].unpack \in Nat
      BY <1>1, <2>1, LexesLemma, SavesLemma DEF SavesInv, ActsSaved
    <3>2. unpacks[acts[a].unpack].depth + 1 < a
      BY <2>1, <3>1 DEF SavesInv, ActsSaved
    <3>3. Before(unpacks[acts[a].unpack], t)
      BY <1>1, <1>5, <2>1, <3>1, <3>2, HereLemma, SavesLemma DEF Before
    <3> QED
      BY <1>2, <3>1, <3>3
  <2> QED
    BY <2>1, <2>2, <2>3
<1>11. Cuts(n)
  BY <1>3, <1>4, <1>7, <1>8, <1>9, <1>10 DEF Cuts
<1> QED
  BY <1>11, SavesCutLemma


\* An activation ends with the values its assignments saved.
LEMMA SavesPoppedLemma ==
  ASSUME TypeOK, TriesInv, SavesInv, Pops
  PROVE  SavesInv'
<1> DEFINE n == Here.unpack
<1>1. /\ acts' \in Seq(Activations) /\ Len(acts') = Len(acts) - 1 /\ DOMAIN acts' = 1 .. Len(acts) - 1
      /\ \A a \in 1 .. Len(acts) - 1 : acts'[a] = acts[a]
  BY PoppedLemma DEF Pops
<1>2. /\ DOMAIN acts = 1 .. Depth + 1 /\ Len(acts) = Depth + 1 /\ Depth \in Nat
      /\ Here = acts[Depth + 1] /\ n \in Nat
  BY HereLemma, LexLemma
<1>3. DOMAIN acts' = 1 .. Depth /\ \A a \in 1 .. Depth : acts'[a] = acts[a]
  BY <1>1, <1>2
<1>4. n <= Len(unpacks) /\ \A i \in DOMAIN unpacks : i <= n <=> unpacks[i].depth + 1 < Depth + 1
  BY <1>2 DEF SavesInv, ActsSaved
<1>5. n \in 0 .. Len(unpacks)
  BY <1>2, <1>4, SavesLemma
<1>6. /\ Len(unpacks') = n /\ DOMAIN unpacks' = 1 .. n
      /\ \A i \in 1 .. n : unpacks'[i] = unpacks[i]
  BY <1>5, SavesRewoundLemma DEF Pops
<1> HIDE DEF n
<1>7. \A i \in DOMAIN unpacks : i <= n <=> Unpacking(acts', unpacks[i].depth + 1, unpacks[i].level)
  <2> SUFFICES ASSUME NEW i \in DOMAIN unpacks
               PROVE  i <= n <=> Unpacking(acts', unpacks[i].depth + 1, unpacks[i].level)
    OBVIOUS
  <2>1. unpacks[i].depth \in Nat /\ Unpacking(acts, unpacks[i].depth + 1, unpacks[i].level)
    BY SavesLemma DEF SavesInv, SavesPlaced
  <2>2. i <= n <=> unpacks[i].depth + 1 \in 1 .. Depth
    BY <1>2, <1>4, <2>1
  <2> QED
    BY <1>3, <2>1, <2>2 DEF Unpacking
<1>8. \A a, level \in Nat : Unpacking(acts', a, level) => Unpacking(acts, a, level)
  BY <1>2, <1>3 DEF Unpacking
<1>9. \A s \in DOMAIN tries' : s \in DOMAIN tries /\ tries'[s] = tries[s] /\ tries[s].unpack <= n
  <2> SUFFICES ASSUME NEW s \in DOMAIN tries'
               PROVE  s \in DOMAIN tries /\ tries'[s] = tries[s] /\ tries[s].unpack <= n
    OBVIOUS
  <2>1. s \in DOMAIN tries /\ tries'[s] = tries[s] /\ tries[s].depth < Depth
    BY DiscardedLemma, KeptBelowLemma, KeptLemma, TriesLemma DEF Pops
  <2>2. tries[s].unpack <= n
    <3> SUFFICES ASSUME ~ (tries[s].unpack <= n)
                 PROVE  FALSE
      OBVIOUS
    <3>1. tries[s].unpack \in DOMAIN unpacks /\ tries[s].unpack \in Nat
      BY <1>5, <2>1, TriesLemma, SavesLemma DEF SavesInv, TriesSaved
    <3>2. Before(unpacks[tries[s].unpack], tries[s])
      BY <2>1, <3>1 DEF SavesInv, TriesSaved
    <3>3. unpacks[tries[s].unpack].depth + 1 < Depth + 1
      BY <1>2, <2>1, <3>1, <3>2, TriesLemma, SavesLemma DEF Before
    <3> QED
      BY <1>4, <3>1, <3>3
  <2> QED
    BY <2>1, <2>2
<1>10. \A a \in DOMAIN acts' : a \in DOMAIN acts /\ acts'[a].unpack = acts[a].unpack
                               /\ acts[a].unpack <= n
  <2> SUFFICES ASSUME NEW a \in DOMAIN acts'
               PROVE  a \in DOMAIN acts /\ acts'[a].unpack = acts[a].unpack /\ acts[a].unpack <= n
    OBVIOUS
  <2>1. a \in 1 .. Depth /\ a \in DOMAIN acts /\ acts'[a].unpack = acts[a].unpack
    BY <1>2, <1>3
  <2>2. acts[a].unpack <= n
    <3> SUFFICES ASSUME ~ (acts[a].unpack <= n)
                 PROVE  FALSE
      OBVIOUS
    <3>1. acts[a].unpack \in DOMAIN unpacks /\ acts[a].unpack \in Nat
      BY <1>5, <2>1, LexesLemma, SavesLemma DEF SavesInv, ActsSaved
    <3>2. unpacks[acts[a].unpack].depth + 1 < a
      BY <2>1, <3>1 DEF SavesInv, ActsSaved
    <3>3. unpacks[acts[a].unpack].depth + 1 < Depth + 1
      BY <1>2, <2>1, <3>1, <3>2, SavesLemma
    <3> QED
      BY <1>4, <3>1, <3>3
  <2> QED
    BY <2>1, <2>2
<1>11. Cuts(n)
  BY <1>5, <1>6, <1>7, <1>8, <1>9, <1>10 DEF Cuts
<1> QED
  BY <1>11, SavesCutLemma

LEMMA SavesStepLemma ==
  ASSUME TypeOK, ~Escapes, Live => TriesInv /\ SavesInv, StackStep
  PROVE  (Live => SavesInv)'
<1>1. ASSUME NEW module \in Modules \cup {NoModule}, Pushes(module), Live
      PROVE  SavesInv'
  BY <1>1, PushesKeepsLemma, SavesKeptLemma DEF Pushes
<1>2. CASE Leaves /\ Live
  BY <1>2, LeavesKeepsLemma, SavesKeptLemma DEF Leaves
<1>3. CASE Recodes /\ Live
  BY <1>3, SavesRecodedLemma
<1>4. CASE Ends
  BY <1>4 DEF Ends, Live
<1>5. CASE TryOpen /\ Live
  BY <1>5, SavesTryOpenLemma
<1>6. CASE UnpackOpen /\ Live
  BY <1>6, SavesUnpackOpenLemma
<1>7. CASE UnpackClose /\ Live
  BY <1>7, SavesCloseLemma
<1>8. CASE FinishTry /\ Live
  <2>1. /\ tries # <<>> /\ tries' = Front(tries) /\ acts' = acts
        /\ unpacks' = Rewound(Last(tries).unpack)
        /\ Last(tries).depth = Depth /\ Len(Here.lex) < Last(tries).level
    BY <1>8 DEF FinishTry, AtBoundary, TryHere
  <2>2. KeepsPrefix(Len(Here.lex))
    BY <2>1, SameKeepsLemma
  <2> QED
    BY <1>8, <2>1, <2>2, SavesFrontLemma
<1>9. CASE CatchTry /\ Live
  <2> DEFINE lex == Outside(Last(tries).level)
  <2>1. /\ tries # <<>> /\ tries' = Front(tries) /\ Last(tries).depth = Depth
        /\ unpacks' = Rewound(Last(tries).unpack)
    BY <1>9 DEF CatchTry, Catches, TryHere
  <2>2. Last(tries).level \in Nat \ {0} /\ Len(Here.lex) \in Nat
    BY <2>1, TopTryLemma, LexLemma
  <2>3. /\ lex \in Seq({"try", "unpack"}) /\ acts' = Moved(lex)
        /\ Len(lex) = IF Last(tries).level > Len(Here.lex) THEN Len(Here.lex)
                                                          ELSE Last(tries).level - 1
        /\ \A i \in 1 .. Len(lex) : lex[i] = Here.lex[i]
    BY <1>9, OutsideLemma
  <2> HIDE DEF lex
  <2>4. /\ Len(lex) \in 0 .. Len(Here.lex) /\ Len(lex) < Last(tries).level
        /\ Len(lex) = Len(Here.lex) \/ Len(lex) = Last(tries).level - 1
    BY <2>2, <2>3
  <2>5. KeepsPrefix(Len(lex)) /\ Len(acts') = Len(acts)
    BY <2>3, <2>4, CutKeepsLemma, MovedLemma
  <2> QED
    BY <1>9, <2>1, <2>4, <2>5, SavesFrontLemma
<1>10. CASE Pops /\ Live
  BY <1>10, SavesPoppedLemma
<1>11. CASE Resets
  <2>1. PICK code \in Codes : acts' = Root(code) /\ tries' = <<>> /\ unpacks' = <<>>
    BY <1>11 DEF Resets
  <2>2. DOMAIN acts' = {1} /\ acts'[1].lex = <<>> /\ acts'[1].unpack = 0
    BY <2>1, RootLemma
  <2>3. DOMAIN tries' = {} /\ DOMAIN unpacks' = {} /\ Len(unpacks') = 0 /\ DOMAIN acts'[1].lex = {}
    BY <2>1, <2>2, EmptySeq, LenProperties
  <2> QED
    BY <2>2, <2>3 DEF SavesInv, SavesSorted, SavesPlaced, SavesThere, TriesSaved, ActsSaved, Unpacking
<1>12. CASE Stays
  <2>1. Live' => Live /\ acts' = acts /\ tries' = tries /\ unpacks' = unpacks
    BY <1>12 DEF Stays
  <2> QED
    BY <2>1 DEF SavesInv, SavesSorted, SavesPlaced, SavesThere, TriesSaved, ActsSaved, Unpacking
<1>13. ASSUME NEW m \in Modules, Imports(m)
       PROVE  Pushes(m) /\ Live
  BY <1>13 DEF Imports, CanExecute, Free, Loop, Live
<1>14. CaptureError => Live
  BY DEF CaptureError, Unwinding, Live
<1> QED
  BY <1>1, <1>2, <1>3, <1>4, <1>5, <1>6, <1>7, <1>8, <1>9, <1>10, <1>11, <1>12, <1>13, <1>14
     DEF StackStep, Regions


-----------------------------------------------------------------------------
(* Resumable builtins, and those written in Rust.                          *)

LEMMA FramesLemma ==
  ASSUME TypeOK
  PROVE  /\ builtins \in Seq(BuiltinFrames) /\ Len(builtins) \in Nat
         /\ DOMAIN builtins = 1 .. Len(builtins)
         /\ \A i \in DOMAIN builtins : builtins[i] \in BuiltinFrames /\ builtins[i].owner \in Nat
<1>1. builtins \in Seq(BuiltinFrames)
  BY DEF TypeOK
<1>2. \A i \in DOMAIN builtins : builtins[i] \in BuiltinFrames
  BY <1>1, LenProperties, ElementOfSeq
<1> QED
  BY <1>1, <1>2, LenProperties, VmCallsAssumption DEF BuiltinFrames

LEMMA NativesLemma ==
  ASSUME TypeOK
  PROVE  /\ natives \in Seq(Natives) /\ Len(natives) \in Nat
         /\ DOMAIN natives = 1 .. Len(natives)
         /\ \A k \in DOMAIN natives : natives[k] \in Natives /\ natives[k].stop \in Nat
<1>1. natives \in Seq(Natives)
  BY DEF TypeOK
<1>2. \A k \in DOMAIN natives : natives[k] \in Natives
  BY <1>1, LenProperties, ElementOfSeq
<1> QED
  BY <1>1, <1>2, LenProperties, VmCallsAssumption DEF Natives

\* The innermost resumable builtin.
LEMMA TopFrameLemma ==
  ASSUME TypeOK, builtins # <<>>
  PROVE  /\ Len(builtins) \in Nat \ {0} /\ Len(builtins) \in DOMAIN builtins
         /\ Last(builtins) = builtins[Len(builtins)]
         /\ Last(builtins) \in BuiltinFrames /\ Last(builtins).owner \in Nat
         /\ Front(builtins) \in Seq(BuiltinFrames)
         /\ DOMAIN Front(builtins) = 1 .. Len(builtins) - 1
         /\ \A i \in DOMAIN Front(builtins) :
              i \in DOMAIN builtins /\ i < Len(builtins) /\ Front(builtins)[i] = builtins[i]
         /\ \A i \in DOMAIN builtins : i \in DOMAIN Front(builtins) \/ i = Len(builtins)
<1>1. builtins \in Seq(BuiltinFrames)
  BY DEF TypeOK
<1>2. /\ Front(builtins) \in Seq(BuiltinFrames) /\ Len(builtins) \in Nat \ {0}
      /\ DOMAIN Front(builtins) = 1 .. Len(builtins) - 1
      /\ \A i \in 1 .. Len(builtins) - 1 : Front(builtins)[i] = builtins[i]
      /\ Last(builtins) \in BuiltinFrames
  BY <1>1, FrontLemma
<1>3. DOMAIN builtins = 1 .. Len(builtins) /\ \A i \in DOMAIN builtins : builtins[i].owner \in Nat
  BY FramesLemma
<1>4. Len(builtins) \in DOMAIN builtins /\ Last(builtins) = builtins[Len(builtins)]
  BY <1>2, <1>3 DEF Last
<1> QED
  BY <1>2, <1>3, <1>4

\* What it waits for changes.
LEMMA WaitsLemma ==
  ASSUME TypeOK, builtins # <<>>, NEW wait \in {"none", "call", "input"}, Waits(wait)
  PROVE  /\ builtins' \in Seq(BuiltinFrames) /\ DOMAIN builtins' = DOMAIN builtins
         /\ \A i \in DOMAIN builtins :
              /\ builtins'[i].owner = builtins[i].owner
              /\ builtins'[i].captures = builtins[i].captures
              /\ builtins'[i].wait = IF i = Len(builtins) THEN wait ELSE builtins[i].wait
<1> DEFINE n == Len(builtins)
           frame == [builtins[n] EXCEPT !.wait = wait]
<1>1. n \in Nat \ {0} /\ n \in DOMAIN builtins /\ DOMAIN builtins = 1 .. n
      /\ builtins \in Seq(BuiltinFrames) /\ builtins[n] \in BuiltinFrames
  BY TopFrameLemma, FramesLemma
<1>2. /\ frame \in BuiltinFrames /\ frame.owner = builtins[n].owner
      /\ frame.captures = builtins[n].captures /\ frame.wait = wait
  BY <1>1 DEF BuiltinFrames
<1>3. builtins' = [builtins EXCEPT ![Len(builtins)] = frame]
  BY <1>1 DEF Waits
<1> HIDE DEF frame, n
<1>4. /\ builtins' \in Seq(BuiltinFrames)
      /\ DOMAIN builtins' = 1 .. Len(builtins)
      /\ \A i \in 1 .. Len(builtins) - 1 : builtins'[i] = builtins[i]
      /\ builtins'[Len(builtins)] = frame
  <2>1. builtins \in Seq(BuiltinFrames) /\ builtins # <<>> /\ frame \in BuiltinFrames
    BY <1>1, <1>2
  <2> QED
    BY <1>3, <2>1, TopLemma
<1>5. \A i \in DOMAIN builtins : i \in 1 .. Len(builtins) - 1 \/ i = Len(builtins)
  BY <1>1 DEF n
<1>6. \A i \in 1 .. Len(builtins) - 1 : i # Len(builtins)
  <2>1. n \in Nat
    BY <1>1
  <2>2. \A i \in 1 .. n - 1 : i # n
    BY <2>1
  <2> QED
    BY <2>2 DEF n
<1> QED
  BY <1>1, <1>2, <1>4, <1>5, <1>6 DEF n

NativesInOrder ==
  /\ \A j, k \in DOMAIN natives : j < k => natives[j].stop < natives[k].stop
  /\ \A k \in DOMAIN natives : natives[k].stop <= Depth

\* While an interpreter runs, all the builtins written in Rust are below.
LEMMA InterpretingLemma ==
  ASSUME TypeOK, NativesInOrder, Interpreting
  PROVE  \A k \in DOMAIN natives : natives[k].stop < Depth
<1> SUFFICES ASSUME NEW k \in DOMAIN natives
             PROVE  natives[k].stop < Depth
  OBVIOUS
<1> DEFINE n == Len(natives)
<1>1. n \in DOMAIN natives /\ k <= n /\ natives # <<>> /\ Last(natives) = natives[n]
  BY NativesLemma, EmptySeq DEF Last
<1>2. natives[n].stop < Depth
  BY <1>1 DEF Interpreting
<1>3. k = n \/ natives[k].stop < natives[n].stop
  BY <1>1, NativesLemma DEF NativesInOrder
<1> QED
  BY <1>1, <1>2, <1>3, NativesLemma, HereLemma

\* Otherwise the innermost of them runs, in the activation that called it.
LEMMA InNativeLemma ==
  ASSUME TypeOK, NativesInOrder, ~Interpreting
  PROVE  /\ natives # <<>> /\ Len(natives) \in Nat \ {0} /\ Len(natives) \in DOMAIN natives
         /\ Last(natives) = natives[Len(natives)] /\ Last(natives) \in Natives
         /\ Last(natives).stop = Depth
         /\ Front(natives) \in Seq(Natives) /\ Len(Front(natives)) = Len(natives) - 1
         /\ DOMAIN Front(natives) = 1 .. Len(natives) - 1
         /\ \A k \in DOMAIN Front(natives) :
              /\ k \in DOMAIN natives /\ Front(natives)[k] = natives[k]
              /\ natives[k].stop < Depth
         /\ \A k \in DOMAIN natives : k \in DOMAIN Front(natives) \/ k = Len(natives)
<1> DEFINE n == Len(natives)
<1>1. natives # <<>> /\ ~ (Last(natives).stop < Depth) /\ natives \in Seq(Natives)
  BY DEF Interpreting, TypeOK
<1>2. /\ n \in Nat \ {0} /\ n \in DOMAIN natives /\ DOMAIN natives = 1 .. n
      /\ Last(natives) = natives[n] /\ natives[n] \in Natives
      /\ Front(natives) \in Seq(Natives) /\ Len(Front(natives)) = n - 1
      /\ DOMAIN Front(natives) = 1 .. n - 1
      /\ \A k \in 1 .. n - 1 : Front(natives)[k] = natives[k]
  <2>1. /\ Front(natives) \in Seq(Natives) /\ Len(Front(natives)) = n - 1
        /\ DOMAIN Front(natives) = 1 .. n - 1
        /\ \A k \in 1 .. n - 1 : Front(natives)[k] = natives[k]
        /\ n \in Nat \ {0}
    BY <1>1, FrontLemma
  <2>2. DOMAIN natives = 1 .. n /\ \A k \in DOMAIN natives : natives[k] \in Natives
    BY NativesLemma
  <2>3. Last(natives) = natives[n] /\ n \in DOMAIN natives
    BY <2>1, <2>2 DEF Last
  <2> QED
    BY <2>1, <2>2, <2>3
<1>3. natives[n].stop = Depth
  BY <1>1, <1>2, NativesLemma, HereLemma DEF NativesInOrder
<1>4. \A k \in 1 .. n - 1 : k \in DOMAIN natives /\ natives[k].stop < Depth
  BY <1>2, <1>3 DEF NativesInOrder
<1> QED
  BY <1>1, <1>2, <1>3, <1>4

FramesSorted == \A i, j \in DOMAIN builtins : i < j => builtins[i].owner < builtins[j].owner
FramesWait ==
  \A i \in DOMAIN builtins :
    /\ builtins[i].owner <= Depth
    /\ builtins[i].wait = "call"
         <=> builtins[i].owner < Depth /\ \A k \in DOMAIN natives : natives[k].stop # builtins[i].owner
\* A builtin written in Rust was called by the frame of its activation, if any.
FramesNative ==
  \A k \in DOMAIN natives :
    natives[k].frame <=> \E i \in DOMAIN builtins : builtins[i].owner = natives[k].stop
\* The running activation has no frame.
Idle == \A i \in DOMAIN builtins : builtins[i].owner # Depth
\* An error ends the frame of the activation it is raised in.
FramesClear == (error # "none" \/ hostError) /\ Interpreting => Idle
FramesReading ==
  input => \A i \in DOMAIN builtins : builtins[i].owner = Depth => builtins[i].wait = "input"
FramesInv == FramesSorted /\ FramesWait /\ FramesNative /\ FramesClear /\ FramesReading

\* One kind of thing is pending at a time.
Pending ==
  /\ input \/ hostError => error = "none" /\ Interpreting
  /\ ~(input /\ hostError)
  /\ status = "awaiting" => input /\ natives = <<>>

LEMMA FramesMatchLemma ==
  (Live /\ ~halted => FramesInv) => FramesMatch
<1> SUFFICES ASSUME FramesInv
             PROVE  FramesMatch
  BY DEF FramesMatch
<1>1. ASSUME NEW b \in Range(builtins)
      PROVE  /\ b.owner <= Depth
             /\ b.wait = "call" <=> b.owner < Depth /\ \A n \in Range(natives) : n.stop # b.owner
  <2>1. PICK i \in DOMAIN builtins : b = builtins[i]
    BY <1>1 DEF Range
  <2>2. (\A n \in Range(natives) : n.stop # b.owner)
          <=> \A k \in DOMAIN natives : natives[k].stop # builtins[i].owner
    BY <2>1 DEF Range
  <2> QED
    BY <2>1, <2>2 DEF FramesInv, FramesWait
<1>2. \A i, j \in DOMAIN builtins : i < j => builtins[i].owner < builtins[j].owner
  BY DEF FramesInv, FramesSorted
<1> QED
  BY <1>1, <1>2 DEF FramesMatch

\* The frame of the running activation is the innermost.
LEMMA FrameHereLemma ==
  ASSUME TypeOK, FramesSorted, FramesWait, NEW i \in DOMAIN builtins, builtins[i].owner = Depth
  PROVE  FrameHere /\ i = Len(builtins) /\ Last(builtins).wait # "call"
<1> DEFINE n == Len(builtins)
<1>1. builtins # <<>> /\ i <= n /\ n \in DOMAIN builtins /\ Last(builtins) = builtins[n]
  BY FramesLemma, EmptySeq DEF Last
<1>2. i = n
  <2>1. i < n => builtins[i].owner < builtins[n].owner
    BY <1>1 DEF FramesSorted
  <2>2. builtins[n].owner <= Depth
    BY <1>1 DEF FramesWait
  <2> QED
    BY <1>1, <2>1, <2>2, FramesLemma, HereLemma
<1>3. builtins[n].wait # "call"
  BY <1>1, <1>2, HereLemma DEF FramesWait
<1> QED
  BY <1>1, <1>2, <1>3 DEF FrameHere

LEMMA IdleLemma ==
  ASSUME TypeOK, FramesInv, ~Runnable
  PROVE  Idle
  BY FrameHereLemma DEF FramesInv, Idle, Runnable

\* Below, the innermost frame waits for the running activation if any does.
LEMMA CalledBackLemma ==
  ASSUME TypeOK, FramesInv, Idle, NEW i \in DOMAIN builtins, builtins[i].owner + 1 = Depth
  PROVE  /\ builtins # <<>> /\ i = Len(builtins)
         /\ CalledBack <=> \A k \in DOMAIN natives : natives[k].stop # builtins[i].owner
<1> DEFINE n == Len(builtins)
<1>1. builtins # <<>> /\ i <= n /\ n \in DOMAIN builtins /\ Last(builtins) = builtins[n]
  BY FramesLemma, EmptySeq DEF Last
<1>2. i = n
  <2>1. i < n => builtins[i].owner < builtins[n].owner
    BY <1>1 DEF FramesInv, FramesSorted
  <2>2. builtins[n].owner <= Depth /\ builtins[n].owner # Depth
    BY <1>1 DEF FramesInv, FramesWait, Idle
  <2> QED
    BY <1>1, <2>1, <2>2, FramesLemma, HereLemma
<1>3. builtins[n].wait = "call" <=> \A k \in DOMAIN natives : natives[k].stop # builtins[n].owner
  BY <1>1, <1>2, FramesLemma, HereLemma DEF FramesInv, FramesWait
<1> QED
  BY <1>1, <1>2, <1>3 DEF CalledBack


\* Nothing happens to the frames, the depth or the builtins written in Rust.
LEMMA FramesKeptLemma ==
  ASSUME FramesInv, Depth' = Depth, UNCHANGED <<builtins, natives>>,
         (error' # "none" \/ hostError') /\ Interpreting => Idle,
         input' => \A i \in DOMAIN builtins : builtins[i].owner = Depth => builtins[i].wait = "input"
  PROVE  FramesInv'
<1>1. Interpreting' <=> Interpreting
  BY DEF Interpreting
<1>2. FramesSorted' /\ FramesWait' /\ FramesNative'
  BY DEF FramesInv, FramesSorted, FramesWait, FramesNative
<1>3. FramesClear' /\ FramesReading'
  BY <1>1 DEF FramesClear, FramesReading, Idle
<1> QED
  BY <1>2, <1>3 DEF FramesInv

\* A call from the interpreter's loop, or from a builtin written in Rust.
LEMMA FramesCalledLemma ==
  ASSUME TypeOK, NativesInOrder, FramesInv, Depth' = Depth + 1, UNCHANGED <<builtins, natives>>,
         error' = "none", ~hostError', ~input', Idle \/ ~Interpreting
  PROVE  FramesInv'
<1>1. FramesSorted' /\ FramesNative'
  BY DEF FramesInv, FramesSorted, FramesNative
<1>2. FramesWait'
  <2> SUFFICES ASSUME NEW i \in DOMAIN builtins
               PROVE  /\ builtins[i].owner <= Depth + 1
                      /\ builtins[i].wait = "call"
                           <=> /\ builtins[i].owner < Depth + 1
                               /\ \A k \in DOMAIN natives : natives[k].stop # builtins[i].owner
    BY DEF FramesWait
  <2>1. /\ builtins[i].owner <= Depth
        /\ builtins[i].wait = "call"
             <=> builtins[i].owner < Depth /\ \A k \in DOMAIN natives : natives[k].stop # builtins[i].owner
    BY DEF FramesInv, FramesWait
  <2>2. builtins[i].owner \in Nat /\ Depth \in Nat
    BY FramesLemma, HereLemma
  <2>3. CASE builtins[i].owner = Depth
    <3>1. \E k \in DOMAIN natives : natives[k].stop = Depth
      BY <2>3, InNativeLemma DEF Idle
    <3> QED
      BY <2>1, <2>2, <2>3, <3>1
  <2>4. CASE builtins[i].owner # Depth
    BY <2>1, <2>2, <2>4
  <2> QED
    BY <2>3, <2>4
<1>3. FramesClear' /\ FramesReading'
  BY DEF FramesClear, FramesReading
<1> QED
  BY <1>1, <1>2, <1>3 DEF FramesInv

\* The frame of the running activation waits for what it calls, the line it
\* reads, or nothing.
LEMMA FramesWaitsLemma ==
  ASSUME TypeOK, NativesInOrder, FramesInv, FrameHere, Interpreting, UNCHANGED natives,
         error' = "none", ~hostError',
         NEW wait \in {"none", "call", "input"}, Waits(wait),
         \/ wait = "call" /\ Depth' = Depth + 1 /\ ~input'
         \/ wait = "none" /\ Depth' = Depth /\ input' = input /\ ~input
         \/ wait = "input" /\ Depth' = Depth
  PROVE  FramesInv'
<1> DEFINE n == Len(builtins)
<1>1. /\ DOMAIN builtins' = DOMAIN builtins
      /\ \A i \in DOMAIN builtins :
           /\ builtins'[i].owner = builtins[i].owner
           /\ builtins'[i].wait = IF i = n THEN wait ELSE builtins[i].wait
  BY WaitsLemma DEF FrameHere
<1>2. n \in DOMAIN builtins /\ builtins[n].owner = Depth
  BY TopFrameLemma DEF FrameHere
<1>3. \A k \in DOMAIN natives : natives[k].stop < Depth
  BY InterpretingLemma
<1>4. /\ \A i \in DOMAIN builtins : builtins[i].owner \in Nat
      /\ \A k \in DOMAIN natives : natives[k].stop \in Nat
      /\ Depth \in Nat
  BY FramesLemma, NativesLemma, HereLemma
<1>5. \A i \in DOMAIN builtins : builtins[i].owner = Depth => i = n
  BY FrameHereLemma DEF FramesInv
<1> HIDE DEF n
<1>6. FramesSorted'
  BY <1>1 DEF FramesInv, FramesSorted
<1>7. FramesNative'
  BY <1>1 DEF FramesInv, FramesNative
<1>8. FramesWait'
  <2> SUFFICES ASSUME NEW i \in DOMAIN builtins
               PROVE  /\ builtins[i].owner <= Depth'
                      /\ builtins'[i].wait = "call"
                           <=> /\ builtins[i].owner < Depth'
                               /\ \A k \in DOMAIN natives : natives[k].stop # builtins[i].owner
    BY <1>1 DEF FramesWait
  <2>1. /\ builtins[i].owner <= Depth
        /\ builtins[i].wait = "call"
             <=> builtins[i].owner < Depth /\ \A k \in DOMAIN natives : natives[k].stop # builtins[i].owner
    BY DEF FramesInv, FramesWait
  <2>2. CASE i = n
    <3>1. builtins[i].owner = Depth /\ builtins'[i].wait = wait
      BY <1>1, <1>2, <2>2
    <3>2. \A k \in DOMAIN natives : natives[k].stop # builtins[i].owner
      BY <1>3, <1>4, <3>1
    <3> QED
      BY <1>4, <3>1, <3>2
  <2>3. CASE i # n
    <3>1. builtins[i].owner # Depth /\ builtins'[i].wait = builtins[i].wait
      BY <1>1, <1>5, <2>3
    <3> QED
      BY <1>4, <2>1, <3>1
  <2> QED
    BY <2>2, <2>3
<1>9. FramesClear'
  BY DEF FramesClear
<1>10. FramesReading'
  <2> SUFFICES ASSUME input', NEW i \in DOMAIN builtins, builtins[i].owner = Depth'
               PROVE  builtins'[i].wait = "input"
    BY <1>1 DEF FramesReading
  <2>1. wait = "input" /\ builtins[i].owner = Depth
    OBVIOUS
  <2> QED
    BY <1>1, <1>5, <2>1
<1> QED
  BY <1>6, <1>7, <1>8, <1>9, <1>10 DEF FramesInv

\* The frame of the running activation ends.
LEMMA FramesEndedLemma ==
  ASSUME TypeOK, NativesInOrder, FramesInv, FrameHere, Interpreting, UNCHANGED natives,
         builtins' = Front(builtins), Depth' = Depth
  PROVE  FramesInv'
<1> DEFINE n == Len(builtins)
<1>1. /\ n \in DOMAIN builtins /\ builtins[n].owner = Depth
      /\ \A i \in DOMAIN builtins' : i \in DOMAIN builtins /\ i < n /\ builtins'[i] = builtins[i]
      /\ \A i \in DOMAIN builtins : i \in DOMAIN builtins' \/ i = n
      /\ n \in Nat
  BY TopFrameLemma DEF FrameHere
<1>2. \A k \in DOMAIN natives : natives[k].stop < Depth /\ natives[k].stop \in Nat
  BY InterpretingLemma, NativesLemma
<1>3. \A i \in DOMAIN builtins : builtins[i].owner = Depth => i = n
  BY FrameHereLemma DEF FramesInv
<1>4. Depth \in Nat /\ \A i \in DOMAIN builtins : builtins[i].owner \in Nat
  BY FramesLemma, HereLemma
<1> HIDE DEF n
<1>5. \A i \in DOMAIN builtins' : i # n
  <2> SUFFICES ASSUME NEW i \in DOMAIN builtins', i = n
               PROVE  FALSE
    OBVIOUS
  <2>1. n < n
    BY <1>1
  <2> QED
    BY <1>1, <2>1
<1>6. Idle'
  BY <1>1, <1>3, <1>5 DEF Idle
<1>7. FramesSorted'
  BY <1>1 DEF FramesInv, FramesSorted
<1>8. FramesWait'
  BY <1>1 DEF FramesInv, FramesWait
<1>9. FramesNative'
  <2> SUFFICES ASSUME NEW k \in DOMAIN natives
               PROVE  natives[k].frame <=> \E i \in DOMAIN builtins' : builtins'[i].owner = natives[k].stop
    BY DEF FramesNative
  <2>1. natives[k].frame <=> \E i \in DOMAIN builtins : builtins[i].owner = natives[k].stop
    BY DEF FramesInv, FramesNative
  <2>2. builtins[n].owner # natives[k].stop
    BY <1>1, <1>2, <1>4
  <2> QED
    BY <1>1, <2>1, <2>2
<1>10. FramesClear'
  BY <1>6 DEF FramesClear
<1>11. FramesReading'
  BY <1>6 DEF FramesReading, Idle
<1> QED
  BY <1>7, <1>8, <1>9, <1>10, <1>11 DEF FramesInv

\* A frame is started for a builtin.
LEMMA FramesStartedLemma ==
  ASSUME TypeOK, NativesInOrder, FramesInv, Idle, Interpreting, UNCHANGED natives, Depth' = Depth,
         NEW frame \in BuiltinFrames, frame.owner = Depth, frame.wait = "none",
         builtins' = Append(builtins, frame),
         error' = "none", ~hostError', ~input'
  PROVE  FramesInv'
<1> DEFINE n == Len(builtins) + 1
<1>1. /\ DOMAIN builtins = 1 .. n - 1 /\ DOMAIN builtins' = 1 .. n /\ n \in Nat \ {0}
      /\ \A i \in 1 .. n - 1 : builtins'[i] = builtins[i]
      /\ builtins'[n] = frame
  BY FramesLemma, AppendLemma
<1>2. /\ \A i \in DOMAIN builtins' : i \in DOMAIN builtins \/ i = n
      /\ \A i \in DOMAIN builtins : i \in DOMAIN builtins' /\ i < n /\ builtins'[i] = builtins[i]
      /\ n \in DOMAIN builtins' /\ builtins'[n].owner = Depth /\ builtins'[n].wait = "none"
  BY <1>1
<1>3. Depth \in Nat /\ \A i \in DOMAIN builtins : builtins[i].owner \in Nat /\ builtins[i].owner < Depth
  BY FramesLemma, HereLemma DEF Idle, FramesInv, FramesWait
<1>4. \A k \in DOMAIN natives : natives[k].stop < Depth /\ natives[k].stop \in Nat
  BY InterpretingLemma, NativesLemma
<1>5. FramesSorted'
  <2> SUFFICES ASSUME NEW i \in DOMAIN builtins', NEW j \in DOMAIN builtins', i < j
               PROVE  builtins'[i].owner < builtins'[j].owner
    BY DEF FramesSorted
  <2>1. i \in DOMAIN builtins
    BY <1>1
  <2> HIDE DEF n
  <2> QED
    BY <1>2, <1>3, <2>1 DEF FramesInv, FramesSorted
<1> HIDE DEF n
<1>6. FramesWait'
  <2> SUFFICES ASSUME NEW i \in DOMAIN builtins'
               PROVE  /\ builtins'[i].owner <= Depth
                      /\ builtins'[i].wait = "call"
                           <=> /\ builtins'[i].owner < Depth
                               /\ \A k \in DOMAIN natives : natives[k].stop # builtins'[i].owner
    BY DEF FramesWait
  <2>1. CASE i = n
    BY <1>2, <1>3, <2>1
  <2>2. CASE i \in DOMAIN builtins
    BY <1>2, <2>2 DEF FramesInv, FramesWait
  <2> QED
    BY <1>2, <2>1, <2>2
<1>7. FramesNative'
  <2> SUFFICES ASSUME NEW k \in DOMAIN natives
               PROVE  natives[k].frame <=> \E i \in DOMAIN builtins' : builtins'[i].owner = natives[k].stop
    BY DEF FramesNative
  <2>1. natives[k].frame <=> \E i \in DOMAIN builtins : builtins[i].owner = natives[k].stop
    BY DEF FramesInv, FramesNative
  <2>2. builtins'[n].owner # natives[k].stop
    BY <1>2, <1>3, <1>4
  <2> QED
    BY <1>2, <2>1, <2>2
<1>8. FramesClear' /\ FramesReading'
  BY DEF FramesClear, FramesReading
<1> QED
  BY <1>5, <1>6, <1>7, <1>8 DEF FramesInv


\* A builtin written in Rust starts, for the frame of its activation if any.
LEMMA FramesNativeLemma ==
  ASSUME TypeOK, NativesInOrder, FramesInv, Interpreting, UNCHANGED builtins, Depth' = Depth,
         NEW native \in Natives, native.stop = Depth, native.frame <=> ~Idle,
         natives' = Append(natives, native),
         error' = "none", ~hostError', ~input'
  PROVE  FramesInv' /\ NativesInOrder'
<1> DEFINE n == Len(natives) + 1
<1>1. /\ DOMAIN natives = 1 .. n - 1 /\ DOMAIN natives' = 1 .. n /\ n \in Nat \ {0}
      /\ \A k \in 1 .. n - 1 : natives'[k] = natives[k]
      /\ natives'[n] = native
  BY NativesLemma, AppendLemma
<1>2. /\ \A k \in DOMAIN natives' : k \in DOMAIN natives \/ k = n
      /\ \A k \in DOMAIN natives : k \in DOMAIN natives' /\ k < n /\ natives'[k] = natives[k]
      /\ n \in DOMAIN natives' /\ natives'[n].stop = Depth /\ (natives'[n].frame <=> ~Idle)
  BY <1>1
<1>3. Depth \in Nat /\ \A i \in DOMAIN builtins : builtins[i].owner \in Nat
  BY FramesLemma, HereLemma
<1>4. \A k \in DOMAIN natives : natives[k].stop < Depth /\ natives[k].stop \in Nat
  BY InterpretingLemma, NativesLemma
<1>5. NativesInOrder'
  <2>1. ASSUME NEW j \in DOMAIN natives', NEW k \in DOMAIN natives', j < k
        PROVE  natives'[j].stop < natives'[k].stop
    <3>1. j \in DOMAIN natives
      BY <1>1, <2>1
    <3> HIDE DEF n
    <3> QED
      BY <1>2, <1>4, <2>1, <3>1 DEF NativesInOrder
  <2> HIDE DEF n
  <2>2. \A k \in DOMAIN natives' : natives'[k].stop <= Depth
    BY <1>2, <1>3, <1>4
  <2> QED
    BY <2>1, <2>2 DEF NativesInOrder
<1> HIDE DEF n
<1>6. FramesSorted'
  BY DEF FramesInv, FramesSorted
<1>7. FramesWait'
  <2> SUFFICES ASSUME NEW i \in DOMAIN builtins
               PROVE  /\ builtins[i].owner <= Depth
                      /\ builtins[i].wait = "call"
                           <=> /\ builtins[i].owner < Depth
                               /\ \A k \in DOMAIN natives' : natives'[k].stop # builtins[i].owner
    BY DEF FramesWait
  <2>1. /\ builtins[i].owner <= Depth
        /\ builtins[i].wait = "call"
             <=> builtins[i].owner < Depth /\ \A k \in DOMAIN natives : natives[k].stop # builtins[i].owner
    BY DEF FramesInv, FramesWait
  <2>2. builtins[i].owner < Depth =>
          ((\A k \in DOMAIN natives' : natives'[k].stop # builtins[i].owner)
             <=> \A k \in DOMAIN natives : natives[k].stop # builtins[i].owner)
    BY <1>2, <1>3
  <2> QED
    BY <2>1, <2>2
<1>8. FramesNative'
  <2> SUFFICES ASSUME NEW k \in DOMAIN natives'
               PROVE  natives'[k].frame <=> \E i \in DOMAIN builtins : builtins[i].owner = natives'[k].stop
    BY DEF FramesNative
  <2>1. CASE k = n
    BY <1>2, <2>1 DEF Idle
  <2>2. CASE k \in DOMAIN natives
    BY <1>2, <2>2 DEF FramesInv, FramesNative
  <2> QED
    BY <1>2, <2>1, <2>2
<1>9. FramesClear' /\ FramesReading'
  BY DEF FramesClear, FramesReading
<1> QED
  BY <1>5, <1>6, <1>7, <1>8, <1>9 DEF FramesInv

\* A builtin written in Rust ends, and with an error so does its frame.
LEMMA FramesNativeEndsLemma ==
  ASSUME TypeOK, NativesInOrder, FramesInv, ~Interpreting, Depth' = Depth,
         natives' = Front(natives), ~hostError', ~input',
         builtins' = IF error' # "none" /\ Last(natives).frame THEN Front(builtins) ELSE builtins
  PROVE  FramesInv'
<1> DEFINE n == Len(natives)
<1>1. /\ n \in DOMAIN natives /\ Last(natives) = natives[n]
      /\ natives[n].stop = Depth
      /\ \A k \in DOMAIN natives' : /\ k \in DOMAIN natives /\ natives'[k] = natives[k]
                                    /\ natives[k].stop < Depth
      /\ \A k \in DOMAIN natives : k \in DOMAIN natives' \/ k = n
  BY InNativeLemma
<1>2. Depth \in Nat /\ \A i \in DOMAIN builtins : builtins[i].owner \in Nat
  BY FramesLemma, HereLemma
<1>3. \A k \in DOMAIN natives : natives[k].stop \in Nat
  BY NativesLemma
<1> HIDE DEF n
<1>4. natives[n].frame <=> ~Idle
  BY <1>1 DEF FramesInv, FramesNative, Idle
<1> DEFINE m == Len(builtins)
<1>5. ASSUME error' # "none", ~Idle
      PROVE  /\ m \in DOMAIN builtins /\ builtins[m].owner = Depth /\ m \in Nat
             /\ \A i \in DOMAIN builtins' : i \in DOMAIN builtins /\ builtins'[i] = builtins[i] /\ i < m
             /\ \A i \in DOMAIN builtins : i \in DOMAIN builtins' \/ i = m
  <2>1. FrameHere
    BY <1>5, FrameHereLemma DEF Idle, FramesInv
  <2>2. builtins' = Front(builtins)
    BY <1>1, <1>4, <1>5
  <2> QED
    BY <2>1, <2>2, TopFrameLemma DEF FrameHere
<1>6. ASSUME error' = "none" \/ Idle
      PROVE  builtins' = builtins
  BY <1>1, <1>4, <1>6
<1> HIDE DEF m
<1>7. \A i \in DOMAIN builtins' : i \in DOMAIN builtins /\ builtins'[i] = builtins[i]
  BY <1>5, <1>6
<1>8. \A i \in DOMAIN builtins : i \in DOMAIN builtins' \/ builtins[i].owner = Depth
  BY <1>5, <1>6
<1>9. FramesSorted'
  BY <1>7 DEF FramesInv, FramesSorted
<1>10. FramesWait'
  <2> SUFFICES ASSUME NEW i \in DOMAIN builtins
               PROVE  /\ builtins[i].owner <= Depth
                      /\ builtins[i].wait = "call"
                           <=> /\ builtins[i].owner < Depth
                               /\ \A k \in DOMAIN natives' : natives'[k].stop # builtins[i].owner
    BY <1>7 DEF FramesWait
  <2>1. /\ builtins[i].owner <= Depth
        /\ builtins[i].wait = "call"
             <=> builtins[i].owner < Depth /\ \A k \in DOMAIN natives : natives[k].stop # builtins[i].owner
    BY DEF FramesInv, FramesWait
  <2>2. builtins[i].owner < Depth =>
          ((\A k \in DOMAIN natives' : natives'[k].stop # builtins[i].owner)
             <=> \A k \in DOMAIN natives : natives[k].stop # builtins[i].owner)
    BY <1>1, <1>2
  <2> QED
    BY <2>1, <2>2
<1>11. FramesNative'
  <2> SUFFICES ASSUME NEW k \in DOMAIN natives'
               PROVE  natives[k].frame <=> \E i \in DOMAIN builtins' : builtins'[i].owner = natives[k].stop
    BY <1>1 DEF FramesNative
  <2>1. natives[k].frame <=> \E i \in DOMAIN builtins : builtins[i].owner = natives[k].stop
    BY <1>1 DEF FramesInv, FramesNative
  <2>2. natives[k].stop # Depth
    BY <1>1, <1>2, <1>3
  <2> QED
    BY <1>7, <1>8, <2>1, <2>2
<1>12. error' # "none" => Idle'
  <2> SUFFICES ASSUME error' # "none", NEW i \in DOMAIN builtins', builtins[i].owner = Depth
               PROVE  FALSE
    BY <1>7 DEF Idle
  <2>1. i \in DOMAIN builtins /\ ~Idle
    BY <1>7 DEF Idle
  <2>2. i = Len(builtins)
    BY <2>1, FrameHereLemma DEF FramesInv
  <2>3. i < m /\ m \in Nat
    BY <1>5, <2>1
  <2> QED
    BY <2>2, <2>3 DEF m
<1>13. FramesClear' /\ FramesReading'
  BY <1>12 DEF FramesClear, FramesReading
<1> QED
  BY <1>9, <1>10, <1>11, <1>13 DEF FramesInv

\* An activation returns, to the frame that waits for it if there is one.
LEMMA FramesReturnedLemma ==
  ASSUME TypeOK, NativesInOrder, FramesInv, Idle, Interpreting, Depth > 0, Depth' = Depth - 1,
         UNCHANGED natives, error' = "none", ~hostError', ~input',
         builtins' = IF CalledBack THEN Answered ELSE builtins
  PROVE  FramesInv'
<1>1. Depth \in Nat /\ \A i \in DOMAIN builtins : builtins[i].owner \in Nat /\ builtins[i].owner < Depth
  BY FramesLemma, HereLemma DEF Idle, FramesInv, FramesWait
<1>2. /\ DOMAIN builtins' = DOMAIN builtins
      /\ \A i \in DOMAIN builtins : /\ builtins'[i].owner = builtins[i].owner
                                    /\ builtins'[i].wait = IF CalledBack /\ i = Len(builtins)
                                                             THEN "none" ELSE builtins[i].wait
  <2>1. CASE CalledBack
    <3>1. Waits("none") /\ builtins # <<>>
      BY <2>1 DEF Waits, Answered, CalledBack
    <3> QED
      BY <2>1, <3>1, WaitsLemma
  <2>2. CASE ~CalledBack
    BY <2>2
  <2> QED
    BY <2>1, <2>2
<1>3. FramesSorted' /\ FramesNative'
  BY <1>2 DEF FramesInv, FramesSorted, FramesNative
<1>4. FramesWait'
  <2> SUFFICES ASSUME NEW i \in DOMAIN builtins
               PROVE  /\ builtins[i].owner <= Depth - 1
                      /\ builtins'[i].wait = "call"
                           <=> /\ builtins[i].owner < Depth - 1
                               /\ \A k \in DOMAIN natives : natives[k].stop # builtins[i].owner
    BY <1>2 DEF FramesWait
  <2>1. /\ builtins[i].wait = "call" <=> \A k \in DOMAIN natives : natives[k].stop # builtins[i].owner
        /\ builtins[i].owner <= Depth - 1
    BY <1>1 DEF FramesInv, FramesWait
  <2>2. CASE builtins[i].owner + 1 = Depth
    <3>1. i = Len(builtins) /\ (CalledBack <=> builtins[i].wait = "call")
      BY <2>1, <2>2, CalledBackLemma
    <3> QED
      BY <1>1, <1>2, <2>1, <2>2, <3>1
  <2>3. CASE builtins[i].owner + 1 # Depth
    <3>1. CalledBack => i # Len(builtins)
      BY <2>3, TopFrameLemma DEF CalledBack
    <3> QED
      BY <1>1, <1>2, <2>1, <2>3, <3>1
  <2> QED
    BY <2>2, <2>3
<1>5. FramesClear' /\ FramesReading'
  BY DEF FramesClear, FramesReading
<1> QED
  BY <1>3, <1>4, <1>5 DEF FramesInv

\* An error leaves an activation, and ends the frame that waits for it.
LEMMA FramesUnwoundLemma ==
  ASSUME TypeOK, NativesInOrder, FramesInv, Idle, Interpreting, Depth > 0, Depth' = Depth - 1,
         UNCHANGED natives, ~hostError', ~input',
         builtins' = IF CalledBack THEN Front(builtins) ELSE builtins
  PROVE  FramesInv'
<1> DEFINE m == Len(builtins)
<1>1. Depth \in Nat /\ \A i \in DOMAIN builtins : builtins[i].owner \in Nat /\ builtins[i].owner < Depth
  BY FramesLemma, HereLemma DEF Idle, FramesInv, FramesWait
<1>2. \A k \in DOMAIN natives : natives[k].stop < Depth /\ natives[k].stop \in Nat
  BY InterpretingLemma, NativesLemma
<1>3. ASSUME CalledBack
      PROVE  /\ m \in DOMAIN builtins /\ builtins[m].owner + 1 = Depth /\ m \in Nat
             /\ \A i \in DOMAIN builtins' : i \in DOMAIN builtins /\ builtins'[i] = builtins[i] /\ i < m
             /\ \A i \in DOMAIN builtins : i \in DOMAIN builtins' \/ i = m
             /\ \A k \in DOMAIN natives : natives[k].stop # builtins[m].owner
  <2>1. builtins # <<>> /\ builtins' = Front(builtins) /\ Last(builtins).owner + 1 = Depth
    BY <1>3 DEF CalledBack
  <2>2. /\ m \in DOMAIN builtins /\ builtins[m].owner + 1 = Depth /\ m \in Nat
        /\ \A i \in DOMAIN builtins' : i \in DOMAIN builtins /\ builtins'[i] = builtins[i] /\ i < m
        /\ \A i \in DOMAIN builtins : i \in DOMAIN builtins' \/ i = m
    BY <2>1, TopFrameLemma
  <2> QED
    BY <1>3, <2>2, CalledBackLemma
<1>4. ~CalledBack => builtins' = builtins
  OBVIOUS
<1> HIDE DEF m
<1>5. \A i \in DOMAIN builtins' : i \in DOMAIN builtins /\ builtins'[i] = builtins[i]
  BY <1>3, <1>4
<1>6. \A i \in DOMAIN builtins' : builtins[i].owner = Depth - 1
                                    => \E k \in DOMAIN natives : natives[k].stop = Depth - 1
  <2> SUFFICES ASSUME NEW i \in DOMAIN builtins', builtins[i].owner = Depth - 1
               PROVE  \E k \in DOMAIN natives : natives[k].stop = Depth - 1
    OBVIOUS
  <2>1. builtins[i].owner + 1 = Depth /\ i \in DOMAIN builtins
    BY <1>1, <1>5
  <2>2. i = m /\ (CalledBack <=> \A k \in DOMAIN natives : natives[k].stop # builtins[i].owner)
    BY <2>1, CalledBackLemma DEF m
  <2>3. ~CalledBack
    <3> SUFFICES ASSUME CalledBack
                 PROVE  FALSE
      OBVIOUS
    <3>1. m < m /\ m \in Nat
      BY <1>3, <2>2
    <3> QED
      BY <3>1
  <2> QED
    BY <2>2, <2>3
<1>7. FramesSorted'
  BY <1>5 DEF FramesInv, FramesSorted
<1>8. FramesWait'
  <2> SUFFICES ASSUME NEW i \in DOMAIN builtins'
               PROVE  /\ builtins[i].owner <= Depth - 1
                      /\ builtins[i].wait = "call"
                           <=> /\ builtins[i].owner < Depth - 1
                               /\ \A k \in DOMAIN natives : natives[k].stop # builtins[i].owner
    BY <1>5 DEF FramesWait
  <2>1. /\ builtins[i].wait = "call" <=> \A k \in DOMAIN natives : natives[k].stop # builtins[i].owner
        /\ builtins[i].owner <= Depth - 1
    BY <1>1, <1>5 DEF FramesInv, FramesWait
  <2>2. CASE builtins[i].owner = Depth - 1
    BY <1>1, <1>6, <2>1, <2>2
  <2>3. CASE builtins[i].owner # Depth - 1
    BY <1>1, <1>5, <2>1, <2>3
  <2> QED
    BY <2>2, <2>3
<1>9. FramesNative'
  <2> SUFFICES ASSUME NEW k \in DOMAIN natives
               PROVE  natives[k].frame <=> \E i \in DOMAIN builtins' : builtins'[i].owner = natives[k].stop
    BY DEF FramesNative
  <2>1. natives[k].frame <=> \E i \in DOMAIN builtins : builtins[i].owner = natives[k].stop
    BY DEF FramesInv, FramesNative
  <2>2. CalledBack => natives[k].stop # builtins[m].owner
    BY <1>3
  <2> QED
    BY <1>3, <1>4, <1>5, <2>1, <2>2
<1>10. FramesClear'
  <2> SUFFICES ASSUME Interpreting', NEW i \in DOMAIN builtins', builtins[i].owner = Depth - 1
               PROVE  FALSE
    BY <1>5 DEF FramesClear, Idle
  <2>1. PICK k \in DOMAIN natives : natives[k].stop = Depth - 1
    BY <1>6
  <2>2. natives # <<>> /\ Last(natives).stop < Depth - 1
    <3>1. natives # <<>>
      BY <2>1
    <3> QED
      BY <3>1 DEF Interpreting
  <2>3. Len(natives) \in DOMAIN natives /\ k <= Len(natives) /\ Last(natives) = natives[Len(natives)]
    BY <2>1, NativesLemma DEF Last
  <2>4. k = Len(natives) \/ natives[k].stop < natives[Len(natives)].stop
    BY <2>3, NativesLemma DEF NativesInOrder
  <2> QED
    BY <1>1, <1>2, <2>1, <2>2, <2>3, <2>4
<1>11. FramesReading'
  BY DEF FramesReading
<1> QED
  BY <1>7, <1>8, <1>9, <1>10, <1>11 DEF FramesInv


\* What a step does to the activations, as far as builtins are concerned.
InPlace == Depth' = Depth /\ \A a \in 1 .. Depth + 1 : acts'[a].module = acts[a].module
Deepens(module) ==
  /\ Depth' = Depth + 1
  /\ \A a \in 1 .. Depth + 1 : acts'[a].module = acts[a].module
  /\ acts'[Depth + 2].module = module
Rises == Depth' = Depth - 1 /\ \A a \in 1 .. Depth : acts'[a].module = acts[a].module

LEMMA InPlaceLemma ==
  ASSUME TypeOK, Leaves \/ Recodes \/ Regions \/ acts' = acts
  PROVE  InPlace
<1>1. Len(acts) = Depth + 1 /\ Depth \in Nat
  BY HereLemma
<1>2. Len(acts') = Len(acts) /\ \A a \in 1 .. Len(acts) : acts'[a].module = acts[a].module
  BY LeftLemma, RecodedLemma, RegionsKeepLemma
<1>3. Depth' = Len(acts') - 1
  BY DEF Depth
<1> QED
  BY <1>1, <1>2, <1>3 DEF InPlace

LEMMA DeepensLemma ==
  ASSUME TypeOK, NEW module \in Modules \cup {NoModule}, Pushes(module)
  PROVE  Deepens(module)
<1>1. Len(acts) = Depth + 1 /\ Depth \in Nat
  BY HereLemma
<1>2. /\ Len(acts') = Len(acts) + 1 /\ \A a \in 1 .. Len(acts) : acts'[a].module = acts[a].module
      /\ acts'[Len(acts) + 1].module = module
  BY PushedLemma
<1>3. Depth' = Len(acts') - 1
  BY DEF Depth
<1> QED
  BY <1>1, <1>2, <1>3 DEF Deepens

LEMMA RisesLemma ==
  ASSUME TypeOK, Pops
  PROVE  Rises
<1>1. Len(acts) = Depth + 1 /\ Depth \in Nat
  BY HereLemma
<1>2. Len(acts') = Len(acts) - 1 /\ \A a \in 1 .. Len(acts) - 1 : acts'[a] = acts[a]
  BY PoppedLemma DEF Pops
<1>3. Depth' = Len(acts') - 1
  BY DEF Depth
<1> QED
  BY <1>1, <1>2, <1>3 DEF Rises

\* No builtin comes to wait for a call.
NoneWaits ==
  \A i \in DOMAIN builtins' :
    builtins'[i].wait = "call"
      => \E j \in DOMAIN builtins : builtins[j].wait = "call" /\ builtins[j].owner = builtins'[i].owner

LEMMA CallbackKeptLemma ==
  ASSUME TypeOK, CallbackPlain, Live' => Live, NoneWaits, InPlace \/ Rises
  PROVE  CallbackPlain'
<1> SUFFICES ASSUME Live', NEW i \in DOMAIN builtins',
                    builtins'[i].wait = "call", builtins'[i].owner < Depth'
             PROVE  acts'[builtins'[i].owner + 2].module = NoModule
  BY DEF CallbackPlain
<1>1. PICK j \in DOMAIN builtins : builtins[j].wait = "call" /\ builtins[j].owner = builtins'[i].owner
  BY DEF NoneWaits
<1>2. builtins[j].owner \in Nat /\ Depth \in Nat
  BY FramesLemma, HereLemma
<1>3. Depth' = Depth \/ Depth' = Depth - 1
  BY DEF InPlace, Rises
<1>4. builtins[j].owner < Depth /\ builtins[j].owner + 2 \in 1 .. Depth' + 1
  BY <1>1, <1>2, <1>3
<1>5. acts[builtins[j].owner + 2].module = NoModule
  BY <1>1, <1>4 DEF CallbackPlain
<1>6. acts'[builtins[j].owner + 2].module = acts[builtins[j].owner + 2].module
  BY <1>2, <1>4 DEF InPlace, Rises
<1> QED
  BY <1>1, <1>5, <1>6

LEMMA CallbackCalledLemma ==
  ASSUME TypeOK, CallbackPlain, Live,
         NEW module, Deepens(module), module = NoModule \/ Idle,
         \A i \in DOMAIN builtins' :
           /\ i \in DOMAIN builtins /\ builtins'[i].owner = builtins[i].owner
           /\ builtins'[i].wait = builtins[i].wait \/ (module = NoModule /\ builtins[i].owner = Depth)
  PROVE  CallbackPlain'
<1> SUFFICES ASSUME NEW i \in DOMAIN builtins',
                    builtins'[i].wait = "call", builtins'[i].owner < Depth'
             PROVE  acts'[builtins'[i].owner + 2].module = NoModule
  BY DEF CallbackPlain
<1>1. /\ i \in DOMAIN builtins /\ builtins'[i].owner = builtins[i].owner
      /\ builtins'[i].wait = builtins[i].wait \/ (module = NoModule /\ builtins[i].owner = Depth)
  OBVIOUS
<1>2. builtins[i].owner \in Nat /\ Depth \in Nat /\ Depth' = Depth + 1
  BY <1>1, FramesLemma, HereLemma DEF Deepens
<1>3. CASE builtins[i].owner = Depth
  BY <1>1, <1>3 DEF Deepens, Idle
<1>4. CASE builtins[i].owner < Depth
  <2>1. builtins[i].owner + 2 \in 1 .. Depth + 1 /\ builtins[i].wait = "call"
    BY <1>1, <1>2, <1>4
  <2>2. acts[builtins[i].owner + 2].module = NoModule
    BY <1>1, <1>4, <2>1 DEF CallbackPlain
  <2> QED
    BY <1>1, <2>1, <2>2 DEF Deepens
<1> QED
  BY <1>1, <1>2, <1>3, <1>4

FlowInv ==
  /\ NativesInOrder
  /\ CallbackPlain
  /\ Live => Pending
  /\ Live /\ ~halted => FramesInv

\* A step that neither the builtins nor the depth of calls take part in.
LEMMA FlowQuietLemma ==
  ASSUME TypeOK, FlowInv, InPlace, UNCHANGED <<builtins, natives>>,
         Live' => Live /\ Pending', Live' /\ ~halted' => ~halted,
         Live' /\ ~halted' => ((error' # "none" \/ hostError') /\ Interpreting => Idle),
         Live' /\ ~halted' /\ input' =>
           \A i \in DOMAIN builtins : builtins[i].owner = Depth => builtins[i].wait = "input"
  PROVE  FlowInv'
<1>1. Depth' = Depth
  BY DEF InPlace
<1>2. NativesInOrder'
  BY <1>1 DEF FlowInv, NativesInOrder
<1>3. NoneWaits
  BY DEF NoneWaits
<1>4. CallbackPlain'
  BY <1>3, CallbackKeptLemma DEF FlowInv
<1>5. ASSUME Live', ~halted'
      PROVE  FramesInv'
  BY <1>1, <1>5, FramesKeptLemma DEF FlowInv
<1> QED
  BY <1>2, <1>4, <1>5 DEF FlowInv

LEMMA CanExecuteLemma ==
  ASSUME TypeOK, FlowInv, CanExecute
  PROVE  /\ Live /\ ~halted /\ FramesInv /\ Idle /\ Interpreting
         /\ status = "running" /\ error = "none" /\ ~hostError /\ ~input
<1>1. /\ status = "running" /\ error = "none" /\ Interpreting /\ ~hostError /\ ~input
      /\ ~halted /\ ~Runnable
  BY DEF CanExecute, Free, Loop
<1>2. Live
  BY <1>1 DEF Live
<1>3. FramesInv
  BY <1>1, <1>2 DEF FlowInv
<1> QED
  BY <1>1, <1>2, <1>3, IdleLemma

\* An instruction that stays in its activation.
LEMMA FlowInstructionLemma ==
  ASSUME TypeOK, FlowInv, CanExecute, InPlace, UNCHANGED <<builtins, natives, hostError, halted, status>>,
         input' = input \/ (input' = TRUE /\ error' = "none")
  PROVE  FlowInv'
<1>1. /\ Live /\ ~halted /\ FramesInv /\ Idle /\ Interpreting
      /\ status = "running" /\ error = "none" /\ ~hostError /\ ~input
  BY CanExecuteLemma
<1>2. Interpreting'
  BY <1>1 DEF InPlace, Interpreting
<1>3. Pending'
  BY <1>1, <1>2 DEF Pending
<1> QED
  BY <1>1, <1>3, FlowQuietLemma DEF Idle

\* A call by an instruction, or by a builtin written in Rust.
LEMMA FlowCalledLemma ==
  ASSUME TypeOK, FlowInv, NEW module, Deepens(module),
         UNCHANGED <<builtins, natives, input, hostError, error, halted, status>>,
         CanExecute \/ (module = NoModule /\ InNative /\ error = "none")
  PROVE  FlowInv'
<1>1. /\ Live /\ status = "running" /\ error = "none" /\ ~hostError /\ ~input
      /\ (Idle /\ ~halted) \/ (~Interpreting /\ module = NoModule)
  <2>1. CASE CanExecute
    BY <2>1, CanExecuteLemma
  <2>2. CASE module = NoModule /\ InNative /\ error = "none"
    <3>1. Live /\ ~Interpreting
      BY <2>2 DEF InNative, Live
    <3>2. {input, hostError} \subseteq BOOLEAN /\ (input \/ hostError => Interpreting)
      BY <3>1 DEF FlowInv, Pending, TypeOK
    <3> QED
      BY <2>2, <3>1, <3>2 DEF InNative
  <2> QED
    BY <2>1, <2>2
<1>2. Depth' = Depth + 1 /\ Depth \in Nat
  BY HereLemma DEF Deepens
<1>3. NativesInOrder'
  <2>1. \A k \in DOMAIN natives : natives[k].stop <= Depth + 1
    BY <1>2, NativesLemma DEF FlowInv, NativesInOrder
  <2> QED
    BY <1>2, <2>1 DEF FlowInv, NativesInOrder
<1>4. CallbackPlain'
  <2>1. \A i \in DOMAIN builtins' :
          /\ i \in DOMAIN builtins /\ builtins'[i].owner = builtins[i].owner
          /\ builtins'[i].wait = builtins[i].wait \/ (module = NoModule /\ builtins[i].owner = Depth)
    OBVIOUS
  <2>2. (module = NoModule \/ Idle) /\ CallbackPlain /\ Live
    BY <1>1 DEF FlowInv
  <2> QED
    BY <2>1, <2>2, CallbackCalledLemma
<1>5. Pending'
  BY <1>1 DEF Pending
<1>6. ASSUME ~halted'
      PROVE  FramesInv'
  BY <1>1, <1>2, <1>6, FramesCalledLemma DEF FlowInv
<1> QED
  BY <1>3, <1>4, <1>5, <1>6 DEF FlowInv


\* A frame calls a function.
LEMMA FlowFrameCallsLemma ==
  ASSUME TypeOK, FlowInv, NEW code \in Codes, FrameCalls(code)
  PROVE  FlowInv'
<1>1. /\ status = "running" /\ error = "none" /\ Interpreting /\ ~hostError /\ ~input /\ ~halted
      /\ FrameHere /\ Last(builtins).wait = "none" /\ Live
  BY DEF FrameCalls, FrameStep, Free, Loop, Runnable, Live
<1>2. FramesInv /\ NativesInOrder /\ CallbackPlain
  BY <1>1 DEF FlowInv
<1>3. CASE Room
  <2>1. Called(code, NoModule, Here.lex) /\ Waits("call")
        /\ UNCHANGED <<tries, unpacks, natives, input, hostError, error, halted, status>>
    BY <1>3 DEF FrameCalls
  <2>2. Deepens(NoModule)
    BY <1>3, <2>1, HereAfterLemma, PushesLemma, DeepensLemma
  <2>3. Depth' = Depth + 1 /\ Depth \in Nat
    BY <2>2, HereLemma DEF Deepens
  <2>4. NativesInOrder'
    <3>1. \A k \in DOMAIN natives : natives[k].stop <= Depth + 1
      BY <1>2, <2>3, NativesLemma DEF NativesInOrder
    <3> QED
      BY <1>2, <2>1, <2>3, <3>1 DEF NativesInOrder
  <2>5. CallbackPlain'
    <3>1. /\ DOMAIN builtins' = DOMAIN builtins
          /\ \A i \in DOMAIN builtins :
               /\ builtins'[i].owner = builtins[i].owner
               /\ builtins'[i].wait = IF i = Len(builtins) THEN "call" ELSE builtins[i].wait
      BY <1>1, <2>1, WaitsLemma DEF FrameHere
    <3>2. builtins[Len(builtins)].owner = Depth
      BY <1>1, TopFrameLemma DEF FrameHere
    <3>3. \A i \in DOMAIN builtins' :
            /\ i \in DOMAIN builtins /\ builtins'[i].owner = builtins[i].owner
            /\ builtins'[i].wait = builtins[i].wait \/ (NoModule = NoModule /\ builtins[i].owner = Depth)
      BY <3>1, <3>2
    <3> QED
      BY <1>1, <1>2, <2>2, <3>3, CallbackCalledLemma
  <2>6. Pending'
    BY <1>1, <2>1 DEF Pending
  <2>7. FramesInv'
    BY <1>1, <1>2, <2>1, <2>3, FramesWaitsLemma
  <2> QED
    BY <2>4, <2>5, <2>6, <2>7 DEF FlowInv
<1>4. CASE ~Room
  <2>1. /\ builtins' = Front(builtins) /\ acts' = acts
        /\ UNCHANGED <<natives, input, hostError, halted, status>>
    BY <1>4 DEF FrameCalls
  <2>2. InPlace
    BY <2>1, InPlaceLemma
  <2>3. Depth' = Depth
    BY <2>2 DEF InPlace
  <2>4. NativesInOrder'
    BY <1>2, <2>1, <2>3 DEF NativesInOrder
  <2>5. NoneWaits
    BY <1>1, <2>1, TopFrameLemma DEF NoneWaits, FrameHere
  <2>6. CallbackPlain'
    BY <1>1, <1>2, <2>2, <2>5, CallbackKeptLemma
  <2>7. Pending'
    BY <1>1, <2>1 DEF Pending
  <2>8. FramesInv'
    BY <1>1, <1>2, <2>1, <2>3, FramesEndedLemma
  <2> QED
    BY <2>4, <2>6, <2>7, <2>8 DEF FlowInv
<1> QED
  BY <1>3, <1>4

\* The frame of the running activation ends, without what it waits for.
LEMMA FlowFrameEndedLemma ==
  ASSUME TypeOK, FlowInv, Live, Interpreting, FrameHere,
         UNCHANGED <<acts, natives, halted>>, builtins' = Front(builtins), status' = "running",
         ~input', hostError' => error' = "none"
  PROVE  FlowInv'
<1>1. NativesInOrder /\ CallbackPlain
  BY DEF FlowInv
<1>2. InPlace
  BY InPlaceLemma
<1>3. Depth' = Depth
  BY <1>2 DEF InPlace
<1>4. NativesInOrder'
  BY <1>1, <1>3 DEF NativesInOrder
<1>5. NoneWaits
  BY TopFrameLemma DEF NoneWaits, FrameHere
<1>6. CallbackPlain'
  BY <1>1, <1>2, <1>5, CallbackKeptLemma
<1>7. Interpreting'
  BY <1>3 DEF Interpreting
<1>8. Pending'
  BY <1>7 DEF Pending
<1>9. ASSUME ~halted'
      PROVE  FramesInv'
  BY <1>1, <1>3, <1>9, FramesEndedLemma DEF FlowInv
<1> QED
  BY <1>4, <1>6, <1>8, <1>9 DEF FlowInv

\* The frame of the running activation reads, or takes, a line.
LEMMA FlowFrameReadsLemma ==
  ASSUME TypeOK, FlowInv, FrameReads \/ FrameAcceptsInput
  PROVE  FlowInv'
<1>1. /\ status = "running" /\ error = "none" /\ Interpreting /\ ~hostError /\ ~input /\ ~halted
      /\ FrameHere /\ Live
  BY DEF FrameReads, FrameAcceptsInput, FrameStep, Free, Loop, Runnable, Live
<1>2. FramesInv /\ NativesInOrder /\ CallbackPlain
  BY <1>1 DEF FlowInv
<1>3. PICK wait \in {"none", "input"} :
        /\ Waits(wait) /\ UNCHANGED <<acts, natives, hostError, error, halted, status>>
        /\ wait = "none" => input' = input
  BY DEF FrameReads, FrameAcceptsInput, control
<1>4. InPlace
  BY <1>3, InPlaceLemma
<1>5. Depth' = Depth
  BY <1>4 DEF InPlace
<1>6. NativesInOrder'
  BY <1>2, <1>3, <1>5 DEF NativesInOrder
<1>7. NoneWaits
  <2>1. /\ DOMAIN builtins' = DOMAIN builtins
        /\ \A i \in DOMAIN builtins :
             /\ builtins'[i].owner = builtins[i].owner
             /\ builtins'[i].wait = IF i = Len(builtins) THEN wait ELSE builtins[i].wait
    BY <1>1, <1>3, WaitsLemma DEF FrameHere
  <2> QED
    BY <1>3, <2>1 DEF NoneWaits
<1>8. CallbackPlain'
  BY <1>1, <1>2, <1>4, <1>7, CallbackKeptLemma
<1>9. Interpreting'
  BY <1>1, <1>3, <1>5 DEF Interpreting
<1>10. Pending'
  BY <1>1, <1>3, <1>9 DEF Pending
<1>11. FramesInv'
  BY <1>1, <1>2, <1>3, <1>5, FramesWaitsLemma
<1> QED
  BY <1>6, <1>8, <1>10, <1>11 DEF FlowInv

LEMMA FlowStartFrameLemma ==
  ASSUME TypeOK, FlowInv, NEW captures \in BOOLEAN, StartFrame(captures)
  PROVE  FlowInv' /\ builtins' \in Seq(BuiltinFrames)
<1> DEFINE frame == [owner |-> Depth, captures |-> captures, wait |-> "none"]
<1>1. /\ CanExecute /\ builtins' = Append(builtins, frame)
      /\ UNCHANGED <<tries, unpacks, natives, input, hostError, error, halted, status>>
  BY DEF StartFrame, control
<1>2. /\ Live /\ ~halted /\ FramesInv /\ Idle /\ Interpreting
      /\ status = "running" /\ error = "none" /\ ~hostError /\ ~input
  BY <1>1, CanExecuteLemma
<1>3. frame \in BuiltinFrames /\ frame.owner = Depth /\ frame.wait = "none"
  BY HereLemma DEF BuiltinFrames
<1> HIDE DEF frame
<1>4. Leaves
  BY <1>1, LeavesLemma DEF StartFrame
<1>5. InPlace
  BY <1>4, InPlaceLemma
<1>6. Depth' = Depth
  BY <1>5 DEF InPlace
<1>7. NativesInOrder /\ CallbackPlain
  BY DEF FlowInv
<1>8. NativesInOrder'
  BY <1>1, <1>6, <1>7 DEF NativesInOrder
<1>9. /\ builtins' \in Seq(BuiltinFrames)
      /\ DOMAIN builtins' = 1 .. Len(builtins) + 1
      /\ \A i \in 1 .. Len(builtins) : builtins'[i] = builtins[i]
      /\ builtins'[Len(builtins) + 1] = frame
  BY <1>1, <1>3, FramesLemma, AppendLemma
<1>10. NoneWaits
  <2>1. \A i \in DOMAIN builtins' : i \in 1 .. Len(builtins) \/ i = Len(builtins) + 1
    BY <1>9, FramesLemma
  <2> QED
    BY <1>3, <1>9, <2>1, FramesLemma DEF NoneWaits
<1>11. CallbackPlain'
  BY <1>2, <1>5, <1>7, <1>10, CallbackKeptLemma
<1>12. Pending'
  BY <1>1, <1>2 DEF Pending
<1>13. FramesInv'
  BY <1>1, <1>2, <1>3, <1>6, <1>7, FramesStartedLemma
<1> QED
  BY <1>8, <1>9, <1>11, <1>12, <1>13 DEF FlowInv

LEMMA FlowNativeLemma ==
  ASSUME TypeOK, FlowInv, Live, ~halted, Interpreting, InPlace,
         error = "none", ~hostError, ~input,
         UNCHANGED <<builtins, input, hostError, error, halted, status>>, status = "running",
         NEW captures \in BOOLEAN, NEW frame \in BOOLEAN, frame <=> ~Idle,
         natives' = Append(natives, Native(captures, frame))
  PROVE  FlowInv' /\ natives' \in Seq(Natives)
<1> DEFINE native == Native(captures, frame)
<1>1. native \in Natives /\ native.stop = Depth /\ native.frame = frame
  BY HereLemma DEF Native, Natives, TypeOK
<1> HIDE DEF native
<1>2. Depth' = Depth
  BY DEF InPlace
<1>3. FramesInv /\ NativesInOrder /\ CallbackPlain
  BY DEF FlowInv
<1>4. natives' = Append(natives, native) /\ natives' \in Seq(Natives)
  BY <1>1, NativesLemma, AppendLemma DEF native
<1>5. FramesInv' /\ NativesInOrder'
  BY <1>1, <1>2, <1>3, <1>4, FramesNativeLemma
<1>6. NoneWaits
  BY DEF NoneWaits
<1>7. CallbackPlain'
  BY <1>3, <1>6, CallbackKeptLemma DEF Live
<1>8. Pending'
  BY DEF Pending
<1> QED
  BY <1>4, <1>5, <1>7, <1>8 DEF FlowInv

LEMMA FlowNativeEndsLemma ==
  ASSUME TypeOK, FlowInv, InNative, NEW e, NativeEnds(e)
  PROVE  FlowInv' /\ natives' \in Seq(Natives) /\ builtins' \in Seq(BuiltinFrames)
<1>1. /\ natives' = Front(natives) /\ error' = e
      /\ builtins' = IF e # "none" /\ Last(natives).frame THEN Front(builtins) ELSE builtins
      /\ UNCHANGED <<acts, input, hostError, halted, status>>
  BY DEF NativeEnds
<1>2. Live /\ ~Interpreting /\ status = "running"
  BY DEF InNative, Live
<1>3. NativesInOrder /\ CallbackPlain /\ Pending
  BY <1>2 DEF FlowInv
<1>4. ~input /\ ~hostError
  <2>1. {input, hostError} \subseteq BOOLEAN
    BY DEF TypeOK
  <2> QED
    BY <1>2, <1>3, <2>1 DEF Pending
<1>5. InPlace
  BY <1>1, InPlaceLemma
<1>6. Depth' = Depth
  BY <1>5 DEF InPlace
<1>7. /\ DOMAIN natives' \subseteq DOMAIN natives /\ natives' \in Seq(Natives)
      /\ \A k \in DOMAIN natives' : natives'[k] = natives[k]
  BY <1>1, <1>2, <1>3, InNativeLemma
<1>8. NativesInOrder'
  BY <1>3, <1>6, <1>7 DEF NativesInOrder
<1>9. NoneWaits /\ builtins' \in Seq(BuiltinFrames)
  <2>1. CASE builtins' = builtins
    BY <2>1 DEF NoneWaits, TypeOK
  <2>2. CASE builtins' = Front(builtins) /\ builtins # <<>>
    BY <2>2, TopFrameLemma DEF NoneWaits
  <2>3. CASE builtins' = Front(builtins) /\ builtins = <<>>
    <3>1. Front(<<>>) = <<>>
      BY SubSeqEmpty, EmptySeq DEF Front
    <3> QED
      BY <2>3, <3>1, EmptySeq DEF NoneWaits
  <2> QED
    BY <1>1, <2>1, <2>2, <2>3
<1>10. CallbackPlain'
  BY <1>1, <1>2, <1>3, <1>5, <1>9, CallbackKeptLemma
<1>11. Pending'
  BY <1>1, <1>2, <1>4 DEF Pending
<1>12. ASSUME ~halted'
       PROVE  FramesInv'
  <2>1. FramesInv
    BY <1>1, <1>2, <1>12 DEF FlowInv
  <2> QED
    BY <1>1, <1>2, <1>3, <1>4, <1>6, <2>1, FramesNativeEndsLemma
<1> QED
  BY <1>7, <1>8, <1>9, <1>10, <1>11, <1>12 DEF FlowInv

\* An activation returns, or its error is taken for the result of a callback.
LEMMA FlowRisesLemma ==
  ASSUME TypeOK, FlowInv, Rises, Depth > 0, Interpreting, Live, status = "running", ~input, ~hostError,
         UNCHANGED <<natives, input, hostError, halted, status>>,
         ~halted => Idle,
         \/ /\ error' = "none"
            /\ builtins' = IF CalledBack THEN Answered ELSE builtins
         \/ builtins' = IF CalledBack THEN Front(builtins) ELSE builtins
  PROVE  FlowInv' /\ builtins' \in Seq(BuiltinFrames)
<1>1. NativesInOrder /\ CallbackPlain /\ Depth' = Depth - 1 /\ Depth \in Nat
  BY HereLemma DEF FlowInv, Rises
<1>2. NativesInOrder'
  <2>1. \A k \in DOMAIN natives : natives[k].stop <= Depth - 1
    BY <1>1, InterpretingLemma, NativesLemma
  <2> QED
    BY <1>1, <2>1 DEF NativesInOrder
<1>3. NoneWaits /\ builtins' \in Seq(BuiltinFrames)
  <2>1. CASE ~CalledBack
    BY <2>1 DEF NoneWaits, TypeOK
  <2>2. CASE CalledBack /\ builtins' = Answered
    <3>1. Waits("none") /\ builtins # <<>>
      BY <2>2 DEF Waits, Answered, CalledBack
    <3>2. /\ builtins' \in Seq(BuiltinFrames) /\ DOMAIN builtins' = DOMAIN builtins
          /\ \A i \in DOMAIN builtins :
               /\ builtins'[i].owner = builtins[i].owner
               /\ builtins'[i].wait = IF i = Len(builtins) THEN "none" ELSE builtins[i].wait
      BY <3>1, WaitsLemma
    <3> QED
      BY <3>2 DEF NoneWaits
  <2>3. CASE CalledBack /\ builtins' = Front(builtins)
    BY <2>3, TopFrameLemma DEF NoneWaits, CalledBack
  <2> QED
    BY <2>1, <2>2, <2>3
<1>4. CallbackPlain'
  BY <1>1, <1>3, CallbackKeptLemma DEF Live
<1>5. Pending'
  BY DEF Pending
<1>6. ASSUME ~halted'
      PROVE  FramesInv'
  <2>1. FramesInv /\ Idle
    BY <1>6 DEF FlowInv
  <2> QED
    BY <1>1, <2>1, FramesReturnedLemma, FramesUnwoundLemma
<1> QED
  BY <1>2, <1>3, <1>4, <1>5, <1>6 DEF FlowInv

\* Everything is forgotten.
LEMMA FlowClearLemma ==
  ASSUME TypeOK, Resets, Clear, status' # "awaiting"
  PROVE  FlowInv' /\ builtins' \in Seq(BuiltinFrames) /\ natives' \in Seq(Natives)
<1>1. /\ builtins' = <<>> /\ natives' = <<>> /\ error' = "none" /\ input' = FALSE /\ hostError' = FALSE
  BY DEF Clear
<1>2. DOMAIN builtins' = {} /\ DOMAIN natives' = {}
  BY <1>1
<1>3. NativesInOrder' /\ CallbackPlain'
  BY <1>2 DEF NativesInOrder, CallbackPlain
<1>4. Pending'
  BY <1>1 DEF Pending
<1>5. FramesInv'
  BY <1>1, <1>2 DEF FramesInv, FramesSorted, FramesWait, FramesNative, FramesClear, FramesReading
<1> QED
  BY <1>1, <1>3, <1>4, <1>5, EmptySeq DEF FlowInv


FlowTyped ==
  /\ builtins' \in Seq(BuiltinFrames)
  /\ natives' \in Seq(Natives)
  /\ {coop', input', hostError', halted'} \subseteq BOOLEAN
  /\ error' \in {"none", "user", "machine"}
  /\ status' \in {"ready", "running", "awaiting", "failed", "trapped"}

\* A step that changes neither the builtins, nor those written in Rust.
LEMMA FlowKeptTypes ==
  ASSUME TypeOK, UNCHANGED <<builtins, natives>>,
         {coop', input', hostError', halted'} \subseteq BOOLEAN,
         error' \in {"none", "user", "machine"},
         status' \in {"ready", "running", "awaiting", "failed", "trapped"}
  PROVE  FlowTyped
  BY DEF TypeOK, FlowTyped

\* Instructions.
LEMMA FlowInstructions ==
  ASSUME TypeOK, FlowInv,
         \/ \E code \in Codes : Call(code) \/ TailCall(code)
         \/ TryOpen \/ UnpackOpen \/ UnpackClose
         \/ \E k \in 0 .. Len(Here.lex) - 1 : Jump(k)
         \/ \E e \in {"user", "machine"} : Raise(e)
         \/ \E m \in Modules : Import(m)
         \/ Input
  PROVE  FlowInv' /\ FlowTyped
<1>1. ASSUME CanExecute, InPlace, UNCHANGED <<builtins, natives, coop, hostError, halted, status>>,
             input' = input \/ (input' = TRUE /\ error' = "none"),
             error' \in {"none", "user", "machine"}
      PROVE  FlowInv' /\ FlowTyped
  <2>1. FlowInv'
    BY <1>1, FlowInstructionLemma
  <2>2. {coop', input', hostError', halted'} \subseteq BOOLEAN
    BY <1>1 DEF TypeOK
  <2>3. FlowTyped
    BY <1>1, <2>2 DEF TypeOK, FlowTyped
  <2> QED
    BY <2>1, <2>3
<1>2. ASSUME NEW module \in Modules \cup {NoModule}, CanExecute, Pushes(module),
             UNCHANGED <<builtins, control, status>>
      PROVE  FlowInv' /\ FlowTyped
  <2>1. Deepens(module)
    BY <1>2, DeepensLemma
  <2>2. UNCHANGED <<builtins, natives, coop, input, hostError, error, halted, status>>
    BY <1>2 DEF control
  <2>3. FlowInv'
    BY <1>2, <2>1, <2>2, FlowCalledLemma
  <2> QED
    BY <2>2, <2>3 DEF TypeOK, FlowTyped
<1>3. ASSUME NEW code \in Codes, Call(code)
      PROVE  FlowInv' /\ FlowTyped
  <2>1. PICK lex \in After :
          IF Room THEN Called(code, NoModule, lex) /\ UNCHANGED error
                  ELSE Position(lex) /\ error' = "user"
    BY <1>3 DEF Call
  <2>2. CanExecute /\ UNCHANGED <<tries, unpacks, builtins, natives, coop, input, hostError, halted, status>>
    BY <1>3 DEF Call
  <2>3. CASE Room
    <3>1. Pushes(NoModule)
      BY <2>1, <2>2, <2>3, PushesLemma
    <3> QED
      BY <1>2, <2>1, <2>2, <2>3, <3>1 DEF control
  <2>4. CASE ~Room
    <3>1. Leaves
      BY <2>1, <2>2, <2>4, LeavesLemma
    <3> QED
      BY <1>1, <2>1, <2>2, <2>4, <3>1, InPlaceLemma
  <2> QED
    BY <2>3, <2>4
<1>4. ASSUME NEW m \in Modules, Import(m)
      PROVE  FlowInv' /\ FlowTyped
  <2>1. PICK lex \in After :
          IF Room THEN (\E code \in Codes : Called(code, m, lex)) /\ UNCHANGED error
                  ELSE Position(lex) /\ error' = "user"
    BY <1>4 DEF Import
  <2>2. CanExecute /\ UNCHANGED <<tries, unpacks, builtins, natives, coop, input, hostError, halted, status>>
    BY <1>4 DEF Import
  <2>3. CASE Room
    <3>1. Pushes(m)
      BY <2>1, <2>2, <2>3, PushesLemma
    <3> QED
      BY <1>2, <2>1, <2>2, <2>3, <3>1 DEF control
  <2>4. CASE ~Room
    <3>1. Leaves
      BY <2>1, <2>2, <2>4, LeavesLemma
    <3> QED
      BY <1>1, <2>1, <2>2, <2>4, <3>1, InPlaceLemma
  <2> QED
    BY <2>3, <2>4
<1>5. error \in {"none", "user", "machine"}
  BY DEF TypeOK
<1>6. ASSUME NEW code \in Codes, TailCall(code)
      PROVE  FlowInv' /\ FlowTyped
  <2>1. Recodes
    BY <1>6 DEF TailCall, Recodes, CanExecute
  <2> QED
    BY <1>1, <1>5, <1>6, <2>1, InPlaceLemma DEF TailCall, control
<1>7. CASE TryOpen \/ UnpackOpen \/ UnpackClose
  <2>1. Regions /\ CanExecute
    BY <1>7 DEF Regions, TryOpen, UnpackOpen, UnpackClose, OpenRegion
  <2> QED
    BY <1>1, <1>5, <1>7, <2>1, InPlaceLemma DEF TryOpen, UnpackOpen, UnpackClose, control
<1>8. ASSUME NEW k \in 0 .. Len(Here.lex) - 1, Jump(k)
      PROVE  FlowInv' /\ FlowTyped
  <2>1. k \in 0 .. Len(Here.lex)
    BY LexLemma
  <2>2. Leaves
    BY <1>8, <2>1 DEF Jump, Leaves
  <2> QED
    BY <1>1, <1>5, <1>8, <2>2, InPlaceLemma DEF Jump, control
<1>9. ASSUME NEW e \in {"user", "machine"}, Raise(e)
      PROVE  FlowInv' /\ FlowTyped
  BY <1>1, <1>9, InPlaceLemma DEF Raise
<1>10. CASE Input
  <2>1. Leaves
    BY <1>10, LeavesLemma DEF Input
  <2>2. error' = "none"
    BY <1>10 DEF Input, CanExecute, Free, Loop
  <2> QED
    BY <1>1, <1>10, <2>1, <2>2, InPlaceLemma DEF Input
<1> QED
  BY <1>3, <1>4, <1>6, <1>7, <1>8, <1>9, <1>10

\* The ends of regions, errors and interruption.
LEMMA FlowQuietSteps ==
  ASSUME TypeOK, FlowInv,
         \/ FinishTry \/ CatchTry \/ FailEvaluation \/ NativeCaptures \/ Suspend \/ RaiseHostError
         \/ Interrupt \/ TakeHalt \/ UNCHANGED vars
  PROVE  FlowInv' /\ FlowTyped
<1>0. /\ {coop, input, hostError, halted} \subseteq BOOLEAN
      /\ error \in {"none", "user", "machine"}
      /\ status \in {"ready", "running", "awaiting", "failed", "trapped"}
  BY DEF TypeOK
<1>1. CASE FinishTry
  <2>1. InPlace /\ UNCHANGED <<builtins, natives, coop, input, hostError, error, halted, status>>
    BY <1>1, InPlaceLemma DEF Regions, FinishTry, control
  <2>2. status = "running" /\ error = "none" /\ ~hostError /\ ~input
    BY <1>1 DEF FinishTry, Free, Loop
  <2>3. FlowInv'
    BY <2>1, <2>2, FlowQuietLemma DEF Pending, Live
  <2> QED
    BY <1>0, <2>1, <2>3, FlowKeptTypes
<1>2. CASE CatchTry
  <2>1. InPlace /\ UNCHANGED <<builtins, natives, coop, input, hostError, halted, status>> /\ error' = "none"
    BY <1>2, InPlaceLemma DEF Regions, CatchTry
  <2>2. status = "running" /\ error # "none" /\ Live
    BY <1>2 DEF CatchTry, Unwinding, Live
  <2>3. ~input /\ ~hostError
    BY <1>0, <2>2 DEF FlowInv, Pending
  <2>4. FlowInv'
    BY <2>1, <2>2, <2>3, FlowQuietLemma DEF Pending, Live
  <2> QED
    BY <1>0, <2>1, <2>4, FlowKeptTypes
<1>3. CASE FailEvaluation
  <2>1. /\ InPlace /\ UNCHANGED <<builtins, natives, coop, input, hostError, halted>>
        /\ error' = "none" /\ status' = "failed"
    BY <1>3, InPlaceLemma DEF FailEvaluation
  <2>2. FlowInv'
    BY <2>1, FlowQuietLemma DEF Live
  <2> QED
    BY <1>0, <2>1, <2>2, FlowKeptTypes
<1>4. CASE NativeCaptures
  <2>1. InPlace /\ UNCHANGED <<builtins, natives, coop, input, hostError, halted, status>> /\ error' = "none"
    BY <1>4, InPlaceLemma DEF NativeCaptures
  <2>2. status = "running" /\ error # "none" /\ Live
    BY <1>4 DEF NativeCaptures, InNative, Live
  <2>3. ~input /\ ~hostError
    BY <1>0, <2>2 DEF FlowInv, Pending
  <2>4. FlowInv'
    BY <2>1, <2>2, <2>3, FlowQuietLemma DEF Pending, Live
  <2> QED
    BY <1>0, <2>1, <2>4, FlowKeptTypes
<1>5. CASE Suspend
  <2>1. /\ InPlace /\ UNCHANGED <<builtins, natives, coop, input, hostError, error, halted>>
        /\ status' = IF natives = <<>> THEN "awaiting" ELSE "trapped"
    BY <1>5, InPlaceLemma DEF Suspend, control
  <2>2. status = "running" /\ error = "none" /\ Interpreting /\ ~hostError /\ input /\ Live
    BY <1>5 DEF Suspend, Loop, Live
  <2>3. Interpreting'
    BY <2>1, <2>2 DEF InPlace, Interpreting
  <2>4. Live' => Pending'
    BY <2>1, <2>2, <2>3 DEF Pending, Live
  <2>5. ASSUME ~halted
        PROVE  \A i \in DOMAIN builtins : builtins[i].owner = Depth => builtins[i].wait = "input"
    BY <2>2, <2>5 DEF FlowInv, FramesInv, FramesReading
  <2>6. FlowInv'
    BY <2>1, <2>2, <2>4, <2>5, FlowQuietLemma
  <2> QED
    BY <1>0, <2>1, <2>6, FlowKeptTypes
<1>6. CASE RaiseHostError
  <2>1. /\ InPlace /\ UNCHANGED <<builtins, natives, coop, input, halted, status>>
        /\ error' = "user" /\ hostError' = FALSE
    BY <1>6, InPlaceLemma DEF RaiseHostError
  <2>2. status = "running" /\ error = "none" /\ Interpreting /\ hostError /\ Live
    BY <1>6 DEF RaiseHostError, Loop, Live
  <2>3. ~input
    BY <1>0, <2>2 DEF FlowInv, Pending
  <2>4. ~halted => Idle
    BY <2>2 DEF FlowInv, FramesInv, FramesClear
  <2>5. FlowInv'
    BY <2>1, <2>2, <2>3, <2>4, FlowQuietLemma DEF Pending
  <2> QED
    BY <1>0, <2>1, <2>5, FlowKeptTypes
<1>7. CASE Interrupt
  <2>1. /\ InPlace /\ UNCHANGED <<builtins, natives, coop, input, hostError, error, status>>
        /\ halted' = TRUE
    BY <1>7, InPlaceLemma DEF Interrupt
  <2>2. status = "running" /\ Live
    BY <1>7 DEF Interrupt, Free, Loop, InNative, Live
  <2>3. Pending'
    BY <2>1, <2>2 DEF FlowInv, Pending, InPlace, Interpreting
  <2>4. FlowInv'
    BY <2>1, <2>2, <2>3, FlowQuietLemma
  <2> QED
    BY <1>0, <2>1, <2>4, FlowKeptTypes
<1>8. CASE TakeHalt
  <2>1. /\ InPlace /\ UNCHANGED <<builtins, natives, coop, input, hostError, error, status>>
        /\ halted' = FALSE /\ ~Live'
    BY <1>8, InPlaceLemma DEF TakeHalt, Ended, Live
  <2>2. FlowInv'
    BY <2>1, FlowQuietLemma
  <2> QED
    BY <1>0, <2>1, <2>2, FlowKeptTypes
<1>9. CASE UNCHANGED vars
  <2>1. /\ InPlace
        /\ UNCHANGED <<acts, builtins, natives, coop, input, hostError, error, halted, status>>
    BY <1>9, InPlaceLemma DEF vars
  <2>2. FlowInv'
    BY <2>1 DEF FlowInv, NativesInOrder, CallbackPlain, Live, Pending, FramesInv, FramesSorted,
              FramesWait, FramesNative, FramesClear, FramesReading, Idle, Interpreting, Depth
  <2> QED
    BY <1>0, <2>1, <2>2, FlowKeptTypes
<1> QED
  BY <1>1, <1>2, <1>3, <1>4, <1>5, <1>6, <1>7, <1>8, <1>9

\* The ends of activations.
LEMMA FlowEnds ==
  ASSUME TypeOK, FlowInv, Return \/ HaltLeave \/ CaptureError \/ UnwindCall
  PROVE  FlowInv' /\ FlowTyped
<1>0. /\ {coop, input, hostError, halted} \subseteq BOOLEAN
      /\ error \in {"none", "user", "machine"} /\ Depth \in Nat
      /\ status \in {"ready", "running", "awaiting", "failed", "trapped"}
  BY HereLemma DEF TypeOK
<1>1. CASE Return \/ HaltLeave
  <2>1. /\ status = "running" /\ error = "none" /\ Interpreting /\ ~hostError /\ ~input /\ Live
        /\ FinishCall
    BY <1>1 DEF Return, HaltLeave, CanExecute, Free, Loop, Live
  <2>2. ~halted => Idle
    BY <1>1, CanExecuteLemma DEF Return, HaltLeave
  <2>3. UNCHANGED <<natives, coop, input, hostError, error, halted>>
    BY <2>1 DEF FinishCall, control
  <2>4. CASE Depth = 0
    <3>1. acts' = acts /\ builtins' = builtins /\ status' = "ready"
      BY <2>1, <2>4 DEF FinishCall
    <3>2. FlowInv'
      BY <2>3, <3>1, InPlaceLemma, FlowQuietLemma DEF Live
    <3> QED
      BY <1>0, <2>3, <3>1, <3>2, FlowKeptTypes
  <2>5. CASE Depth # 0
    <3>1. /\ Pops /\ Depth > 0 /\ status' = status
          /\ builtins' = IF CalledBack THEN Answered ELSE builtins
      BY <1>0, <2>1, <2>5 DEF FinishCall, Pops
    <3>2. Rises
      BY <3>1, RisesLemma
    <3>3. FlowInv' /\ builtins' \in Seq(BuiltinFrames)
      BY <2>1, <2>2, <2>3, <3>1, <3>2, FlowRisesLemma
    <3> QED
      BY <1>0, <2>3, <3>1, <3>3 DEF TypeOK, FlowTyped
  <2> QED
    BY <2>4, <2>5
<1>2. CASE CaptureError \/ UnwindCall
  <2>1. /\ status = "running" /\ error # "none" /\ Interpreting /\ Live
        /\ UNCHANGED <<natives, coop, input, hostError, halted, status>>
    BY <1>2 DEF CaptureError, UnwindCall, Unwinding, Live, control
  <2>2. ~input /\ ~hostError
    BY <1>0, <2>1 DEF FlowInv, Pending
  <2>3. ~halted => Idle
    BY <2>1 DEF FlowInv, FramesInv, FramesClear
  <2>4. Depth > 0 /\ Pops
    <3>1. CASE CaptureError
      <4>1. builtins # <<>> /\ Last(builtins).owner + 1 = Depth
        BY <3>1 DEF CaptureError, Captured, CalledBack
      <4>2. Depth > 0
        BY <1>0, <4>1, TopFrameLemma
      <4> QED
        BY <3>1, <4>2 DEF CaptureError, Pops
    <3>2. CASE UnwindCall
      BY <3>2 DEF UnwindCall, Pops
    <3> QED
      BY <1>2, <3>1, <3>2
  <2>5. \/ /\ error' = "none"
           /\ builtins' = IF CalledBack THEN Answered ELSE builtins
        \/ /\ error' = error
           /\ builtins' = IF CalledBack THEN Front(builtins) ELSE builtins
    BY <1>2 DEF CaptureError, UnwindCall, Captured, control
  <2>6. Rises
    BY <2>4, RisesLemma
  <2>7. FlowInv' /\ builtins' \in Seq(BuiltinFrames)
    BY <2>1, <2>2, <2>3, <2>4, <2>5, <2>6, FlowRisesLemma
  <2>8. error' \in {"none", "user", "machine"}
    BY <1>0, <2>5
  <2> QED
    BY <1>0, <2>1, <2>7, <2>8 DEF TypeOK, FlowTyped
<1> QED
  BY <1>1, <1>2


\* Builtins, and the functions they call.
LEMMA FlowBuiltins ==
  ASSUME TypeOK, FlowInv,
         \/ \E code \in Codes : NativeCalls(code) \/ FrameCalls(code)
         \/ \E captures \in BOOLEAN : StartFrame(captures) \/ StartNative(captures)
         \/ NativeReturns \/ NativeFails
         \/ FrameCallsAtomic \/ FrameReads \/ FrameAcceptsInput
         \/ \E e \in {"none", "user"} : FrameEnds(e)
  PROVE  FlowInv' /\ FlowTyped
<1>0. /\ {coop, input, hostError, halted} \subseteq BOOLEAN
      /\ error \in {"none", "user", "machine"}
      /\ status \in {"ready", "running", "awaiting", "failed", "trapped"}
      /\ builtins \in Seq(BuiltinFrames) /\ natives \in Seq(Natives)
  BY DEF TypeOK
<1>1. ASSUME NEW code \in Codes, NativeCalls(code)
      PROVE  FlowInv' /\ FlowTyped
  <2>1. /\ InNative /\ error = "none" /\ Room /\ Called(code, NoModule, Here.lex)
        /\ UNCHANGED <<tries, unpacks, builtins, natives, coop, input, hostError, error, halted, status>>
    BY <1>1 DEF NativeCalls, control
  <2>2. Pushes(NoModule)
    BY <2>1, HereAfterLemma, PushesLemma
  <2>3. Deepens(NoModule)
    BY <2>2, DeepensLemma
  <2>4. FlowInv'
    BY <2>1, <2>3, FlowCalledLemma
  <2> QED
    BY <1>0, <2>1, <2>4, FlowKeptTypes
<1>2. ASSUME NEW code \in Codes, FrameCalls(code)
      PROVE  FlowInv' /\ FlowTyped
  <2>1. FlowInv'
    BY <1>2, FlowFrameCallsLemma
  <2>2. /\ UNCHANGED <<natives, coop, input, hostError, halted, status>>
        /\ error' \in {"none", "user", "machine"}
    BY <1>0, <1>2 DEF FrameCalls
  <2>3. builtins # <<>> /\ (Waits("call") \/ builtins' = Front(builtins))
    BY <1>2 DEF FrameCalls, FrameStep, Runnable, FrameHere
  <2>4. builtins' \in Seq(BuiltinFrames)
    BY <2>3, TopFrameLemma, WaitsLemma
  <2> QED
    BY <1>0, <2>1, <2>2, <2>4 DEF FlowTyped
<1>3. ASSUME NEW captures \in BOOLEAN, StartFrame(captures)
      PROVE  FlowInv' /\ FlowTyped
  <2>1. FlowInv' /\ builtins' \in Seq(BuiltinFrames)
    BY <1>3, FlowStartFrameLemma
  <2>2. UNCHANGED <<natives, coop, input, hostError, error, halted, status>>
    BY <1>3 DEF StartFrame, control
  <2> QED
    BY <1>0, <2>1, <2>2 DEF FlowTyped
<1>4. ASSUME NEW captures \in BOOLEAN, StartNative(captures)
      PROVE  FlowInv' /\ FlowTyped
  <2>1. /\ CanExecute /\ natives' = Append(natives, Native(captures, FALSE))
        /\ UNCHANGED <<tries, unpacks, builtins, coop, input, hostError, error, halted, status>>
    BY <1>4 DEF StartNative
  <2>2. Leaves
    BY <1>4, LeavesLemma DEF StartNative
  <2>3. InPlace
    BY <2>2, InPlaceLemma
  <2>4. FlowInv' /\ natives' \in Seq(Natives)
    BY <2>1, <2>3, CanExecuteLemma, FlowNativeLemma
  <2> QED
    BY <1>0, <2>1, <2>4 DEF FlowTyped
<1>5. CASE FrameCallsAtomic
  <2>1. /\ status = "running" /\ error = "none" /\ Interpreting /\ ~hostError /\ ~input /\ ~halted
        /\ FrameHere /\ Live
        /\ natives' = Append(natives, Native(FALSE, TRUE)) /\ coop' = FALSE /\ acts' = acts
        /\ UNCHANGED <<builtins, input, hostError, error, halted, status>>
    BY <1>5 DEF FrameCallsAtomic, FrameStep, Free, Loop, Runnable, Live
  <2>2. InPlace
    BY <2>1, InPlaceLemma
  <2>3. ~Idle
    BY <2>1, TopFrameLemma DEF Idle, FrameHere
  <2>4. FlowInv' /\ natives' \in Seq(Natives)
    BY <2>1, <2>2, <2>3, FlowNativeLemma
  <2> QED
    BY <1>0, <2>1, <2>4 DEF FlowTyped
<1>6. CASE FrameReads \/ FrameAcceptsInput
  <2>1. FlowInv'
    BY <1>6, FlowFrameReadsLemma
  <2>2. /\ UNCHANGED <<natives, coop, hostError, error, halted, status>>
        /\ input' \in BOOLEAN
    BY <1>0, <1>6 DEF FrameReads, FrameAcceptsInput, control
  <2>3. builtins # <<>> /\ (Waits("input") \/ Waits("none"))
    BY <1>6 DEF FrameReads, FrameAcceptsInput, FrameStep, Runnable, FrameHere
  <2>4. builtins' \in Seq(BuiltinFrames)
    BY <2>3, WaitsLemma
  <2> QED
    BY <1>0, <2>1, <2>2, <2>4 DEF FlowTyped
<1>7. ASSUME NEW e \in {"none", "user"}, FrameEnds(e)
      PROVE  FlowInv' /\ FlowTyped
  <2>1. /\ status = "running" /\ error = "none" /\ Interpreting /\ ~hostError /\ ~input /\ ~halted
        /\ FrameHere /\ Live
        /\ builtins' = Front(builtins) /\ error' = e
        /\ UNCHANGED <<acts, natives, coop, input, hostError, halted, status>>
    BY <1>7 DEF FrameEnds, FrameStep, Free, Loop, Runnable, Live
  <2>2. FlowInv'
    BY <2>1, FlowFrameEndedLemma
  <2>3. builtins' \in Seq(BuiltinFrames)
    BY <2>1, TopFrameLemma DEF FrameHere
  <2> QED
    BY <1>0, <2>1, <2>2, <2>3 DEF FlowTyped
<1>8. CASE NativeReturns \/ NativeFails
  <2>1. PICK e \in {"none", "user", "machine"} : InNative /\ NativeEnds(e)
    BY <1>0, <1>8 DEF NativeReturns, NativeFails
  <2>2. FlowInv' /\ natives' \in Seq(Natives) /\ builtins' \in Seq(BuiltinFrames)
    BY <2>1, FlowNativeEndsLemma
  <2>3. natives # <<>>
    BY <2>1 DEF InNative, Interpreting
  <2>4. Last(natives).coop \in BOOLEAN
    <3>1. Last(natives) \in Natives
      BY <1>0, <2>3, FrontLemma
    <3> QED
      BY <3>1 DEF Natives
  <2>5. coop' \in BOOLEAN /\ error' = e /\ UNCHANGED <<input, hostError, halted, status>>
    BY <2>1, <2>4 DEF NativeEnds
  <2> QED
    BY <1>0, <2>2, <2>5 DEF FlowTyped
<1> QED
  BY <1>1, <1>2, <1>3, <1>4, <1>5, <1>6, <1>7, <1>8

\* The host answers a request for a line.
LEMMA FlowResume ==
  ASSUME TypeOK, FlowInv, NEW ok \in BOOLEAN, ResumeInput(ok)
  PROVE  FlowInv' /\ FlowTyped
<1>0. /\ {coop, input, hostError, halted} \subseteq BOOLEAN
      /\ error \in {"none", "user", "machine"}
      /\ builtins \in Seq(BuiltinFrames) /\ natives \in Seq(Natives)
  BY DEF TypeOK
<1>1. /\ status = "awaiting" /\ Live /\ input' = FALSE /\ hostError' = ~ok /\ status' = "running"
      /\ builtins' = IF ~ok /\ FrameHere /\ Last(builtins).wait = "input"
                       THEN Front(builtins) ELSE builtins
      /\ UNCHANGED <<acts, natives, coop, error, halted>>
  BY DEF ResumeInput, Live
<1>2. input /\ error = "none" /\ Interpreting
  BY <1>1 DEF FlowInv, Pending
<1>3. CASE ~ok /\ FrameHere /\ Last(builtins).wait = "input"
  <2>1. builtins' = Front(builtins) /\ builtins # <<>>
    BY <1>1, <1>3 DEF FrameHere
  <2>2. FlowInv'
    BY <1>1, <1>2, <1>3, <2>1, FlowFrameEndedLemma
  <2> QED
    BY <1>0, <1>1, <2>1, <2>2, TopFrameLemma DEF FlowTyped
<1>4. CASE ~ (~ok /\ FrameHere /\ Last(builtins).wait = "input")
  <2>1. builtins' = builtins
    BY <1>1, <1>4
  <2>2. InPlace
    BY <1>1, InPlaceLemma
  <2>3. Interpreting'
    BY <1>1, <1>2, <2>2 DEF InPlace, Interpreting
  <2>4. Pending'
    BY <1>1, <1>2, <2>3 DEF Pending
  <2>5. ASSUME ~halted, hostError'
        PROVE  Idle
    <3> SUFFICES ASSUME NEW i \in DOMAIN builtins, builtins[i].owner = Depth
                 PROVE  FALSE
      BY DEF Idle
    <3>1. FramesInv
      BY <1>1, <2>5 DEF FlowInv
    <3>2. builtins[i].wait = "input"
      BY <1>2, <3>1 DEF FramesInv, FramesReading
    <3>3. FrameHere /\ i = Len(builtins)
      BY <3>1, FrameHereLemma DEF FramesInv
    <3>4. Last(builtins).wait = "input"
      BY <3>2, <3>3 DEF Last
    <3> QED
      BY <1>1, <1>4, <2>5, <3>3, <3>4
  <2>6. FlowInv'
    BY <1>1, <1>2, <2>1, <2>2, <2>4, <2>5, FlowQuietLemma
  <2> QED
    BY <1>0, <1>1, <2>1, <2>6 DEF FlowTyped
<1> QED
  BY <1>3, <1>4

\* Evaluations start and are cancelled, and the workspace is reset.
LEMMA FlowHost ==
  ASSUME TypeOK, FlowInv,
         \/ \E code \in Codes, mode \in Modes : Start(code, mode)
         \/ Cancel \/ ResetWorkspace
  PROVE  FlowInv' /\ FlowTyped
<1>1. Here.code \in Codes
  BY HereLemma DEF Activations
<1>2. (CHOOSE code \in Codes : TRUE) \in Codes
  BY <1>1
<1>3. /\ Resets /\ Clear /\ status' \in {"running", "ready"}
      /\ coop' \in BOOLEAN /\ halted' \in BOOLEAN
  BY <1>2, VmCallsAssumption
     DEF Start, Cancel, ResetWorkspace, ResetExecution, Clear, Resets, TypeOK
<1>4. FlowInv' /\ builtins' \in Seq(BuiltinFrames) /\ natives' \in Seq(Natives)
  BY <1>3, FlowClearLemma
<1> QED
  BY <1>3, <1>4 DEF Clear, FlowTyped

LEMMA FlowStepLemma ==
  ASSUME TypeOK, FlowInv, [Next]_vars
  PROVE  FlowInv' /\ FlowTyped
<1>1. CASE Execute
  BY <1>1, FlowInstructions, FlowQuietSteps, FlowEnds, FlowBuiltins DEF Execute
<1>2. CASE Host
  BY <1>2, FlowQuietSteps, FlowHost, FlowResume DEF Host
<1> QED
  BY <1>1, <1>2, FlowQuietSteps DEF Next

-----------------------------------------------------------------------------
(* The inductive invariant.                                                *)

IInv ==
  /\ TypeOK
  /\ ModulesInv
  /\ FlowInv
  /\ Live => TriesInv
  /\ ~Escapes /\ Live => SavesInv

LEMMA InitLemma ==
  ASSUME Init
  PROVE  IInv
<1>1. PICK code \in Codes : acts = Root(code)
  BY DEF Init
<1>2. acts \in Seq(Activations) /\ Len(acts) = 1 /\ acts[1].module = NoModule /\ DOMAIN acts = {1}
  BY <1>1, RootLemma
<1>3. /\ tries = <<>> /\ unpacks = <<>> /\ builtins = <<>> /\ natives = <<>> /\ loading = <<>>
      /\ status = "ready" /\ cache = [m \in Modules |-> "none"]
  BY DEF Init
<1>4. /\ DOMAIN builtins = {} /\ DOMAIN natives = {} /\ DOMAIN loading = {} /\ ~Live
  BY <1>3 DEF Live
<1>5. TypeOK
  <2>1. /\ <<>> \in Seq(TryFrames) /\ <<>> \in Seq(SavedValues) /\ <<>> \in Seq(BuiltinFrames)
        /\ <<>> \in Seq(Natives) /\ <<>> \in Seq(Modules)
    BY EmptySeq
  <2>2. Len(acts) \in 1 .. MaxDepth + 1
    BY <1>2, VmCallsAssumption
  <2> QED
    BY <1>2, <1>3, <2>1, <2>2 DEF TypeOK, Init
<1>6. ModulesInv
  <2>1. SameModules /\ SameOrder /\ CacheKnows
    BY <1>2, <1>3, <1>4 DEF SameModules, SameOrder, CacheKnows
  <2> QED
    BY <1>2, <1>5, <2>1, ModulesMatchLemma DEF ModulesInv, RootPlain, TypeOK
<1>7. FlowInv
  BY <1>4 DEF FlowInv, NativesInOrder, CallbackPlain
<1> QED
  BY <1>4, <1>5, <1>6, <1>7 DEF IInv

LEMMA StepLemma ==
  ASSUME IInv, [Next]_vars
  PROVE  IInv'
<1>1. TypeOK /\ ModulesInv /\ FlowInv /\ (Live => TriesInv) /\ (~Escapes /\ Live => SavesInv)
  BY DEF IInv
<1>2. StackStep
  BY <1>1, NextStackStep
<1>3. FlowInv' /\ FlowTyped
  BY <1>1, FlowStepLemma
<1>4. ModulesInv' /\ ModulesTyped
  BY <1>1, <1>2, ModulesStepLemma DEF FlowInv
<1>5. TypeOK'
  BY <1>1, <1>2, <1>3, <1>4, StackTypes DEF StackTyped, FlowTyped, ModulesTyped, TypeOK
<1>6. (Live => TriesInv)'
  BY <1>1, <1>2, TriesStepLemma
<1>7. ASSUME ~Escapes
      PROVE  (Live => SavesInv)'
  BY <1>1, <1>2, <1>7, SavesStepLemma
<1> QED
  BY <1>3, <1>4, <1>5, <1>6, <1>7 DEF IInv

LEMMA InvariantLemma == Spec => []IInv
  BY InitLemma, StepLemma, PTL DEF Spec

-----------------------------------------------------------------------------
(* What holds of every evaluation.                                         *)

\* The machine's state has its types: no stack is ever read below its end.
THEOREM TypeTheorem == Spec => []TypeOK
<1>1. IInv => TypeOK
  BY DEF IInv
<1> QED
  BY <1>1, InvariantLemma, PTL

\* The loading list, the cache and the builtin frames agree with the stack of
\* activations, whatever calls, errors and halts have done to it.
THEOREM StacksTheorem == Spec => []StacksMatch
<1>1. IInv => StacksMatch
  BY FramesMatchLemma DEF IInv, FlowInv, ModulesInv, StacksMatch
<1> QED
  BY <1>1, InvariantLemma, PTL

\* The try frames are those of the regions the activations are in, each of the
\* code that opened it.
THEOREM RegionsTheorem == Spec => []RegionsMatch
<1>1. IInv => RegionsMatch
  BY RegionsMatchLemma DEF IInv
<1> QED
  BY <1>1, InvariantLemma, PTL

\* Where no break or continue leaves a destructuring assignment, the saved
\* values are those of the assignments under way.
THEOREM UnpacksTheorem == ASSUME ~Escapes PROVE Spec => []UnpacksMatch
<1>1. IInv => UnpacksMatch
  BY UnpacksMatchLemma DEF IInv
<1> QED
  BY <1>1, InvariantLemma, PTL

-----------------------------------------------------------------------------
(* What the end of an evaluation leaves.                                   *)

\* The steps that end an evaluation.
LEMMA EndingLemma ==
  ASSUME [Next]_vars, ~Ended, Ended'
  PROVE  \/ (Return \/ HaltLeave) /\ Depth = 0
         \/ FailEvaluation
         \/ Cancel
<1>1. status' # status /\ status' # "running" /\ status' # "awaiting" /\ status' # "trapped"
  BY DEF Ended
<1>2. CASE Execute
  <2>1. CASE Return \/ HaltLeave
    BY <1>1, <2>1 DEF Return, HaltLeave, FinishCall
  <2>2. CASE FailEvaluation
    BY <2>2
  <2>3. ASSUME NEW code \in Codes, Call(code) \/ TailCall(code) \/ NativeCalls(code) \/ FrameCalls(code)
        PROVE  FALSE
    BY <1>1, <2>3 DEF Call, TailCall, NativeCalls, FrameCalls
  <2>4. CASE TryOpen \/ UnpackOpen \/ UnpackClose \/ FinishTry
    BY <1>1, <2>4 DEF TryOpen, UnpackOpen, UnpackClose, FinishTry
  <2>5. CASE \/ \E k \in 0 .. Len(Here.lex) - 1 : Jump(k)
             \/ \E e \in {"user", "machine"} : Raise(e)
             \/ \E m \in Modules : Import(m)
    BY <1>1, <2>5 DEF Jump, Raise, Import
  <2>6. CASE CatchTry \/ CaptureError \/ UnwindCall
    BY <1>1, <2>6 DEF CatchTry, CaptureError, UnwindCall, control
  <2>7. CASE \E captures \in BOOLEAN : StartFrame(captures) \/ StartNative(captures)
    BY <1>1, <2>7 DEF StartFrame, StartNative
  <2>8. CASE NativeReturns \/ NativeFails \/ NativeCaptures
    BY <1>1, <2>8 DEF NativeReturns, NativeFails, NativeCaptures, NativeEnds
  <2>9. CASE \/ FrameCallsAtomic \/ FrameReads \/ FrameAcceptsInput
             \/ \E e \in {"none", "user"} : FrameEnds(e)
    BY <1>1, <2>9 DEF FrameCallsAtomic, FrameReads, FrameAcceptsInput, FrameEnds
  <2>10. CASE Input \/ Suspend \/ RaiseHostError
    BY <1>1, <2>10 DEF Input, Suspend, RaiseHostError
  <2> QED
    BY <1>2, <2>1, <2>2, <2>3, <2>4, <2>5, <2>6, <2>7, <2>8, <2>9, <2>10 DEF Execute
<1>3. CASE Interrupt
  BY <1>1, <1>3 DEF Interrupt
<1>4. CASE Host
  <2>1. ~ \E code \in Codes, mode \in Modes : Start(code, mode)
    BY DEF Start
  <2>2. ~TakeHalt /\ ~ResetWorkspace
    BY DEF TakeHalt, ResetWorkspace
  <2>3. ~ \E ok \in BOOLEAN : ResumeInput(ok)
    BY <1>1 DEF ResumeInput
  <2> QED
    BY <1>4, <2>1, <2>2, <2>3 DEF Host
<1>5. CASE UNCHANGED vars
  BY <1>1, <1>5 DEF vars
<1> QED
  BY <1>2, <1>3, <1>4, <1>5 DEF Next

\* At the root, nothing is left of the calls that were made above it.
LEMMA BottomLemma ==
  ASSUME IInv, Live, Interpreting, Depth = 0
  PROVE  /\ Discarded = <<>> /\ natives = <<>> /\ loading = <<>>
         /\ ~halted /\ Idle => builtins = <<>>
<1>1. TypeOK /\ ModulesInv /\ FlowInv /\ TriesInv
  BY DEF IInv
<1>2. Discarded = <<>>
  <2>1. Kept \in 0 .. Len(tries)
    BY <1>1, KeptLemma
  <2>2. ASSUME Kept # 0
        PROVE  FALSE
    <3>1. Kept \in DOMAIN tries /\ Kept <= Kept
      BY <1>1, <2>1, <2>2, TriesLemma
    <3>2. tries[Kept].depth < Depth /\ tries[Kept].depth \in Nat
      BY <1>1, <3>1, KeptBelowLemma, TriesLemma
    <3> QED
      BY <3>2
  <2> QED
    BY <1>1, <2>1, <2>2, DiscardedLemma, EmptySeq
<1>3. natives = <<>>
  <2>1. ASSUME natives # <<>>
        PROVE  FALSE
    <3>1. Len(natives) \in DOMAIN natives
      BY <1>1, <2>1, NativesLemma, EmptySeq
    <3>2. natives[Len(natives)].stop < Depth
      BY <1>1, <3>1, InterpretingLemma DEF FlowInv
    <3> QED
      BY <1>1, <3>1, <3>2, NativesLemma
  <2> QED
    BY <2>1
<1>4. loading = <<>>
  <2>1. DOMAIN acts = {1}
    BY <1>1, HereLemma
  <2>2. ASSUME NEW i \in DOMAIN loading
        PROVE  FALSE
    <3>1. acts[1].module = loading[i]
      BY <1>1, <2>1, <2>2, ModulesNowLemma DEF SameModules
    <3>2. loading[i] \in Modules
      BY <1>1, <2>2, LoadingLemma
    <3> QED
      BY <1>1, <3>1, <3>2, VmCallsAssumption DEF ModulesInv, RootPlain
  <2> QED
    BY <1>1, <2>2, LoadingLemma, EmptySeq
<1>5. ASSUME ~halted, Idle, builtins # <<>>
      PROVE  FALSE
  <2>1. Len(builtins) \in DOMAIN builtins
    BY <1>1, <1>5, TopFrameLemma
  <2>2. builtins[Len(builtins)].owner \in Nat
    BY <1>1, <2>1, FramesLemma
  <2>3. builtins[Len(builtins)].owner <= Depth
    BY <1>1, <1>5, <2>1 DEF FlowInv, FramesInv, FramesWait
  <2>4. builtins[Len(builtins)].owner # Depth
    BY <1>5, <2>1 DEF Idle
  <2> QED
    BY <2>2, <2>3, <2>4
<1> QED
  BY <1>2, <1>3, <1>4, <1>5

LEMMA EndsCleanLemma ==
  ASSUME IInv, [Next]_vars, ~Ended, Ended'
  PROVE  /\ Depth' = 0 /\ tries' = <<>> /\ natives' = <<>> /\ loading' = <<>>
         /\ ~halted' => builtins' = <<>>
<1>1. TypeOK /\ FlowInv
  BY DEF IInv
<1>2. CASE (Return \/ HaltLeave) /\ Depth = 0
  <2>1. /\ Live /\ Interpreting
        /\ acts' = acts /\ tries' = Discarded
        /\ UNCHANGED <<natives, loading, builtins, halted>>
    BY <1>2 DEF Return, HaltLeave, FinishCall, CanExecute, Free, Loop, Live, control, modules
  <2>2. ~halted => Idle
    BY <1>1, <1>2, CanExecuteLemma DEF Return, HaltLeave
  <2> QED
    BY <1>2, <2>1, <2>2, BottomLemma DEF Depth
<1>3. CASE FailEvaluation
  <2>1. /\ Live /\ Interpreting /\ Depth = 0 /\ error # "none"
        /\ acts' = acts /\ tries' = Discarded
        /\ UNCHANGED <<natives, loading, builtins, halted>>
    BY <1>3 DEF FailEvaluation, Unwinding, Live, modules
  <2>2. ~halted => Idle
    BY <1>1, <2>1 DEF FlowInv, FramesInv, FramesClear
  <2> QED
    BY <2>1, <2>2, BottomLemma DEF Depth
<1>4. CASE Cancel
  <2>1. /\ tries' = <<>> /\ natives' = <<>> /\ loading' = <<>> /\ builtins' = <<>>
        /\ acts' = Root(CHOOSE code \in Codes : TRUE)
    BY <1>4 DEF Cancel, ResetExecution, Clear
  <2>2. Depth' = 0
    BY <2>1 DEF Depth, Root
  <2> QED
    BY <2>1, <2>2
<1> QED
  BY <1>2, <1>3, <1>4, EndingLemma

\* An evaluation ends, a stopped one included, with no activation but the root,
\* no try frame, no builtin that runs and no module half loaded; one that was
\* not stopped has no resumable builtin left either.
THEOREM EndsCleanTheorem == Spec => EndsClean
<1>1. ASSUME IInv, [Next]_vars
      PROVE  [~Ended /\ Ended' =>
                /\ Depth' = 0 /\ tries' = <<>> /\ natives' = <<>> /\ loading' = <<>>
                /\ ~halted' => builtins' = <<>>]_vars
  BY <1>1, EndsCleanLemma
<1> QED
  BY <1>1, InvariantLemma, PTL DEF Spec, EndsClean

-----------------------------------------------------------------------------
(* One stack out of five.                                                  *)

p ++ q == p \o q

\* What holds of 0, and of every number after one that it holds of, holds of all.
LEMMA InductionLemma ==
  ASSUME NEW T \in SUBSET Nat, 0 \in T, \A k \in T : k + 1 \in T
  PROVE  T = Nat
<1> SUFFICES ASSUME Nat \ T # {} PROVE FALSE
  OBVIOUS
<1>1. PICK x \in Nat \ T : \A y \in Nat \ T : x <= y
  <2>1. Nat \ T \in SUBSET Nat
    OBVIOUS
  <2> QED
    BY <2>1, LeastLemma
<1>2. x # 0 /\ x - 1 \in Nat /\ x - 1 + 1 = x
  BY <1>1
<1>3. x - 1 \in T
  BY <1>1, <1>2
<1> QED
  BY <1>1, <1>2, <1>3

\* The sequences are joined one after the other.
Joining(f, s, n) == f = [i \in 1 .. n |-> IF i = 1 THEN s[i] ELSE f[i - 1] ++ s[i]]

LEMMA JoiningLemma ==
  ASSUME NEW s, NEW n \in Nat
  PROVE  \E f : Joining(f, s, n)
<1> DEFINE T == {m \in Nat : \E f : Joining(f, s, m)}
<1>1. 0 \in T
  <2> DEFINE f == [i \in 1 .. 0 |-> s[i]]
  <2>1. f = [i \in 1 .. 0 |-> IF i = 1 THEN s[i] ELSE f[i - 1] ++ s[i]]
    OBVIOUS
  <2> HIDE DEF f
  <2>2. Joining(f, s, 0)
    BY <2>1 DEF Joining
  <2> QED
    BY <2>2
<1>2. ASSUME NEW m \in T PROVE m + 1 \in T
  <2>1. PICK f : Joining(f, s, m)
    OBVIOUS
  <2> DEFINE last == IF m = 0 THEN s[1] ELSE f[m] ++ s[m + 1]
             g == [i \in 1 .. m + 1 |-> IF i = m + 1 THEN last ELSE f[i]]
  <2>2. /\ m \in Nat
        /\ \A i \in 1 .. m : f[i] = IF i = 1 THEN s[i] ELSE f[i - 1] ++ s[i]
    BY <2>1 DEF Joining
  <2>3. /\ g = [i \in 1 .. m + 1 |-> g[i]]
        /\ g[m + 1] = last /\ \A i \in 1 .. m : g[i] = f[i]
    BY <2>2
  <2> HIDE DEF g
  <2>4. \A i \in 1 .. m + 1 : g[i] = IF i = 1 THEN s[i] ELSE g[i - 1] ++ s[i]
    <3> SUFFICES ASSUME NEW i \in 1 .. m + 1
                 PROVE  g[i] = IF i = 1 THEN s[i] ELSE g[i - 1] ++ s[i]
      OBVIOUS
    <3>1. CASE i # m + 1 /\ i = 1
      <4>1. i \in 1 .. m
        BY <2>2, <3>1
      <4> QED
        BY <2>2, <2>3, <3>1, <4>1
    <3>2. CASE i # m + 1 /\ i # 1
      <4>1. i \in 1 .. m /\ i - 1 \in 1 .. m
        BY <2>2, <3>2
      <4> QED
        BY <2>2, <2>3, <3>2, <4>1
    <3>3. CASE i = m + 1 /\ m = 0
      <4>1. i = 1
        BY <3>3
      <4> QED
        BY <2>3, <3>3, <4>1
    <3>4. CASE i = m + 1 /\ m # 0
      <4>1. i # 1 /\ i - 1 = m /\ m \in 1 .. m
        BY <2>2, <3>4
      <4> QED
        BY <2>3, <3>4, <4>1
    <3> QED
      BY <3>1, <3>2, <3>3, <3>4
  <2>5. Joining(g, s, m + 1)
    BY <2>3, <2>4 DEF Joining
  <2> QED
    BY <2>2, <2>5
<1> HIDE DEF T
<1>3. T \in SUBSET Nat
  BY DEF T
<1>4. T = Nat
  BY <1>1, <1>2, <1>3, InductionLemma
<1> QED
  BY <1>4 DEF T

\* FlattenSeq of a sequence that is not empty.
LEMMA FlattenLemma ==
  ASSUME NEW s, NEW n \in Nat \ {0}, Len(s) = n
  PROVE  \E f : Joining(f, s, n) /\ FlattenSeq(s) = f[n]
<1> DEFINE f == CHOOSE g : Joining(g, s, n)
<1>1. Joining(f, s, n)
  BY JoiningLemma
<1>2. FlattenSeq(s) = f[n]
  BY DEF FlattenSeq, Joining, ++
<1> QED
  BY <1>1, <1>2

\* The first sequences are joined as before.
LEMMA SameJoiningLemma ==
  ASSUME NEW s, NEW t, NEW n \in Nat, NEW m \in Nat, n <= m, \A i \in 1 .. n : t[i] = s[i],
         NEW f, Joining(f, s, n), NEW g, Joining(g, t, m)
  PROVE  \A i \in 1 .. n : g[i] = f[i]
<1>1. \A i \in 1 .. n : f[i] = IF i = 1 THEN s[i] ELSE f[i - 1] ++ s[i]
  BY DEF Joining
<1>2. \A i \in 1 .. n : g[i] = IF i = 1 THEN t[i] ELSE g[i - 1] ++ t[i]
  <2>1. \A i \in 1 .. m : g[i] = IF i = 1 THEN t[i] ELSE g[i - 1] ++ t[i]
    BY DEF Joining
  <2> QED
    BY <2>1
<1> DEFINE T == {i \in Nat : i \in 1 .. n => g[i] = f[i]}
<1>3. 0 \in T
  OBVIOUS
<1>4. ASSUME NEW k \in T PROVE k + 1 \in T
  <2>1. k \in Nat /\ (k \in 1 .. n => g[k] = f[k]) /\ k + 1 \in Nat
    OBVIOUS
  <2>2. ASSUME k + 1 \in 1 .. n
        PROVE  g[k + 1] = f[k + 1]
    <3>1. CASE k = 0
      <4>1. 1 \in 1 .. n /\ k + 1 = 1
        BY <2>2, <3>1
      <4>2. g[1] = t[1] /\ f[1] = s[1] /\ t[1] = s[1]
        BY <1>1, <1>2, <4>1
      <4> QED
        BY <4>1, <4>2
    <3>2. CASE k # 0
      <4>1. k \in 1 .. n /\ k + 1 # 1 /\ k + 1 - 1 = k
        BY <2>1, <2>2, <3>2
      <4>2. g[k + 1] = g[k] ++ t[k + 1] /\ f[k + 1] = f[k] ++ s[k + 1] /\ t[k + 1] = s[k + 1]
        BY <1>1, <1>2, <2>2, <4>1
      <4> QED
        BY <2>1, <4>1, <4>2
    <3> QED
      BY <3>1, <3>2
  <2> QED
    BY <2>1, <2>2
<1> HIDE DEF T
<1>5. T \in SUBSET Nat
  BY DEF T
<1>6. T = Nat
  BY <1>3, <1>4, <1>5, InductionLemma
<1> QED
  BY <1>6 DEF T

-----------------------------------------------------------------------------
(* Sequences of contexts.                                                  *)

LEMMA JoinLemma ==
  ASSUME NEW S, NEW p \in Seq(S), NEW q \in Seq(S)
  PROVE  /\ p ++ q \in Seq(S) /\ Len(p ++ q) = Len(p) + Len(q)
         /\ Len(p) \in Nat /\ Len(q) \in Nat
         /\ \A i \in 1 .. Len(p) : (p ++ q)[i] = p[i]
         /\ \A i \in 1 .. Len(q) : (p ++ q)[Len(p) + i] = q[i]
         /\ SubSeq(p ++ q, 1, Len(p)) = p
<1>1. Len(p) \in Nat /\ Len(q) \in Nat
  BY LenProperties
<1>2. /\ p \o q \in Seq(S) /\ Len(p \o q) = Len(p) + Len(q)
      /\ \A i \in 1 .. Len(p) + Len(q) : (p \o q)[i] = IF i <= Len(p) THEN p[i] ELSE q[i - Len(p)]
  BY ConcatProperties
<1> DEFINE r == p ++ q
<1>3. /\ r \in Seq(S) /\ Len(r) = Len(p) + Len(q)
      /\ \A i \in 1 .. Len(p) + Len(q) : r[i] = IF i <= Len(p) THEN p[i] ELSE q[i - Len(p)]
  BY <1>2 DEF ++
<1> HIDE DEF r
<1>4. \A i \in 1 .. Len(p) : r[i] = p[i]
  BY <1>1, <1>3
<1>5. \A i \in 1 .. Len(q) : r[Len(p) + i] = q[i]
  <2> SUFFICES ASSUME NEW i \in 1 .. Len(q)
               PROVE  r[Len(p) + i] = q[i]
    OBVIOUS
  <2>1. /\ Len(p) + i \in 1 .. Len(p) + Len(q) /\ ~ (Len(p) + i <= Len(p))
        /\ Len(p) + i - Len(p) = i
    BY <1>1
  <2> QED
    BY <1>3, <2>1
<1>6. SubSeq(r, 1, Len(p)) = p
  <2>1. Len(p) \in 0 .. Len(r)
    BY <1>1, <1>3
  <2>2. /\ SubSeq(r, 1, Len(p)) \in Seq(S) /\ Len(SubSeq(r, 1, Len(p))) = Len(p)
        /\ \A i \in 1 .. Len(p) : SubSeq(r, 1, Len(p))[i] = r[i]
    BY <1>3, <2>1, PrefixLemma
  <2> QED
    BY <1>4, <2>2, SeqEqual
<1> QED
  BY <1>1, <1>3, <1>4, <1>5, <1>6 DEF r

LEMMA JoinedLemma ==
  ASSUME NEW S, NEW p \in Seq(S), NEW q \in Seq(S), NEW r \in Seq(S)
  PROVE  /\ (p ++ q) ++ r = p ++ (q ++ r)
         /\ p ++ <<>> = p /\ <<>> ++ p = p
         /\ \A x \in S : Append(p, x) = p ++ <<x>>
  BY ConcatAssociative, ConcatEmptySeq, AppendIsConcat DEF ++

All == Stack!Contexts
Trying == Context("try")
Building == Context("builtin")

LEMMA ContextLemma ==
  /\ Trying \in All /\ Building \in All
  /\ Trying.kind = "try" /\ Trying.module = NoModule /\ Trying.captured = FALSE
  /\ Building.kind = "builtin" /\ Building.module = NoModule /\ Building.captured = FALSE
  BY DEF Trying, Building, Context, All, Stack!Contexts, Stack!Plain

LEMMA ContextsLemma ==
  ASSUME NEW kind \in {"try", "builtin"}, NEW n \in Nat
  PROVE  /\ Contexts(kind, n) \in Seq(All) /\ Len(Contexts(kind, n)) = n
         /\ \A i \in 1 .. n : Contexts(kind, n)[i] = Context(kind)
         /\ Contexts(kind, n + 1) = Contexts(kind, n) ++ <<Context(kind)>>
         /\ Contexts(kind, 0) = <<>>
<1>1. Context(kind) \in All
  BY ContextLemma DEF Trying, Building
<1>2. ASSUME NEW m \in Nat
      PROVE  /\ Contexts(kind, m) \in Seq(All) /\ Len(Contexts(kind, m)) = m
             /\ \A i \in 1 .. m : Contexts(kind, m)[i] = Context(kind)
  <2> DEFINE c == Contexts(kind, m)
  <2>1. c \in [1 .. m -> All] /\ \A i \in 1 .. m : c[i] = Context(kind)
    BY <1>1 DEF Contexts
  <2> HIDE DEF c
  <2>2. c \in Seq(All)
    BY <2>1, SeqDef
  <2>3. Len(c) = m
    BY <2>1, <2>2, LenProperties
  <2> QED
    BY <2>1, <2>2, <2>3 DEF c
<1>3. Contexts(kind, n + 1) = Append(Contexts(kind, n), Context(kind))
  <2> DEFINE c == Contexts(kind, n)
             d == Contexts(kind, n + 1)
  <2>1. /\ c \in Seq(All) /\ Len(c) = n /\ \A i \in 1 .. n : c[i] = Context(kind)
    BY <1>2
  <2>2. n + 1 \in Nat
    OBVIOUS
  <2>3. /\ d \in Seq(All) /\ Len(d) = n + 1 /\ \A i \in 1 .. n + 1 : d[i] = Context(kind)
    BY <1>2, <2>2
  <2> HIDE DEF c, d
  <2> DEFINE e == Append(c, Context(kind))
  <2>4. /\ e \in Seq(All) /\ Len(e) = n + 1
        /\ \A i \in 1 .. n : e[i] = c[i] /\ e[n + 1] = Context(kind)
        /\ e[n + 1] = Context(kind)
    BY <1>1, <2>1, AppendLemma
  <2> HIDE DEF e
  <2>5. \A i \in 1 .. n + 1 : e[i] = d[i]
    <3> SUFFICES ASSUME NEW i \in 1 .. n + 1
                 PROVE  e[i] = Context(kind)
      BY <2>3
    <3>1. i \in 1 .. n \/ i = n + 1
      OBVIOUS
    <3> QED
      BY <2>1, <2>4, <3>1
  <2>6. d = e
    BY <2>3, <2>4, <2>5, SeqEqual
  <2> QED
    BY <2>6 DEF c, d, e
<1>4. Contexts(kind, n + 1) = Contexts(kind, n) ++ <<Context(kind)>>
  BY <1>1, <1>2, <1>3, JoinedLemma
<1>5. Contexts(kind, 0) = <<>>
  BY <1>2, EmptySeq
<1> QED
  BY <1>2, <1>4, <1>5

\* A call, its try regions and its builtins.
Seg(c, t, b) == (<<c>> ++ Contexts("try", t)) ++ Contexts("builtin", b)

LEMMA OneLemma ==
  ASSUME NEW S, NEW x \in S
  PROVE  <<x>> \in Seq(S) /\ Len(<<x>>) = 1 /\ <<x>>[1] = x /\ <<x>> # <<>>
  OBVIOUS

LEMMA SegLemma ==
  ASSUME NEW c \in All, NEW t \in Nat, NEW b \in Nat
  PROVE  /\ Seg(c, t, b) \in Seq(All) /\ Len(Seg(c, t, b)) = 1 + t + b
         /\ Seg(c, t, b)[1] = c
         /\ \A i \in 2 .. 1 + t + b :
              \/ Seg(c, t, b)[i] = Trying /\ t > 0
              \/ Seg(c, t, b)[i] = Building /\ b > 0
         /\ Seg(c, t, b + 1) = Seg(c, t, b) ++ <<Building>>
         /\ Seg(c, t + 1, 0) = Seg(c, t, 0) ++ <<Trying>>
         /\ Seg(c, 0, 0) = <<c>>
<1>1. \A k \in {"try", "builtin"}, n \in Nat :
        /\ Contexts(k, n) \in Seq(All) /\ Len(Contexts(k, n)) = n
        /\ \A i \in 1 .. n : Contexts(k, n)[i] = Context(k)
        /\ Contexts(k, n + 1) = Contexts(k, n) ++ <<Context(k)>>
        /\ Contexts(k, 0) = <<>>
  BY ContextsLemma
<1>2. <<c>> \in Seq(All) /\ Len(<<c>>) = 1 /\ <<c>>[1] = c
  BY OneLemma
<1>3. <<Trying>> \in Seq(All) /\ <<Building>> \in Seq(All)
  BY ContextLemma, OneLemma
<1> DEFINE T == Contexts("try", t)
           B == Contexts("builtin", b)
           h == <<c>>
           q == h ++ T
           s == q ++ B
<1>4. T \in Seq(All) /\ Len(T) = t /\ \A i \in 1 .. t : T[i] = Trying
  BY <1>1 DEF Trying
<1>5. B \in Seq(All) /\ Len(B) = b /\ \A i \in 1 .. b : B[i] = Building
  BY <1>1 DEF Building
<1>a. h \in Seq(All) /\ Len(h) = 1 /\ h[1] = c
  BY <1>2
<1> HIDE DEF T, B, h
<1>6. /\ q \in Seq(All) /\ Len(q) = 1 + t /\ q[1] = c
      /\ \A i \in 1 .. t : q[1 + i] = Trying
  <2>1. /\ q \in Seq(All) /\ Len(q) = Len(h) + Len(T)
        /\ \A i \in 1 .. Len(h) : q[i] = h[i]
        /\ \A i \in 1 .. Len(T) : q[Len(h) + i] = T[i]
    <3>1. h \in Seq(All) /\ T \in Seq(All)
      BY <1>4, <1>a
    <3>2. /\ h ++ T \in Seq(All) /\ Len(h ++ T) = Len(h) + Len(T)
          /\ Len(h) \in Nat /\ Len(T) \in Nat
          /\ \A i \in 1 .. Len(h) : (h ++ T)[i] = h[i]
          /\ \A i \in 1 .. Len(T) : (h ++ T)[Len(h) + i] = T[i]
          /\ SubSeq(h ++ T, 1, Len(h)) = h
      BY <3>1, JoinLemma, Zenon
    <3> QED
      BY <3>2
  <2> QED
    <3>1. 1 \in 1 .. Len(h)
      BY <1>a
    <3> QED
      BY <1>4, <1>a, <2>1, <3>1
<1> HIDE DEF q
<1>7. /\ s \in Seq(All) /\ Len(s) = 1 + t + b
      /\ \A i \in 1 .. 1 + t : s[i] = q[i]
      /\ \A i \in 1 .. b : s[1 + t + i] = B[i]
  <2>1. /\ s \in Seq(All) /\ Len(s) = Len(q) + Len(B)
        /\ \A i \in 1 .. Len(q) : s[i] = q[i]
        /\ \A i \in 1 .. Len(B) : s[Len(q) + i] = B[i]
    <3>1. q \in Seq(All) /\ B \in Seq(All)
      BY <1>5, <1>6
    <3>2. /\ q ++ B \in Seq(All) /\ Len(q ++ B) = Len(q) + Len(B)
          /\ Len(q) \in Nat /\ Len(B) \in Nat
          /\ \A i \in 1 .. Len(q) : (q ++ B)[i] = q[i]
          /\ \A i \in 1 .. Len(B) : (q ++ B)[Len(q) + i] = B[i]
          /\ SubSeq(q ++ B, 1, Len(q)) = q
      BY <3>1, JoinLemma, Zenon
    <3> QED
      BY <3>2
  <2> QED
    BY <1>5, <1>6, <2>1
<1> HIDE DEF s
<1>8. s[1] = c
  BY <1>6, <1>7
<1>9. \A i \in 2 .. 1 + t + b : \/ s[i] = Trying /\ t > 0
                                \/ s[i] = Building /\ b > 0
  <2> SUFFICES ASSUME NEW i \in 2 .. 1 + t + b
               PROVE  \/ s[i] = Trying /\ t > 0
                      \/ s[i] = Building /\ b > 0
    OBVIOUS
  <2>1. CASE i <= 1 + t
    <3>1. i - 1 \in 1 .. t /\ 1 + (i - 1) = i /\ t > 0 /\ i \in 1 .. 1 + t
      BY <2>1
    <3> QED
      BY <1>6, <1>7, <3>1
  <2>2. CASE ~ (i <= 1 + t)
    <3>1. i - 1 - t \in 1 .. b /\ 1 + t + (i - 1 - t) = i /\ b > 0
      BY <2>2
    <3> QED
      BY <1>5, <1>7, <3>1
  <2> QED
    BY <2>1, <2>2
<1>10. Seg(c, t, b) = s
  BY DEF Seg, s, q, T, B, h
<1>11. Seg(c, t, b + 1) = Seg(c, t, b) ++ <<Building>>
  <2>1. Contexts("builtin", b + 1) = B ++ <<Building>>
    BY <1>1 DEF B, Building
  <2> DEFINE x == <<Building>>
  <2>2. x \in Seq(All)
    BY <1>3
  <2> HIDE DEF x
  <2>3. q ++ (B ++ x) = (q ++ B) ++ x
    BY <1>5, <1>6, <2>2, JoinedLemma
  <2>4. Seg(c, t, b + 1) = q ++ (B ++ <<Building>>)
    BY <2>1 DEF Seg, q, T, h
  <2> QED
    BY <1>10, <2>3, <2>4 DEF s, x
<1>12. Seg(c, t + 1, 0) = Seg(c, t, 0) ++ <<Trying>>
  <2>1. Contexts("try", t + 1) = T ++ <<Trying>>
    BY <1>1 DEF T, Trying
  <2> DEFINE x == <<Trying>>
             y == q ++ x
  <2>2. x \in Seq(All)
    BY <1>3
  <2> HIDE DEF x
  <2>3. h ++ (T ++ x) = y
    BY <1>4, <1>a, <2>2, JoinedLemma DEF q
  <2>4. Contexts("builtin", 0) = <<>>
    BY <1>1
  <2>5. y \in Seq(All)
    BY <1>6, <2>2, JoinLemma
  <2> HIDE DEF y
  <2>6. y ++ <<>> = y /\ q ++ <<>> = q
    BY <1>6, <2>5, JoinedLemma
  <2>7. Seg(c, t + 1, 0) = (h ++ (T ++ x)) ++ <<>>
    BY <2>1, <2>4 DEF Seg, h, x
  <2>8. Seg(c, t, 0) = q ++ <<>>
    BY <2>4 DEF Seg, q, T, h
  <2> QED
    BY <2>3, <2>6, <2>7, <2>8 DEF y, x
<1>13. Seg(c, 0, 0) = <<c>>
  <2>1. Contexts("try", 0) = <<>> /\ Contexts("builtin", 0) = <<>>
    BY <1>1
  <2>2. <<c>> ++ <<>> = <<c>>
    BY <1>2, JoinedLemma
  <2> QED
    BY <2>1, <2>2 DEF Seg
<1> QED
  BY <1>7, <1>8, <1>9, <1>10, <1>11, <1>12, <1>13

-----------------------------------------------------------------------------
(* The stack of contexts, from the five.                                   *)

Entry(a) == [kind |-> "call", module |-> acts[a].module, captured |-> Guarded(a)]
TryCount(a) == Cardinality(TriesOf(a))
BuiltinCount(a) == Cardinality(FramesOf(a)) + Cardinality(NativesOf(a))

LEMMA CountLemma ==
  ASSUME NEW S, NEW s \in Seq(S), NEW T \in SUBSET DOMAIN s
  PROVE  IsFiniteSet(T) /\ Cardinality(T) \in Nat
<1>1. DOMAIN s = 1 .. Len(s) /\ Len(s) \in Int /\ 1 \in Int
  BY LenProperties
<1>2. IsFiniteSet(DOMAIN s)
  BY <1>1, FS_Interval
<1>3. IsFiniteSet(T)
  BY <1>2, FS_Subset
<1> QED
  BY <1>3, FS_CardinalityType

LEMMA CountsLemma ==
  ASSUME TypeOK, NEW a
  PROVE  /\ IsFiniteSet(TriesOf(a)) /\ Cardinality(TriesOf(a)) \in Nat
         /\ IsFiniteSet(FramesOf(a)) /\ Cardinality(FramesOf(a)) \in Nat
         /\ IsFiniteSet(NativesOf(a)) /\ Cardinality(NativesOf(a)) \in Nat
         /\ TryCount(a) \in Nat /\ BuiltinCount(a) \in Nat
<1>1. /\ tries \in Seq(TryFrames) /\ builtins \in Seq(BuiltinFrames) /\ natives \in Seq(Natives)
  BY DEF TypeOK
<1>2. /\ TriesOf(a) \in SUBSET DOMAIN tries /\ FramesOf(a) \in SUBSET DOMAIN builtins
      /\ NativesOf(a) \in SUBSET DOMAIN natives
  BY DEF TriesOf, FramesOf, NativesOf
<1>3. IsFiniteSet(TriesOf(a)) /\ Cardinality(TriesOf(a)) \in Nat
  BY <1>1, <1>2, CountLemma
<1>4. IsFiniteSet(FramesOf(a)) /\ Cardinality(FramesOf(a)) \in Nat
  BY <1>1, <1>2, CountLemma
<1>5. IsFiniteSet(NativesOf(a)) /\ Cardinality(NativesOf(a)) \in Nat
  BY <1>1, <1>2, CountLemma
<1>6. TryCount(a) \in Nat /\ BuiltinCount(a) \in Nat
  BY <1>3, <1>4, <1>5 DEF TryCount, BuiltinCount
<1> QED
  BY <1>3, <1>4, <1>5, <1>6

LEMMA SegmentLemma ==
  ASSUME TypeOK, NEW a \in 1 .. Len(acts)
  PROVE  /\ Segment(a) = Seg(Entry(a), TryCount(a), BuiltinCount(a))
         /\ Segment(a) \in Seq(All)
         /\ Entry(a) \in All /\ Entry(a).kind = "call"
         /\ Entry(a).module = acts[a].module /\ Entry(a).captured = Guarded(a)
         /\ TryCount(a) \in Nat /\ BuiltinCount(a) \in Nat
<1>1. acts[a].module \in Modules \cup {NoModule}
  BY HereLemma DEF Activations
<1>2. Guarded(a) \in BOOLEAN
  BY DEF Guarded
<1>3. Entry(a) = Stack!Call(acts[a].module, Guarded(a))
  BY DEF Entry, Stack!Call
<1>4. Entry(a) \in All
  BY <1>1, <1>2, <1>3 DEF All, Stack!Contexts
<1>5. Segment(a) = Seg(Entry(a), TryCount(a), BuiltinCount(a))
  BY DEF Segment, Seg, Entry, TryCount, BuiltinCount, ++
<1>6. TryCount(a) \in Nat /\ BuiltinCount(a) \in Nat
  BY CountsLemma
<1>7. Segment(a) \in Seq(All)
  BY <1>4, <1>5, <1>6, SegLemma
<1> QED
  BY <1>4, <1>5, <1>6, <1>7 DEF Entry

SegmentsMade ==
  \A a \in 1 .. Len(acts) :
    /\ Segment(a) = Seg(Entry(a), TryCount(a), BuiltinCount(a))
    /\ Entry(a) \in All /\ TryCount(a) \in Nat /\ BuiltinCount(a) \in Nat

LEMMA SegmentsMadeLemma == TypeOK => SegmentsMade
  BY SegmentLemma DEF SegmentsMade

Segments(n) == [a \in 1 .. n |-> Segment(a)]
Under(n) == FlattenSeq(Segments(n))

LEMMA SegmentsLemma ==
  ASSUME TypeOK, NEW n \in 0 .. Len(acts)
  PROVE  /\ Segments(n) \in Seq(Seq(All)) /\ Len(Segments(n)) = n
         /\ \A a \in 1 .. n : Segments(n)[a] = Segment(a)
<1> DEFINE s == Segments(n)
<1>1. \A a \in 1 .. n : Segment(a) \in Seq(All)
  BY HereLemma, SegmentLemma
<1>2. s \in [1 .. n -> Seq(All)] /\ \A a \in 1 .. n : s[a] = Segment(a)
  BY <1>1 DEF Segments
<1> HIDE DEF s
<1>3. n \in Nat
  BY HereLemma
<1>4. s \in Seq(Seq(All))
  BY <1>2, <1>3, SeqDef
<1>5. Len(s) = n
  BY <1>2, <1>3, <1>4, LenProperties
<1> QED
  BY <1>2, <1>4, <1>5 DEF s

LEMMA UnderLemma ==
  ASSUME TypeOK
  PROVE  /\ Under(0) = <<>>
         /\ \A n \in 0 .. Len(acts) : Under(n) \in Seq(All)
         /\ \A n \in 1 .. Len(acts) : Under(n) = Under(n - 1) ++ Segment(n)
<1>1. Len(acts) \in Nat
  BY HereLemma
<1>2. Under(0) = <<>>
  <2> DEFINE s == Segments(0)
  <2>1. s \in Seq(Seq(All)) /\ Len(s) = 0
    BY <1>1, SegmentsLemma
  <2> HIDE DEF s
  <2>2. s = <<>>
    BY <2>1, EmptySeq
  <2>3. FlattenSeq(s) = s
    BY <2>1 DEF FlattenSeq
  <2> QED
    BY <2>2, <2>3 DEF Under, s
<1>3. ASSUME NEW n \in 1 .. Len(acts), n = 1
      PROVE  Under(n) = Segment(n)
  <2> DEFINE s == Segments(n)
  <2>1. n \in 0 .. Len(acts) /\ n \in Nat \ {0} /\ n \in 1 .. n
    BY <1>1, <1>3
  <2>2. Len(s) = n /\ \A a \in 1 .. n : s[a] = Segment(a)
    BY <2>1, SegmentsLemma
  <2> HIDE DEF s
  <2>3. PICK f : Joining(f, s, n) /\ FlattenSeq(s) = f[n]
    BY <2>1, <2>2, FlattenLemma
  <2>4. f[n] = s[n]
    BY <1>3, <2>1, <2>3 DEF Joining
  <2> QED
    BY <2>1, <2>2, <2>3, <2>4 DEF Under, s
<1>4. ASSUME NEW n \in 1 .. Len(acts), n # 1
      PROVE  Under(n) = Under(n - 1) ++ Segment(n)
  <2> DEFINE m == n - 1
             s == Segments(m)
             t == Segments(n)
  <2>1. m \in Nat \ {0} /\ m \in 0 .. Len(acts) /\ n \in 0 .. Len(acts) /\ n = m + 1
        /\ n \in Nat \ {0} /\ m <= n
    BY <1>1, <1>4
  <2> HIDE DEF m
  <2>2. Len(s) = m /\ \A a \in 1 .. m : s[a] = Segment(a)
    BY <2>1, SegmentsLemma
  <2>3. Len(t) = n /\ \A a \in 1 .. n : t[a] = Segment(a)
    BY <2>1, SegmentsLemma
  <2> HIDE DEF s, t
  <2>4. PICK f : Joining(f, s, m) /\ FlattenSeq(s) = f[m]
    BY <2>1, <2>2, FlattenLemma
  <2>5. PICK g : Joining(g, t, n) /\ FlattenSeq(t) = g[n]
    BY <2>1, <2>3, FlattenLemma
  <2>6. \A i \in 1 .. m : t[i] = s[i]
    BY <2>1, <2>2, <2>3
  <2>7. \A i \in 1 .. m : g[i] = f[i]
    <3>1. m \in Nat /\ n \in Nat /\ m <= n /\ Joining(f, s, m) /\ Joining(g, t, n)
      BY <2>1, <2>4, <2>5
    <3> QED
      BY <2>6, <3>1, SameJoiningLemma
  <2>8. n \in 1 .. n /\ n # 1 /\ n - 1 = m /\ m \in 1 .. m
    BY <1>4, <2>1
  <2>9. g[n] = g[m] ++ t[n]
    BY <2>5, <2>8 DEF Joining
  <2>10. FlattenSeq(t) = FlattenSeq(s) ++ Segment(n)
    BY <2>3, <2>4, <2>5, <2>7, <2>8, <2>9
  <2> QED
    BY <2>10 DEF Under, s, t, m
<1>5. ASSUME NEW n \in 1 .. Len(acts)
      PROVE  Segment(n) \in Seq(All) /\ <<>> ++ Segment(n) = Segment(n)
  BY SegmentLemma, JoinedLemma
<1>6. \A n \in 1 .. Len(acts) : Under(n) = Under(n - 1) ++ Segment(n)
  <2> SUFFICES ASSUME NEW n \in 1 .. Len(acts)
               PROVE  Under(n) = Under(n - 1) ++ Segment(n)
    OBVIOUS
  <2>1. CASE n = 1
    <3>1. n - 1 = 0
      BY <2>1
    <3> QED
      BY <1>2, <1>3, <1>5, <2>1, <3>1
  <2> QED
    BY <1>4, <2>1
<1>7. \A n \in 0 .. Len(acts) : Under(n) \in Seq(All)
  <2> DEFINE T == {n \in Nat : n <= Len(acts) => Under(n) \in Seq(All)}
  <2>1. 0 \in T
    BY <1>2, EmptySeq
  <2>2. ASSUME NEW n \in T PROVE n + 1 \in T
    <3>1. n \in Nat /\ n + 1 \in Nat
      OBVIOUS
    <3>2. ASSUME n + 1 <= Len(acts)
          PROVE  Under(n + 1) \in Seq(All)
      <4>1. Under(n) \in Seq(All) /\ n + 1 \in 1 .. Len(acts) /\ n + 1 - 1 = n
        BY <1>1, <2>2, <3>1, <3>2
      <4>2. Segment(n + 1) \in Seq(All) /\ Under(n + 1) = Under(n) ++ Segment(n + 1)
        BY <1>6, <4>1, SegmentLemma
      <4> QED
        BY <4>1, <4>2, JoinLemma
    <3> QED
      BY <3>1, <3>2
  <2> HIDE DEF T
  <2>3. T \in SUBSET Nat
    BY DEF T
  <2>4. T = Nat
    BY <2>1, <2>2, <2>3, InductionLemma
  <2> QED
    BY <1>1, <2>4 DEF T
<1> QED
  BY <1>2, <1>6, <1>7

\* What is above the activations below, as the running activation made it.
LEMMA OneStackLemma ==
  ASSUME TypeOK
  PROVE  /\ Ended => OneStack = <<>>
         /\ ~Ended => OneStack = Under(Depth) ++ Segment(Depth + 1)
         /\ Under(Depth) \in Seq(All) /\ Segment(Depth + 1) \in Seq(All)
         /\ OneStack \in Seq(All)
         /\ Depth > 0 => /\ Under(Depth) = Under(Depth - 1) ++ Segment(Depth)
                         /\ Under(Depth - 1) \in Seq(All) /\ Segment(Depth) \in Seq(All)
         /\ Depth = 0 => Under(Depth) = <<>>
<1>1. Depth \in Nat /\ Len(acts) = Depth + 1
  BY HereLemma, VmCallsAssumption
<1>2. Depth + 1 \in 1 .. Len(acts) /\ Depth + 1 - 1 = Depth /\ Depth \in 0 .. Len(acts)
  BY <1>1
<1>3. Ended => OneStack = <<>>
  BY DEF OneStack
<1>4. ~Ended => OneStack = Under(Len(acts))
  BY DEF OneStack, Under, Segments
<1>5. Under(Len(acts)) = Under(Depth) ++ Segment(Depth + 1)
  BY <1>1, <1>2, UnderLemma
<1>6. Under(Depth) \in Seq(All) /\ Segment(Depth + 1) \in Seq(All) /\ Under(Len(acts)) \in Seq(All)
  BY <1>1, <1>2, UnderLemma, SegmentLemma
<1>7. OneStack \in Seq(All)
  BY <1>3, <1>4, <1>6, EmptySeq
<1>8. ASSUME Depth > 0
      PROVE  /\ Under(Depth) = Under(Depth - 1) ++ Segment(Depth)
             /\ Under(Depth - 1) \in Seq(All) /\ Segment(Depth) \in Seq(All)
  <2>1. Depth \in 1 .. Len(acts) /\ Depth - 1 \in 0 .. Len(acts)
    BY <1>1, <1>8
  <2> QED
    BY <2>1, UnderLemma, SegmentLemma
<1> QED
  BY <1>3, <1>4, <1>5, <1>6, <1>7, <1>8, UnderLemma

-----------------------------------------------------------------------------
(* How the stack of contexts changes, and which steps of ControlStack      *)
(* that makes.                                                             *)

StackAt(n) ==
  /\ ~Ended => OneStack = Under(n) ++ Segment(n + 1)
  /\ Under(n) \in Seq(All) /\ Segment(n + 1) \in Seq(All) /\ OneStack \in Seq(All)
  /\ n > 0 => /\ Under(n) = Under(n - 1) ++ Segment(n)
              /\ Under(n - 1) \in Seq(All) /\ Segment(n) \in Seq(All)
  /\ n = 0 => Under(n) = <<>>

StackIs == \A n : n = Depth => StackAt(n)

LEMMA StackIsLemma == TypeOK => StackIs
  BY OneStackLemma DEF StackAt, StackIs

LEMMA StackAtLemma ==
  ASSUME TypeOK, NEW n, n = Depth
  PROVE  StackAt(n)
  BY StackIsLemma DEF StackIs

LEMMA StackAtNextLemma ==
  ASSUME TypeOK', NEW n, n = Depth'
  PROVE  StackAt(n)'
<1>1. (TypeOK => StackIs)'
  BY StackIsLemma, PTL
<1>2. \A m : m = Depth' => StackAt(m)'
  BY <1>1 DEF StackIs
<1> QED
  BY <1>2

SamePart(n) == \A a \in 1 .. n : Segment(a)' = Segment(a)

LEMMA SameUnderLemma ==
  ASSUME NEW n, SamePart(n)
  PROVE  Under(n)' = Under(n)
<1>1. Segments(n)' = Segments(n)
  BY DEF Segments, SamePart
<1> QED
  BY <1>1 DEF Under

LEMMA SameStackLemma ==
  ASSUME TypeOK, TypeOK', ~Ended, ~Ended', Depth' = Depth, SamePart(Depth + 1)
  PROVE  OneStack' = OneStack /\ OneStack \in Seq(All)
<1>1. PICK n : n = Depth
  OBVIOUS
<1>2. n \in Nat
  BY <1>1, HereLemma, VmCallsAssumption
<1>3. StackAt(n) /\ StackAt(n)'
  BY <1>1, StackAtLemma, StackAtNextLemma
<1>4. SamePart(n) /\ n + 1 \in 1 .. n + 1
  BY <1>1, <1>2 DEF SamePart
<1>5. Under(n)' = Under(n) /\ Segment(n + 1)' = Segment(n + 1)
  BY <1>1, <1>4, SameUnderLemma DEF SamePart
<1> QED
  BY <1>3, <1>5 DEF StackAt

LEMMA PushStackLemma ==
  ASSUME TypeOK, TypeOK', ~Ended, ~Ended', Depth' = Depth + 1, SamePart(Depth + 1),
         NEW n, n = Depth, NEW x \in All, Segment(n + 2)' = <<x>>
  PROVE  OneStack' = OneStack ++ <<x>> /\ OneStack \in Seq(All)
<1>1. n \in Nat /\ n + 1 + 1 = n + 2 /\ n + 1 - 1 = n /\ n + 1 > 0
  BY HereLemma, VmCallsAssumption
<1>2. StackAt(n) /\ StackAt(n + 1)'
  BY StackAtLemma, StackAtNextLemma
<1>3. SamePart(n) /\ n + 1 \in 1 .. n + 1
  BY <1>1 DEF SamePart
<1>4. Under(n)' = Under(n) /\ Segment(n + 1)' = Segment(n + 1)
  BY <1>3, SameUnderLemma DEF SamePart
<1>5. OneStack' = Under(n + 1)' ++ <<x>> /\ Under(n + 1)' = Under(n)' ++ Segment(n + 1)'
  BY <1>1, <1>2 DEF StackAt
<1> QED
  BY <1>2, <1>4, <1>5 DEF StackAt

\* The running activation enters or leaves a region or a builtin.
LEMMA TopStackLemma ==
  ASSUME TypeOK, TypeOK', ~Ended, ~Ended', Depth' = Depth, SamePart(Depth),
         NEW n, n = Depth, NEW x \in All
  PROVE  /\ OneStack \in Seq(All) /\ OneStack' \in Seq(All)
         /\ Segment(n + 1)' = Segment(n + 1) ++ <<x>> => OneStack' = OneStack ++ <<x>>
         /\ Segment(n + 1) = Segment(n + 1)' ++ <<x>> => OneStack = OneStack' ++ <<x>>
<1>1. StackAt(n) /\ StackAt(n)'
  BY StackAtLemma, StackAtNextLemma
<1>2. SamePart(n)
  BY DEF SamePart
<1>3. Under(n)' = Under(n)
  BY <1>2, SameUnderLemma
<1> DEFINE p == Under(n)
           q == Segment(n + 1)
           r == Segment(n + 1)'
           e == <<x>>
<1>4. /\ p \in Seq(All) /\ q \in Seq(All) /\ r \in Seq(All) /\ e \in Seq(All)
      /\ OneStack = p ++ q /\ OneStack' = p ++ r /\ OneStack \in Seq(All) /\ OneStack' \in Seq(All)
  BY <1>1, <1>3, OneLemma DEF StackAt
<1> HIDE DEF p, q, r, e
<1>5. (p ++ q) ++ e = p ++ (q ++ e) /\ (p ++ r) ++ e = p ++ (r ++ e)
  BY <1>4, JoinedLemma
<1>6. r = q ++ e => OneStack' = OneStack ++ e
  BY <1>4, <1>5
<1>7. q = r ++ e => OneStack = OneStack' ++ e
  BY <1>4, <1>5
<1> QED
  BY <1>4, <1>6, <1>7 DEF q, r, e

\* The running activation ends.
LEMMA PopStackLemma ==
  ASSUME TypeOK, TypeOK', ~Ended, ~Ended', Depth > 0, Depth' = Depth - 1,
         NEW n, n = Depth, SamePart(n)
  PROVE  /\ OneStack = OneStack' ++ Segment(n + 1)
         /\ OneStack' \in Seq(All) /\ OneStack' # <<>> /\ Segment(n + 1) \in Seq(All)
<1>1. n \in Nat /\ n - 1 + 1 = n /\ n \in 1 .. n
  BY HereLemma, VmCallsAssumption
<1>2. StackAt(n) /\ StackAt(n - 1)'
  BY StackAtLemma, StackAtNextLemma
<1>3. SamePart(n - 1)
  BY <1>1 DEF SamePart
<1>4. Under(n - 1)' = Under(n - 1) /\ Segment(n)' = Segment(n)
  BY <1>1, <1>3, SameUnderLemma DEF SamePart
<1>5. OneStack' = Under(n)
  BY <1>1, <1>2, <1>4 DEF StackAt
<1>6. OneStack' # <<>>
  <2>1. n \in 1 .. Len(acts)
    BY <1>1, HereLemma
  <2>2. /\ Segment(n) = Seg(Entry(n), TryCount(n), BuiltinCount(n)) /\ Entry(n) \in All
        /\ TryCount(n) \in Nat /\ BuiltinCount(n) \in Nat
    BY <2>1, SegmentLemma
  <2>3. Len(Segment(n)) = 1 + TryCount(n) + BuiltinCount(n)
    BY <2>2, SegLemma
  <2> DEFINE p == Under(n - 1)
             q == Segment(n)
  <2>4. p \in Seq(All) /\ q \in Seq(All) /\ OneStack' = p ++ q
    BY <1>1, <1>2, <1>5 DEF StackAt
  <2>5. Len(q) # 0
    BY <2>2, <2>3
  <2> HIDE DEF p, q
  <2>6. Len(p ++ q) = Len(p) + Len(q) /\ Len(p) \in Nat /\ Len(q) \in Nat
    BY <2>4, JoinLemma
  <2>7. Len(OneStack') # 0
    BY <2>4, <2>5, <2>6
  <2> QED
    BY <2>7, EmptySeq
<1> QED
  BY <1>2, <1>5, <1>6 DEF StackAt

\* The running activation ends, and the builtin that called it.
LEMMA PopTwoStackLemma ==
  ASSUME TypeOK, TypeOK', ~Ended, ~Ended', Depth > 0, Depth' = Depth - 1,
         NEW n, n = Depth, SamePart(n - 1), NEW x \in All, Segment(n) = Segment(n)' ++ <<x>>
  PROVE  /\ OneStack = OneStack' ++ (<<x>> ++ Segment(n + 1))
         /\ OneStack' \in Seq(All) /\ OneStack' # <<>> /\ Segment(n + 1) \in Seq(All)
<1>1. n \in Nat /\ n - 1 + 1 = n /\ n - 1 \in Nat
  BY HereLemma, VmCallsAssumption
<1>2. StackAt(n) /\ StackAt(n - 1)'
  BY StackAtLemma, StackAtNextLemma
<1>3. Under(n - 1)' = Under(n - 1)
  BY SameUnderLemma
<1> DEFINE p == Under(n - 1)
           q == Segment(n)'
           r == Segment(n + 1)
           e == <<x>>
<1>4. /\ p \in Seq(All) /\ q \in Seq(All) /\ r \in Seq(All) /\ e \in Seq(All)
      /\ OneStack = (p ++ (q ++ e)) ++ r /\ OneStack' = p ++ q /\ OneStack' \in Seq(All)
  BY <1>1, <1>2, <1>3, OneLemma DEF StackAt
<1>5. Len(q) \in Nat \ {0}
  <2>1. (TypeOK => SegmentsMade)'
    BY SegmentsMadeLemma, PTL
  <2>2. n \in 1 .. Len(acts')
    BY <1>1, HereLemma DEF Depth
  <2> DEFINE c == Entry(n)'
             t == TryCount(n)'
             b == BuiltinCount(n)'
  <2>3. Segment(n)' = Seg(c, t, b) /\ c \in All /\ t \in Nat /\ b \in Nat
    BY <2>1, <2>2 DEF SegmentsMade
  <2> HIDE DEF c, t, b
  <2>4. Len(Seg(c, t, b)) = 1 + t + b
    BY <2>3, SegLemma
  <2> QED
    BY <2>3, <2>4
<1> HIDE DEF p, q, r, e
<1>6. (p ++ q) ++ e = p ++ (q ++ e)
  BY <1>4, JoinedLemma
<1>7. p ++ q \in Seq(All) /\ Len(p ++ q) = Len(p) + Len(q) /\ Len(p) \in Nat
  BY <1>4, JoinLemma
<1>8. ((p ++ q) ++ e) ++ r = (p ++ q) ++ (e ++ r)
  BY <1>4, <1>7, JoinedLemma
<1>9. Len(OneStack') # 0
  BY <1>4, <1>5, <1>7
<1>10. OneStack' # <<>>
  BY <1>9, EmptySeq
<1>11. OneStack = OneStack' ++ (e ++ r)
  BY <1>4, <1>6, <1>8
<1> QED
  BY <1>4, <1>10, <1>11 DEF e, r

-----------------------------------------------------------------------------
(* Steps of ControlStack.                                                  *)

Going == ~halted /\ ~halted'
Settled(m, entry) == cache' = [k \in Modules |-> IF k = m THEN entry ELSE cache[k]]

LEMMA OpenStep ==
  ASSUME Going, Thrown = "none", Thrown' = "none",
         NEW x \in All, OneStack \in Seq(All), OneStack' = OneStack ++ <<x>>,
         x.module # NoModule => cache[x.module] = "none",
         Settled(x.module, "loading")
  PROVE  Stack!Next
<1>1. OneStack' = Append(OneStack, x)
  BY JoinedLemma
<1>2. cache' = Stack!Settle({x.module}, "loading")
  BY DEF Settled, Stack!Settle
<1>3. Stack!Open(x)
  BY <1>1, <1>2 DEF Stack!Open
<1>4. x \in Stack!Contexts
  BY DEF All
<1> QED
  BY <1>3, <1>4 DEF Stack!Next, Going

\* What is above a part of the stack.
LEMMA AboveLemma ==
  ASSUME NEW p \in Seq(All), NEW q \in Seq(All), Len(q) > 0, OneStack = p ++ q
  PROVE  /\ Len(p) \in 0 .. Len(OneStack) - 1 /\ Len(p) + 1 \in 1 .. Len(OneStack)
         /\ Len(p) + 1 - 1 = Len(p) /\ Len(p) \in Nat
         /\ Len(OneStack) = Len(p) + Len(q)
         /\ Stack!Down(Len(p)) = p
         /\ \A c \in Stack!Above(Len(p)) : \E i \in 1 .. Len(q) : c = q[i]
         /\ \A i \in 1 .. Len(q) : q[i] \in Stack!Above(Len(p)) /\ OneStack[Len(p) + i] = q[i]
<1>1. /\ p ++ q \in Seq(All) /\ Len(p ++ q) = Len(p) + Len(q)
      /\ Len(p) \in Nat /\ Len(q) \in Nat
      /\ \A i \in 1 .. Len(p) : (p ++ q)[i] = p[i]
      /\ \A i \in 1 .. Len(q) : (p ++ q)[Len(p) + i] = q[i]
      /\ SubSeq(p ++ q, 1, Len(p)) = p
  BY JoinLemma, Zenon
<1>2. /\ Len(OneStack) = Len(p) + Len(q) /\ Len(p) \in Nat /\ Len(q) \in Nat
      /\ \A i \in 1 .. Len(q) : OneStack[Len(p) + i] = q[i]
      /\ SubSeq(OneStack, 1, Len(p)) = p
  BY <1>1
<1>3. /\ Len(p) \in 0 .. Len(OneStack) - 1 /\ Len(p) + 1 \in 1 .. Len(OneStack)
      /\ Len(p) + 1 - 1 = Len(p)
  BY <1>2
<1>4. \A i \in 1 .. Len(q) : Len(p) + i \in Len(p) + 1 .. Len(OneStack)
  BY <1>2
<1>5. \A i \in Len(p) + 1 .. Len(OneStack) : i - Len(p) \in 1 .. Len(q) /\ Len(p) + (i - Len(p)) = i
  BY <1>2
<1>6. \A i \in 1 .. Len(q) : q[i] \in Stack!Above(Len(p))
  BY <1>2, <1>4 DEF Stack!Above
<1>7. ASSUME NEW c \in Stack!Above(Len(p))
      PROVE  \E i \in 1 .. Len(q) : c = q[i]
  <2>1. PICK i \in Len(p) + 1 .. Len(OneStack) : c = OneStack[i]
    BY DEF Stack!Above
  <2>2. i - Len(p) \in 1 .. Len(q) /\ c = q[i - Len(p)]
    BY <1>2, <1>5, <2>1
  <2> QED
    BY <2>2
<1> QED
  BY <1>2, <1>3, <1>6, <1>7 DEF Stack!Down

\* The modules of what is above.
LEMMA SettleLemma ==
  ASSUME NEW p \in Seq(All), NEW q \in Seq(All), Len(q) > 0, OneStack = p ++ q,
         NEW m, \A i \in 1 .. Len(q) : q[i].module \in {m, NoModule},
         m # NoModule => \E i \in 1 .. Len(q) : q[i].module = m,
         NEW entry, Settled(m, entry)
  PROVE  cache' = Stack!Settle(Stack!ModulesIn(Stack!Above(Len(p))), entry)
<1> DEFINE A == Stack!Above(Len(p))
<1>1. /\ \A c \in A : \E i \in 1 .. Len(q) : c = q[i]
      /\ \A i \in 1 .. Len(q) : q[i] \in A
  BY AboveLemma
<1> HIDE DEF A
<1>2. \A k \in Modules : k \in Stack!ModulesIn(A) <=> k = m
  <2> SUFFICES ASSUME NEW k \in Modules
               PROVE  k \in Stack!ModulesIn(A) <=> k = m
    OBVIOUS
  <2>1. k # NoModule
    BY VmCallsAssumption
  <2>2. ASSUME k \in Stack!ModulesIn(A)
        PROVE  k = m
    <3>1. PICK c \in A : k = c.module
      BY <2>2 DEF Stack!ModulesIn
    <3> QED
      BY <1>1, <2>1, <3>1
  <2>3. ASSUME k = m
        PROVE  k \in Stack!ModulesIn(A)
    BY <1>1, <2>1, <2>3 DEF Stack!ModulesIn
  <2> QED
    BY <2>2, <2>3
<1>3. cache' = Stack!Settle(Stack!ModulesIn(A), entry)
  BY <1>2 DEF Settled, Stack!Settle
<1> QED
  BY <1>3 DEF A

LEMMA LeaveStep ==
  ASSUME Going, Thrown = "none", Thrown' = "none",
         NEW p \in Seq(All), NEW q \in Seq(All), Len(q) > 0, OneStack = p ++ q, OneStack' = p,
         \A i \in 2 .. Len(q) : q[i].kind # "call",
         NEW m, \A i \in 1 .. Len(q) : q[i].module \in {m, NoModule},
         m # NoModule => \E i \in 1 .. Len(q) : q[i].module = m,
         Settled(m, "loaded")
  PROVE  Stack!Next
<1> DEFINE k == Len(p)
<1>1. /\ k \in 0 .. Len(OneStack) - 1 /\ k \in Nat /\ Stack!Down(k) = p
      /\ Len(OneStack) = k + Len(q) /\ Len(q) \in Nat
      /\ \A i \in 1 .. Len(q) : OneStack[k + i] = q[i]
  BY AboveLemma, LenProperties
<1>2. cache' = Stack!Settle(Stack!ModulesIn(Stack!Above(k)), "loaded")
  BY SettleLemma
<1> HIDE DEF k
<1>3. ASSUME NEW i \in k + 2 .. Len(OneStack)
      PROVE  OneStack[i].kind # "call"
  <2>1. i - k \in 2 .. Len(q) /\ i - k \in 1 .. Len(q) /\ k + (i - k) = i
    BY <1>1
  <2> QED
    BY <1>1, <2>1
<1>4. Stack!Leave(k)
  BY <1>1, <1>2, <1>3 DEF Stack!Leave
<1> QED
  BY <1>1, <1>4 DEF Stack!Next, Going

LEMMA UnwindStep ==
  ASSUME Going, Thrown # "none",
         NEW p \in Seq(All), NEW q \in Seq(All), Len(q) > 0, OneStack = p ++ q, OneStack' = p,
         Thrown' = IF p = <<>> THEN "none" ELSE Thrown,
         \A i \in 1 .. Len(q) : ~Stack!Handles(q[i], Thrown),
         NEW m, \A i \in 1 .. Len(q) : q[i].module \in {m, NoModule},
         m # NoModule => \E i \in 1 .. Len(q) : q[i].module = m,
         Settled(m, "none")
  PROVE  Stack!Next
<1> DEFINE k == Len(p)
<1>1. /\ k \in 0 .. Len(OneStack) - 1 /\ Stack!Down(k) = p
      /\ \A c \in Stack!Above(k) : \E i \in 1 .. Len(q) : c = q[i]
  BY AboveLemma
<1>2. cache' = Stack!Settle(Stack!ModulesIn(Stack!Above(k)), "none")
  BY SettleLemma
<1>3. k = 0 <=> p = <<>>
  BY EmptySeq
<1> HIDE DEF k
<1>4. \A c \in Stack!Above(k) : ~Stack!Handles(c, Thrown)
  BY <1>1
<1>5. Thrown' = IF k = 0 THEN "none" ELSE Thrown
  BY <1>3
<1>6. Stack!Unwind(k)
  BY <1>1, <1>2, <1>4, <1>5 DEF Stack!Unwind
<1> QED
  BY <1>1, <1>6 DEF Stack!Next, Going

LEMMA HandleStep ==
  ASSUME Going, Thrown # "none", Thrown' = "none",
         NEW p \in Seq(All), NEW q \in Seq(All), Len(q) > 0, OneStack = p ++ q, OneStack' = p,
         Stack!Handles(q[1], Thrown),
         \A i \in 2 .. Len(q) : ~Stack!Handles(q[i], Thrown),
         \A i \in 1 .. Len(q) : q[i].module = NoModule, UNCHANGED cache, TypeOK
  PROVE  Stack!Next
<1> DEFINE k == Len(p) + 1
<1>1. /\ k \in 1 .. Len(OneStack) /\ k \in Nat /\ k - 1 = Len(p) /\ Stack!Down(k - 1) = p
      /\ Len(OneStack) = k - 1 + Len(q) /\ Len(q) \in Nat
      /\ \A i \in 1 .. Len(q) : OneStack[k - 1 + i] = q[i]
  BY AboveLemma, LenProperties
<1> HIDE DEF k
<1>2. OneStack[k] = q[1]
  <2>1. 1 \in 1 .. Len(q) /\ k - 1 + 1 = k
    BY <1>1
  <2> QED
    BY <1>1, <2>1
<1>3. \A i \in k + 1 .. Len(OneStack) : /\ i - (k - 1) \in 2 .. Len(q) /\ i - (k - 1) \in 1 .. Len(q)
                                        /\ k - 1 + (i - (k - 1)) = i
  BY <1>1
<1>4. \A c \in Stack!Above(k) : \E i \in 2 .. Len(q) : c = q[i]
  <2> SUFFICES ASSUME NEW c \in Stack!Above(k)
               PROVE  \E i \in 2 .. Len(q) : c = q[i]
    OBVIOUS
  <2>1. PICK i \in k + 1 .. Len(OneStack) : c = OneStack[i]
    BY DEF Stack!Above
  <2>2. i - (k - 1) \in 2 .. Len(q) /\ c = q[i - (k - 1)]
    BY <1>1, <1>3, <2>1
  <2> QED
    BY <2>2
<1>5. cache' = Stack!Settle(Stack!ModulesIn(Stack!Above(k)), "none")
  <2>1. \A c \in Stack!Above(k) : c.module = NoModule
    <3>1. \A i \in 2 .. Len(q) : i \in 1 .. Len(q)
      BY <1>1
    <3> QED
      BY <1>4, <3>1
  <2>2. Stack!ModulesIn(Stack!Above(k)) = {}
    BY <2>1 DEF Stack!ModulesIn
  <2>3. cache' = [j \in Modules |-> cache[j]]
    BY DEF TypeOK
  <2> QED
    BY <2>2, <2>3 DEF Stack!Settle
<1>6. Stack!Handle(k)
  BY <1>1, <1>2, <1>4, <1>5 DEF Stack!Handle
<1> QED
  BY <1>1, <1>6 DEF Stack!Next, Going

LEMMA ThrowStep ==
  ASSUME Going, Thrown = "none", NEW e \in {"user", "machine"}, Thrown' = e,
         UNCHANGED cache, OneStack \in Seq(All), OneStack' \in Seq(All),
         OneStack' = OneStack \/ OneStack = OneStack' ++ <<Building>>
  PROVE  Stack!Next
<1>1. ASSUME OneStack = OneStack' ++ <<Building>>
      PROVE  /\ OneStack[Len(OneStack)].kind = "builtin"
             /\ OneStack' = Stack!Down(Len(OneStack) - 1)
  <2>1. <<Building>> \in Seq(All) /\ Len(<<Building>>) = 1 /\ <<Building>>[1] = Building
    BY ContextLemma, OneLemma
  <2> DEFINE q == <<Building>>
  <2>2. q \in Seq(All) /\ Len(q) = 1 /\ q[1] = Building /\ Len(q) > 0 /\ OneStack = OneStack' ++ q
    BY <1>1, <2>1
  <2> HIDE DEF q
  <2>3. /\ Len(OneStack) = Len(OneStack') + Len(q) /\ Stack!Down(Len(OneStack')) = OneStack'
        /\ \A i \in 1 .. Len(q) : OneStack[Len(OneStack') + i] = q[i]
        /\ Len(OneStack') \in Nat
    BY <2>2, AboveLemma
  <2>4. Len(OneStack) = Len(OneStack') + 1 /\ Len(OneStack) - 1 = Len(OneStack') /\ 1 \in 1 .. Len(q)
    BY <2>2, <2>3
  <2>5. OneStack[Len(OneStack)] = Building
    BY <2>2, <2>3, <2>4
  <2> QED
    BY <2>3, <2>4, <2>5, ContextLemma
<1>2. Stack!Throw(e)
  BY <1>1 DEF Stack!Throw
<1> QED
  BY <1>2 DEF Stack!Next, Going

LEMMA StopStep ==
  ASSUME halted'
  PROVE  Stack!Next
  BY DEF Stack!Next

LEMMA RestartStep ==
  ASSUME ~halted', Thrown' = "none",
         OneStack' \in {<<>>, <<Stack!Call(NoModule, FALSE)>>},
         cache' = [k \in Modules |-> IF cache[k] = "loading" THEN "none" ELSE cache[k]]
  PROVE  Stack!Next
<1>1. cache' = Stack!Settle({k \in Modules : cache[k] = "loading"}, "none")
  BY DEF Stack!Settle
<1>2. Stack!Restart
  BY <1>1 DEF Stack!Restart
<1> QED
  BY <1>2 DEF Stack!Next

LEMMA ReloadStep ==
  ASSUME ~halted', Thrown' = "none", OneStack' = <<>>, cache' = [k \in Modules |-> "none"]
  PROVE  Stack!Next
  BY DEF Stack!Next, Stack!Reload

-----------------------------------------------------------------------------
(* What changes in the segment of an activation.                           *)

FrameGuards(a) ==
  \E i \in DOMAIN builtins : /\ builtins[i].owner + 2 = a
                             /\ builtins[i].wait = "call" /\ builtins[i].captures
NativeGuards(a) ==
  \E k \in DOMAIN natives : natives[k].stop + 2 = a /\ natives[k].captures

LEMMA GuardedLemma == \A a : Guarded(a) <=> FrameGuards(a) \/ NativeGuards(a)
  BY DEF Guarded, FrameGuards, NativeGuards, Range

SameModule(a) == acts'[a].module = acts[a].module
SameTries(a) == TriesOf(a)' = TriesOf(a)
SameFrames(a) == FramesOf(a)' = FramesOf(a) /\ (FrameGuards(a)' <=> FrameGuards(a))
SameNatives(a) == NativesOf(a)' = NativesOf(a) /\ (NativeGuards(a)' <=> NativeGuards(a))
SameEntry(a) == /\ SameModule(a)
                /\ FrameGuards(a)' <=> FrameGuards(a)
                /\ NativeGuards(a)' <=> NativeGuards(a)

LEMMA EntryLemma ==
  ASSUME NEW a, SameEntry(a)
  PROVE  Entry(a)' = Entry(a)
<1>1. Guarded(a)' <=> FrameGuards(a)' \/ NativeGuards(a)'
  BY DEF Guarded, FrameGuards, NativeGuards, Range
<1>2. Guarded(a)' <=> Guarded(a)
  BY <1>1, GuardedLemma DEF SameEntry
<1>3. Guarded(a) \in BOOLEAN /\ Guarded(a)' \in BOOLEAN
  BY DEF Guarded
<1>4. Guarded(a)' = Guarded(a)
  BY <1>2, <1>3
<1>5. acts'[a].module = acts[a].module
  BY DEF SameEntry, SameModule
<1> QED
  BY <1>4, <1>5 DEF Entry

LEMMA PartLemma ==
  ASSUME NEW n, \A a \in 1 .. n : SameModule(a) /\ SameTries(a) /\ SameFrames(a) /\ SameNatives(a)
  PROVE  SamePart(n)
<1> SUFFICES ASSUME NEW a \in 1 .. n
             PROVE  Segment(a)' = Segment(a)
  BY DEF SamePart
<1>1. Entry(a)' = Entry(a)
  BY EntryLemma DEF SameEntry, SameFrames, SameNatives
<1>2. TryCount(a)' = TryCount(a) /\ BuiltinCount(a)' = BuiltinCount(a)
  BY DEF SameTries, SameFrames, SameNatives, TryCount, BuiltinCount
<1>3. Segment(a) = Seg(Entry(a), TryCount(a), BuiltinCount(a))
  BY DEF Segment, Seg, Entry, TryCount, BuiltinCount, ++
<1>4. Segment(a)' = Seg(Entry(a)', TryCount(a)', BuiltinCount(a)')
  BY DEF Segment, Seg, Entry, TryCount, BuiltinCount, ++
<1> QED
  BY <1>1, <1>2, <1>3, <1>4

\* The try regions of the running activation.
LEMMA SameTriesLemma ==
  ASSUME UNCHANGED tries
  PROVE  \A a : SameTries(a)
  BY DEF SameTries, TriesOf

LEMMA TryOpensLemma ==
  ASSUME TypeOK, NEW t \in TryFrames, t.depth = Depth, tries' = Append(tries, t),
         NEW n, n = Depth
  PROVE  /\ \A a : a # n + 1 => SameTries(a)
         /\ TryCount(n + 1)' = TryCount(n + 1) + 1
<1> DEFINE l == Len(tries)
<1>1. /\ l \in Nat /\ DOMAIN tries = 1 .. l
      /\ DOMAIN tries' = 1 .. l + 1 /\ tries'[l + 1] = t
      /\ \A i \in 1 .. l : tries'[i] = tries[i]
  BY TriesLemma, AppendLemma
<1> HIDE DEF l
<1>2. ASSUME NEW a, a # n + 1
      PROVE  SameTries(a)
  BY <1>1, <1>2 DEF SameTries, TriesOf
<1>3. TriesOf(n + 1)' = TriesOf(n + 1) \cup {l + 1} /\ l + 1 \notin TriesOf(n + 1)
  BY <1>1 DEF TriesOf
<1>4. IsFiniteSet(TriesOf(n + 1))
  BY CountsLemma
<1> QED
  BY <1>2, <1>3, <1>4, FS_AddElement DEF TryCount

LEMMA TryClosesLemma ==
  ASSUME TypeOK, tries # <<>>, Last(tries).depth = Depth, tries' = Front(tries),
         NEW n, n = Depth
  PROVE  /\ \A a : a # n + 1 => SameTries(a)
         /\ TryCount(n + 1) = TryCount(n + 1)' + 1 /\ TryCount(n + 1)' \in Nat
<1> DEFINE l == Len(tries)
<1>1. /\ l \in Nat \ {0} /\ DOMAIN tries = 1 .. l
      /\ DOMAIN tries' = 1 .. l - 1 /\ tries[l].depth = Depth
      /\ \A i \in 1 .. l - 1 : tries'[i] = tries[i]
  BY TopTryLemma
<1> HIDE DEF l
<1>2. ASSUME NEW a, a # n + 1
      PROVE  SameTries(a)
  BY <1>1, <1>2 DEF SameTries, TriesOf
<1>3. TriesOf(n + 1)' = TriesOf(n + 1) \ {l} /\ l \in TriesOf(n + 1)
  BY <1>1 DEF TriesOf
<1> DEFINE T == TriesOf(n + 1)
<1>4. IsFiniteSet(T) /\ Cardinality(T) \in Nat /\ T # {}
  BY <1>3, CountsLemma
<1>5. Cardinality(T) # 0
  BY <1>4, FS_EmptySet
<1>6. Cardinality(T \ {l}) = Cardinality(T) - 1
  BY <1>3, <1>4, FS_RemoveElement
<1>7. TryCount(n + 1)' = Cardinality(T \ {l}) /\ TryCount(n + 1) = Cardinality(T)
  BY <1>3 DEF TryCount
<1> HIDE DEF T
<1> QED
  BY <1>2, <1>4, <1>5, <1>6, <1>7

LEMMA TriesBelowLemma ==
  ASSUME TypeOK, TriesInv, tries' = Discarded
  PROVE  \A a \in 1 .. Depth : SameTries(a)
<1>1. /\ DOMAIN tries' = 1 .. Kept /\ \A i \in 1 .. Kept : i \in DOMAIN tries /\ tries'[i] = tries[i]
  BY DiscardedLemma
<1>2. \A i \in DOMAIN tries : i <= Kept <=> tries[i].depth < Depth
  BY KeptBelowLemma
<1>3. DOMAIN tries = 1 .. Len(tries) /\ Kept \in 0 .. Len(tries) /\ Len(tries) \in Nat
      /\ \A i \in DOMAIN tries : tries[i].depth \in Nat
  BY TriesLemma, KeptLemma
<1> SUFFICES ASSUME NEW a \in 1 .. Depth
             PROVE  TriesOf(a)' = TriesOf(a)
  BY DEF SameTries
<1>4. Depth \in Nat
  BY HereLemma, VmCallsAssumption
<1>5. \A i \in DOMAIN tries : tries[i].depth + 1 = a => i \in 1 .. Kept
  BY <1>2, <1>3, <1>4
<1> QED
  BY <1>1, <1>5 DEF TriesOf

LEMMA NoTriesLemma ==
  ASSUME TypeOK, TriesInv, NEW a, a = Depth + 2
  PROVE  TriesOf(a) = {} /\ TryCount(a) = 0
<1>1. \A i \in DOMAIN tries : tries[i].depth <= Depth /\ tries[i].depth \in Nat
  BY TriesLemma DEF TriesInv, TriesPlaced
<1>2. Depth \in Nat
  BY HereLemma, VmCallsAssumption
<1>3. TriesOf(a) = {}
  BY <1>1, <1>2 DEF TriesOf
<1> QED
  BY <1>3, FS_EmptySet DEF TryCount

\* The resumable builtins.
LEMMA SameFramesLemma ==
  ASSUME UNCHANGED builtins
  PROVE  \A a : SameFrames(a)
  BY DEF SameFrames, FramesOf, FrameGuards

LEMMA FrameOpensLemma ==
  ASSUME TypeOK, NEW frame \in BuiltinFrames, frame.owner = Depth, frame.wait = "none",
         builtins' = Append(builtins, frame), NEW n, n = Depth
  PROVE  /\ \A a : a # n + 1 => SameFrames(a)
         /\ FrameGuards(n + 1)' <=> FrameGuards(n + 1)
         /\ Cardinality(FramesOf(n + 1))' = Cardinality(FramesOf(n + 1)) + 1
<1> DEFINE l == Len(builtins)
<1>1. /\ l \in Nat /\ DOMAIN builtins = 1 .. l
      /\ DOMAIN builtins' = 1 .. l + 1 /\ builtins'[l + 1] = frame
      /\ \A i \in 1 .. l : builtins'[i] = builtins[i]
  BY FramesLemma, AppendLemma
<1> HIDE DEF l
<1>2. \A a : FrameGuards(a)' <=> FrameGuards(a)
  BY <1>1 DEF FrameGuards
<1>3. ASSUME NEW a, a # n + 1
      PROVE  SameFrames(a)
  BY <1>1, <1>2, <1>3 DEF SameFrames, FramesOf
<1>4. FramesOf(n + 1)' = FramesOf(n + 1) \cup {l + 1} /\ l + 1 \notin FramesOf(n + 1)
  BY <1>1 DEF FramesOf
<1>5. IsFiniteSet(FramesOf(n + 1))
  BY CountsLemma
<1> QED
  BY <1>2, <1>3, <1>4, <1>5, FS_AddElement

\* The innermost ends, or waits for something else.
LEMMA FrameClosesLemma ==
  ASSUME TypeOK, builtins # <<>>, builtins' = Front(builtins), NEW n, Last(builtins).owner = n
  PROVE  /\ \A a : a # n + 1 /\ a # n + 2 => SameFrames(a)
         /\ FrameGuards(n + 1)' <=> FrameGuards(n + 1)
         /\ Cardinality(FramesOf(n + 1)) = Cardinality(FramesOf(n + 1))' + 1
         /\ Cardinality(FramesOf(n + 1))' \in Nat
<1> DEFINE l == Len(builtins)
<1>1. /\ l \in Nat \ {0} /\ DOMAIN builtins = 1 .. l /\ l \in DOMAIN builtins
      /\ DOMAIN builtins' = 1 .. l - 1 /\ builtins[l].owner = n /\ n \in Nat
      /\ \A i \in 1 .. l - 1 : builtins'[i] = builtins[i]
  BY TopFrameLemma, FramesLemma
<1> HIDE DEF l
<1>2. ASSUME NEW a, a # n + 2
      PROVE  FrameGuards(a)' <=> FrameGuards(a)
  BY <1>1, <1>2 DEF FrameGuards
<1>3. ASSUME NEW a, a # n + 1, a # n + 2
      PROVE  SameFrames(a)
  BY <1>1, <1>2, <1>3 DEF SameFrames, FramesOf
<1>4. FramesOf(n + 1)' = FramesOf(n + 1) \ {l} /\ l \in FramesOf(n + 1)
  BY <1>1 DEF FramesOf
<1> DEFINE T == FramesOf(n + 1)
<1>5. IsFiniteSet(T) /\ Cardinality(T) \in Nat /\ T # {}
  BY <1>4, CountsLemma
<1>6. Cardinality(T) # 0
  BY <1>5, FS_EmptySet
<1>7. Cardinality(T \ {l}) = Cardinality(T) - 1
  BY <1>4, <1>5, FS_RemoveElement
<1>8. Cardinality(FramesOf(n + 1))' = Cardinality(T \ {l}) /\ Cardinality(FramesOf(n + 1)) = Cardinality(T)
  BY <1>4
<1>9. n + 1 # n + 2
  BY <1>1
<1> HIDE DEF T
<1> QED
  BY <1>2, <1>3, <1>5, <1>6, <1>7, <1>8, <1>9

LEMMA FrameWaitsLemma ==
  ASSUME TypeOK, builtins # <<>>, NEW wait \in {"none", "call", "input"}, Waits(wait),
         NEW n, Last(builtins).owner = n
  PROVE  /\ \A a : a # n + 2 => SameFrames(a)
         /\ \A a : FramesOf(a)' = FramesOf(a)
<1>1. /\ DOMAIN builtins' = DOMAIN builtins
      /\ \A i \in DOMAIN builtins :
           /\ builtins'[i].owner = builtins[i].owner
           /\ builtins'[i].captures = builtins[i].captures
           /\ builtins'[i].wait = IF i = Len(builtins) THEN wait ELSE builtins[i].wait
  BY WaitsLemma
<1>2. builtins[Len(builtins)].owner = n
  BY TopFrameLemma
<1>3. \A a : FramesOf(a)' = FramesOf(a)
  BY <1>1 DEF FramesOf
<1>4. ASSUME NEW a, a # n + 2
      PROVE  SameFrames(a)
  <2>1. \A i \in DOMAIN builtins : builtins[i].owner + 2 = a => i # Len(builtins)
    BY <1>2, <1>4
  <2>2. FrameGuards(a)' <=> FrameGuards(a)
    BY <1>1, <2>1 DEF FrameGuards
  <2> QED
    BY <1>3, <2>2 DEF SameFrames
<1> QED
  BY <1>3, <1>4

LEMMA NoFramesLemma ==
  ASSUME TypeOK, FramesInv, NEW a, (a = Depth + 1 /\ Idle) \/ a = Depth + 2
  PROVE  FramesOf(a) = {} /\ Cardinality(FramesOf(a)) = 0
<1>1. \A i \in DOMAIN builtins : builtins[i].owner <= Depth /\ builtins[i].owner \in Nat
  BY FramesLemma DEF FramesInv, FramesWait
<1>2. Depth \in Nat
  BY HereLemma, VmCallsAssumption
<1>3. FramesOf(a) = {}
  BY <1>1, <1>2 DEF FramesOf, Idle
<1> QED
  BY <1>3, FS_EmptySet

\* The builtins written in Rust.
LEMMA SameNativesLemma ==
  ASSUME UNCHANGED natives
  PROVE  \A a : SameNatives(a)
  BY DEF SameNatives, NativesOf, NativeGuards

LEMMA NativeOpensLemma ==
  ASSUME TypeOK, NEW native \in Natives, native.stop = Depth,
         natives' = Append(natives, native), NEW n, n = Depth
  PROVE  /\ \A a : a # n + 1 /\ a # n + 2 => SameNatives(a)
         /\ NativeGuards(n + 1)' <=> NativeGuards(n + 1)
         /\ native.frame => SameNatives(n + 1)
         /\ ~native.frame => Cardinality(NativesOf(n + 1))' = Cardinality(NativesOf(n + 1)) + 1
<1> DEFINE l == Len(natives)
<1>1. /\ l \in Nat /\ DOMAIN natives = 1 .. l
      /\ DOMAIN natives' = 1 .. l + 1 /\ natives'[l + 1] = native
      /\ \A i \in 1 .. l : natives'[i] = natives[i]
      /\ n \in Nat
  BY NativesLemma, AppendLemma, HereLemma
<1> HIDE DEF l
<1>2. ASSUME NEW a, a # n + 2
      PROVE  NativeGuards(a)' <=> NativeGuards(a)
  BY <1>1, <1>2 DEF NativeGuards
<1>3. ASSUME NEW a, a # n + 1, a # n + 2
      PROVE  SameNatives(a)
  BY <1>1, <1>2, <1>3 DEF SameNatives, NativesOf
<1>4. n + 1 # n + 2
  BY <1>1
<1>5. ASSUME native.frame
      PROVE  SameNatives(n + 1)
  BY <1>1, <1>2, <1>4, <1>5 DEF SameNatives, NativesOf
<1>6. ASSUME ~native.frame
      PROVE  NativesOf(n + 1)' = NativesOf(n + 1) \cup {l + 1} /\ l + 1 \notin NativesOf(n + 1)
  BY <1>1, <1>6 DEF NativesOf
<1>7. IsFiniteSet(NativesOf(n + 1))
  BY CountsLemma
<1>8. ~native.frame => Cardinality(NativesOf(n + 1))' = Cardinality(NativesOf(n + 1)) + 1
  BY <1>6, <1>7, FS_AddElement
<1> QED
  BY <1>2, <1>3, <1>4, <1>5, <1>8

LEMMA NativeClosesLemma ==
  ASSUME TypeOK, NativesInOrder, ~Interpreting, natives' = Front(natives), NEW n, n = Depth
  PROVE  /\ \A a : a # n + 1 /\ a # n + 2 => SameNatives(a)
         /\ NativeGuards(n + 1)' <=> NativeGuards(n + 1)
         /\ Last(natives).frame => SameNatives(n + 1)
         /\ ~Last(natives).frame =>
              /\ Cardinality(NativesOf(n + 1)) = Cardinality(NativesOf(n + 1))' + 1
              /\ Cardinality(NativesOf(n + 1))' \in Nat
<1> DEFINE l == Len(natives)
<1>1. /\ l \in Nat \ {0} /\ l \in DOMAIN natives /\ DOMAIN natives = 1 .. l
      /\ DOMAIN natives' = 1 .. l - 1 /\ Last(natives) = natives[l] /\ natives[l].stop = n
      /\ \A i \in 1 .. l - 1 : natives'[i] = natives[i]
      /\ n \in Nat
  BY InNativeLemma, NativesLemma, HereLemma
<1> HIDE DEF l
<1>2. ASSUME NEW a, a # n + 2
      PROVE  NativeGuards(a)' <=> NativeGuards(a)
  BY <1>1, <1>2 DEF NativeGuards
<1>3. ASSUME NEW a, a # n + 1, a # n + 2
      PROVE  SameNatives(a)
  BY <1>1, <1>2, <1>3 DEF SameNatives, NativesOf
<1>4. n + 1 # n + 2
  BY <1>1
<1>5. ASSUME Last(natives).frame
      PROVE  SameNatives(n + 1)
  BY <1>1, <1>2, <1>4, <1>5 DEF SameNatives, NativesOf
<1>6. ASSUME ~Last(natives).frame
      PROVE  /\ Cardinality(NativesOf(n + 1)) = Cardinality(NativesOf(n + 1))' + 1
             /\ Cardinality(NativesOf(n + 1))' \in Nat
  <2> DEFINE T == NativesOf(n + 1)
  <2>1. NativesOf(n + 1)' = T \ {l} /\ l \in T
    BY <1>1, <1>6 DEF NativesOf
  <2>2. IsFiniteSet(T) /\ Cardinality(T) \in Nat /\ T # {}
    BY <2>1, CountsLemma
  <2>3. Cardinality(T) # 0
    BY <2>2, FS_EmptySet
  <2>4. Cardinality(T \ {l}) = Cardinality(T) - 1
    BY <2>1, <2>2, FS_RemoveElement
  <2>5. Cardinality(NativesOf(n + 1))' = Cardinality(T \ {l})
    BY <2>1
  <2> HIDE DEF T
  <2>6. Cardinality(T) = Cardinality(T \ {l}) + 1 /\ Cardinality(T \ {l}) \in Nat
    BY <2>2, <2>3, <2>4
  <2> QED
    BY <2>5, <2>6 DEF T
<1> QED
  BY <1>2, <1>3, <1>4, <1>5, <1>6

LEMMA NoNativesLemma ==
  ASSUME TypeOK, NativesInOrder, NEW a, (a = Depth + 1 /\ Interpreting) \/ a = Depth + 2
  PROVE  NativesOf(a) = {} /\ Cardinality(NativesOf(a)) = 0
<1>1. \A k \in DOMAIN natives : natives[k].stop <= Depth /\ natives[k].stop \in Nat
  BY NativesLemma DEF NativesInOrder
<1>2. Interpreting => \A k \in DOMAIN natives : natives[k].stop < Depth
  BY InterpretingLemma
<1>3. Depth \in Nat
  BY HereLemma, VmCallsAssumption
<1>4. NativesOf(a) = {}
  BY <1>1, <1>2, <1>3 DEF NativesOf
<1> QED
  BY <1>4, FS_EmptySet

\* A segment that grows, shrinks or is new.
LEMMA SegmentNextLemma ==
  ASSUME TypeOK', NEW a \in 1 .. Len(acts')
  PROVE  /\ Segment(a)' = Seg(Entry(a)', TryCount(a)', BuiltinCount(a)')
         /\ Entry(a)' \in All /\ TryCount(a)' \in Nat /\ BuiltinCount(a)' \in Nat
<1>1. (TypeOK => SegmentsMade)'
  BY SegmentsMadeLemma, PTL
<1> QED
  BY <1>1 DEF SegmentsMade

LEMMA GrowBuiltinLemma ==
  ASSUME TypeOK, TypeOK', NEW a \in 1 .. Len(acts), a \in 1 .. Len(acts'), SameEntry(a), SameTries(a)
  PROVE  /\ BuiltinCount(a)' = BuiltinCount(a) + 1 => Segment(a)' = Segment(a) ++ <<Building>>
         /\ BuiltinCount(a) = BuiltinCount(a)' + 1 => Segment(a) = Segment(a)' ++ <<Building>>
<1> DEFINE c == Entry(a)
           t == TryCount(a)
           b == BuiltinCount(a)
           d == BuiltinCount(a)'
<1>1. Segment(a) = Seg(c, t, b) /\ c \in All /\ t \in Nat /\ b \in Nat
  BY SegmentLemma
<1>2. Entry(a)' = c /\ TryCount(a)' = t
  BY EntryLemma DEF SameTries, TryCount
<1>3. Segment(a)' = Seg(c, t, d) /\ d \in Nat
  BY <1>2, SegmentNextLemma
<1> HIDE DEF c, t, b, d
<1>4. Seg(c, t, b + 1) = Seg(c, t, b) ++ <<Building>> /\ Seg(c, t, d + 1) = Seg(c, t, d) ++ <<Building>>
  BY <1>1, <1>3, SegLemma
<1>5. d = b + 1 => Segment(a)' = Segment(a) ++ <<Building>>
  BY <1>1, <1>3, <1>4
<1>6. b = d + 1 => Segment(a) = Segment(a)' ++ <<Building>>
  BY <1>1, <1>3, <1>4
<1> QED
  BY <1>5, <1>6 DEF b, d

LEMMA GrowTryLemma ==
  ASSUME TypeOK, TypeOK', NEW a \in 1 .. Len(acts), a \in 1 .. Len(acts'), SameEntry(a),
         BuiltinCount(a) = 0, BuiltinCount(a)' = 0
  PROVE  /\ TryCount(a)' = TryCount(a) + 1 => Segment(a)' = Segment(a) ++ <<Trying>>
         /\ TryCount(a) = TryCount(a)' + 1 => Segment(a) = Segment(a)' ++ <<Trying>>
<1> DEFINE c == Entry(a)
           t == TryCount(a)
           d == TryCount(a)'
<1>1. Segment(a) = Seg(c, t, 0) /\ c \in All /\ t \in Nat
  BY SegmentLemma
<1>2. Entry(a)' = c
  BY EntryLemma
<1>3. Segment(a)' = Seg(c, d, 0) /\ d \in Nat
  BY <1>2, SegmentNextLemma
<1> HIDE DEF c, t, d
<1>4. Seg(c, t + 1, 0) = Seg(c, t, 0) ++ <<Trying>> /\ Seg(c, d + 1, 0) = Seg(c, d, 0) ++ <<Trying>>
  <2>1. 0 \in Nat
    OBVIOUS
  <2> QED
    BY <1>1, <1>3, <2>1, SegLemma
<1>5. d = t + 1 => Segment(a)' = Segment(a) ++ <<Trying>>
  BY <1>1, <1>3, <1>4
<1>6. t = d + 1 => Segment(a) = Segment(a)' ++ <<Trying>>
  BY <1>1, <1>3, <1>4
<1> QED
  BY <1>5, <1>6 DEF t, d

LEMMA NewSegmentLemma ==
  ASSUME TypeOK', NEW a \in 1 .. Len(acts'), TryCount(a)' = 0, BuiltinCount(a)' = 0
  PROVE  Segment(a)' = <<Entry(a)'>> /\ Entry(a)' \in All /\ Entry(a)'.module = acts'[a].module
<1> DEFINE c == Entry(a)'
<1>1. Segment(a)' = Seg(c, 0, 0) /\ c \in All
  BY SegmentNextLemma
<1>2. c.module = acts'[a].module
  BY DEF Entry
<1> HIDE DEF c
<1>3. Seg(c, 0, 0) = <<c>>
  <2>1. 0 \in Nat
    OBVIOUS
  <2> QED
    BY <1>1, <2>1, SegLemma
<1> QED
  BY <1>1, <1>2, <1>3 DEF c

LEMMA ThrownLemma ==
  /\ error = "none" /\ ~hostError => Thrown = "none"
  /\ Interpreting /\ ~hostError => Thrown = error
  /\ error' = "none" /\ ~hostError' => Thrown' = "none"
  /\ Interpreting' /\ ~hostError' => Thrown' = error'
  BY DEF Thrown, InNative

LEMMA SettledLemma ==
  ASSUME TypeOK
  PROVE  /\ UNCHANGED cache => \A entry : Settled(NoModule, entry)
         /\ \A m \in Modules : \A entry : cache' = [cache EXCEPT ![m] = entry] => Settled(m, entry)
<1>1. cache \in [Modules -> {"none", "loading", "loaded"}] /\ NoModule \notin Modules
  BY VmCallsAssumption DEF TypeOK
<1> QED
  BY <1>1 DEF Settled

-----------------------------------------------------------------------------
(* The steps of VmCalls, as steps of ControlStack.                         *)

Refined == Stack!Next \/ UNCHANGED <<OneStack, Thrown, cache, halted>>

\* An evaluation under way, which nothing has stopped.
Underway(n) ==
  /\ n = Depth /\ n \in Nat /\ Len(acts) = n + 1
  /\ Going /\ Live /\ ~Ended
  /\ TypeOK /\ TypeOK' /\ ModulesInv /\ FlowInv /\ FramesInv /\ TriesInv /\ NativesInOrder /\ Pending

LEMMA UnderwayLemma ==
  ASSUME IInv, IInv', Going, Live
  PROVE  \E n : Underway(n)
<1>1. ~Ended
  BY DEF Live, Ended
<1>2. Depth \in Nat /\ Len(acts) = Depth + 1
  BY HereLemma, VmCallsAssumption DEF IInv
<1>3. Underway(Depth)
  BY <1>1, <1>2 DEF Underway, IInv, FlowInv, Going
<1> QED
  BY <1>3

LEMMA KeepsLemma ==
  ASSUME NEW n, Underway(n), ~Ended', InPlace,
         \A a \in 1 .. n + 1 : SameTries(a) /\ SameFrames(a) /\ SameNatives(a)
  PROVE  OneStack' = OneStack /\ OneStack \in Seq(All)
<1>1. SamePart(n + 1)
  BY PartLemma DEF InPlace, SameModule, Underway
<1>2. TypeOK /\ TypeOK' /\ ~Ended /\ Depth' = Depth /\ SamePart(Depth + 1)
  BY <1>1 DEF Underway, InPlace
<1> QED
  BY <1>2, SameStackLemma

LEMMA StutterLemma ==
  ASSUME NEW n, Underway(n), ~Ended', InPlace, Thrown' = Thrown, UNCHANGED cache,
         \A a \in 1 .. n + 1 : SameTries(a) /\ SameFrames(a) /\ SameNatives(a)
  PROVE  Refined
  BY KeepsLemma DEF Refined, Underway, Going, TypeOK

\* A call.
LEMMA CallsLemma ==
  ASSUME NEW n, Underway(n), ~Ended', NEW m \in Modules \cup {NoModule}, Deepens(m),
         UNCHANGED <<tries, natives>>,
         \A a \in 1 .. n + 1 : SameFrames(a), FramesOf(n + 2)' = FramesOf(n + 2),
         error = "none", ~hostError, error' = "none", ~hostError',
         m # NoModule => cache[m] = "none",
         Settled(m, "loading")
  PROVE  Refined
<1>1. /\ TypeOK /\ TypeOK' /\ n = Depth /\ n \in Nat /\ Len(acts) = n + 1 /\ Going /\ ~Ended
      /\ FramesInv /\ TriesInv /\ NativesInOrder
  BY DEF Underway
<1>2. /\ Depth' = n + 1 /\ acts'[n + 2].module = m /\ n + 2 \in 1 .. Len(acts')
      /\ \A a \in 1 .. n + 1 : SameModule(a)
  BY <1>1 DEF Deepens, SameModule, Depth, TypeOK
<1>3. \A a : SameTries(a) /\ SameNatives(a)
  BY SameTriesLemma, SameNativesLemma
<1>4. SamePart(n + 1)
  BY <1>2, <1>3, PartLemma
<1>5. TriesOf(n + 2)' = {} /\ FramesOf(n + 2)' = {} /\ NativesOf(n + 2)' = {}
  BY <1>1, <1>3, NoTriesLemma, NoFramesLemma, NoNativesLemma DEF SameTries, SameNatives
<1>6. TryCount(n + 2)' = 0 /\ BuiltinCount(n + 2)' = 0
  BY <1>5, FS_EmptySet DEF TryCount, BuiltinCount
<1> DEFINE x == Entry(n + 2)'
<1>7. Segment(n + 2)' = <<x>> /\ x \in All /\ x.module = m
  BY <1>1, <1>2, <1>6, NewSegmentLemma
<1> HIDE DEF x
<1>8. OneStack' = OneStack ++ <<x>> /\ OneStack \in Seq(All)
  BY <1>1, <1>2, <1>4, <1>7, PushStackLemma
<1>9. Thrown = "none" /\ Thrown' = "none"
  BY ThrownLemma
<1>10. x.module # NoModule => cache[x.module] = "none"
  BY <1>7
<1>11. Settled(x.module, "loading")
  BY <1>7
<1> QED
  BY <1>1, <1>7, <1>8, <1>9, <1>10, <1>11, OpenStep DEF Refined

LEMMA QuietLemma ==
  ASSUME NEW n, Underway(n), ~Ended', InPlace, UNCHANGED <<tries, builtins, natives, cache>>,
         Thrown' = Thrown
  PROVE  Refined
<1>1. \A a \in 1 .. n + 1 : SameTries(a) /\ SameFrames(a) /\ SameNatives(a)
  BY SameTriesLemma, SameFramesLemma, SameNativesLemma
<1> QED
  BY <1>1, StutterLemma

\* What an instruction finds.
LEMMA ExecutingLemma ==
  ASSUME NEW n, Underway(n), CanExecute
  PROVE  /\ Idle /\ Interpreting /\ Thrown = "none" /\ status = "running"
         /\ error = "none" /\ ~hostError /\ ~input
         /\ BuiltinCount(n + 1) = 0
<1>1. TypeOK /\ FlowInv /\ FramesInv /\ NativesInOrder /\ n = Depth /\ n \in Nat
  BY DEF Underway
<1>2. /\ Idle /\ Interpreting /\ status = "running" /\ error = "none" /\ ~hostError /\ ~input
  BY <1>1, CanExecuteLemma
<1>3. Cardinality(FramesOf(n + 1)) = 0 /\ Cardinality(NativesOf(n + 1)) = 0
  BY <1>1, <1>2, NoFramesLemma, NoNativesLemma
<1> QED
  BY <1>2, <1>3, ThrownLemma DEF BuiltinCount

LEMMA QuietInstructions ==
  ASSUME NEW n, Underway(n),
         \/ \E code \in Codes : TailCall(code)
         \/ UnpackOpen \/ UnpackClose
         \/ \E k \in 0 .. Len(Here.lex) - 1 : Jump(k)
         \/ Input
  PROVE  Refined
<1>1. TypeOK
  BY DEF Underway
<1>2. ASSUME CanExecute, InPlace, UNCHANGED <<tries, builtins, natives, error, hostError, cache, status>>
      PROVE  Refined
  <2>1. Thrown = "none" /\ status = "running" /\ error = "none" /\ ~hostError
    BY <1>2, ExecutingLemma
  <2>2. Thrown' = "none"
    BY <1>2, <2>1, ThrownLemma
  <2>3. ~Ended'
    BY <1>2, <2>1 DEF Ended
  <2> QED
    BY <1>2, <2>1, <2>2, <2>3, QuietLemma
<1>3. ASSUME NEW code \in Codes, TailCall(code)
      PROVE  Refined
  <2>1. Recodes
    BY <1>3 DEF TailCall, Recodes, CanExecute
  <2>2. InPlace
    BY <1>1, <2>1, InPlaceLemma
  <2> QED
    BY <1>2, <1>3, <2>2 DEF TailCall, control, modules
<1>4. CASE UnpackOpen \/ UnpackClose
  <2>1. CanExecute /\ UNCHANGED <<tries, builtins, control, modules, status>>
    BY <1>4 DEF UnpackOpen, UnpackClose, OpenRegion
  <2>2. InPlace
    BY <1>1, <1>4, InPlaceLemma DEF Regions
  <2> QED
    BY <1>2, <2>1, <2>2 DEF control, modules
<1>5. ASSUME NEW k \in 0 .. Len(Here.lex) - 1, Jump(k)
      PROVE  Refined
  <2>1. k \in 0 .. Len(Here.lex)
    BY <1>1, LexLemma
  <2>2. Leaves
    BY <1>5, <2>1 DEF Jump, Leaves
  <2>3. InPlace
    BY <1>1, <2>2, InPlaceLemma
  <2> QED
    BY <1>2, <1>5, <2>3 DEF Jump, control, modules
<1>6. CASE Input
  <2>1. Leaves
    BY <1>1, <1>6, LeavesLemma DEF Input
  <2>2. InPlace
    BY <1>1, <2>1, InPlaceLemma
  <2> QED
    BY <1>2, <1>6, <2>2 DEF Input, modules
<1> QED
  BY <1>3, <1>4, <1>5, <1>6

\* A builtin makes a value of an error, the loop suspends, the error of the
\* host's answer is raised.
LEMMA QuietSteps ==
  ASSUME NEW n, Underway(n), NativeCaptures \/ Suspend \/ RaiseHostError
  PROVE  Refined
<1>1. TypeOK /\ Pending /\ {input, hostError} \subseteq BOOLEAN
  BY DEF Underway, TypeOK
<1>2. acts' = acts /\ UNCHANGED <<tries, builtins, natives, cache>>
  BY DEF NativeCaptures, Suspend, RaiseHostError, control, modules
<1>3. InPlace
  BY <1>1, <1>2, InPlaceLemma
<1>4. Interpreting' <=> Interpreting
  BY <1>2, <1>3 DEF InPlace, Interpreting
<1>5. CASE NativeCaptures
  <2>1. status = "running" /\ status' = status /\ InNative /\ error # "none" /\ Last(natives).captures
        /\ error' = "none" /\ hostError' = hostError
    BY <1>5 DEF NativeCaptures, InNative
  <2>2. ~hostError
    BY <1>1, <2>1 DEF Pending
  <2>3. Thrown = "none" /\ Thrown' = "none"
    BY <2>1, <2>2 DEF Thrown
  <2>4. ~Ended'
    BY <2>1 DEF Ended
  <2> QED
    BY <1>2, <1>3, <2>3, <2>4, QuietLemma
<1>6. CASE Suspend
  <2>1. error = "none" /\ ~hostError /\ error' = error /\ hostError' = hostError
        /\ status' \in {"awaiting", "trapped"}
    BY <1>6 DEF Suspend, Loop, control
  <2>2. Thrown = "none" /\ Thrown' = "none"
    BY <2>1 DEF Thrown
  <2>3. ~Ended'
    BY <2>1 DEF Ended
  <2> QED
    BY <1>2, <1>3, <2>2, <2>3, QuietLemma
<1>7. CASE RaiseHostError
  <2>1. hostError /\ Interpreting /\ error' = "user" /\ ~hostError' /\ status = "running" /\ status' = status
    BY <1>7 DEF RaiseHostError, Loop
  <2>2. Thrown = "user"
    BY <2>1 DEF Thrown
  <2>3. Thrown' = "user"
    BY <1>4, <2>1, ThrownLemma
  <2>4. ~Ended'
    BY <2>1 DEF Ended
  <2> QED
    BY <1>2, <1>3, <2>2, <2>3, <2>4, QuietLemma
<1> QED
  BY <1>5, <1>6, <1>7

\* What a step of a resumable builtin finds.
LEMMA SteppingLemma ==
  ASSUME NEW n, Underway(n), FrameStep
  PROVE  /\ Interpreting /\ Thrown = "none" /\ status = "running"
         /\ error = "none" /\ ~hostError /\ ~input
         /\ builtins # <<>> /\ Last(builtins).owner = n
<1>1. /\ Interpreting /\ status = "running" /\ error = "none" /\ ~hostError /\ ~input
      /\ builtins # <<>> /\ Last(builtins).owner = n
  BY DEF FrameStep, Free, Loop, Runnable, FrameHere, Underway
<1> QED
  BY <1>1, ThrownLemma

LEMMA QuietFrames ==
  ASSUME NEW n, Underway(n), FrameReads \/ FrameAcceptsInput \/ FrameCallsAtomic
  PROVE  Refined
<1>1. TypeOK /\ TypeOK' /\ n \in Nat /\ n = Depth
  BY DEF Underway
<1>2. FrameStep /\ acts' = acts /\ UNCHANGED <<tries, error, hostError, cache, status>>
  BY DEF FrameReads, FrameAcceptsInput, FrameCallsAtomic, control, modules
<1>3. /\ Thrown = "none" /\ status = "running" /\ error = "none" /\ ~hostError
      /\ builtins # <<>> /\ Last(builtins).owner = n
  BY <1>2, SteppingLemma
<1>4. Thrown' = "none" /\ ~Ended'
  BY <1>2, <1>3, ThrownLemma DEF Ended
<1>5. InPlace
  BY <1>1, <1>2, InPlaceLemma
<1>6. \A a \in 1 .. n + 1 : SameTries(a)
  BY <1>2, SameTriesLemma
<1>7. \A a \in 1 .. n + 1 : a # n + 2
  BY <1>1
<1>8. CASE FrameReads \/ FrameAcceptsInput
  <2>1. PICK wait \in {"none", "call", "input"} : Waits(wait)
    BY <1>8 DEF FrameReads, FrameAcceptsInput
  <2>2. natives' = natives
    BY <1>8 DEF FrameReads, FrameAcceptsInput, control
  <2>3. \A a \in 1 .. n + 1 : SameFrames(a)
    BY <1>1, <1>3, <1>7, <2>1, FrameWaitsLemma
  <2>4. \A a \in 1 .. n + 1 : SameNatives(a)
    BY <2>2, SameNativesLemma
  <2> QED
    BY <1>2, <1>3, <1>4, <1>5, <1>6, <2>3, <2>4, StutterLemma
<1>9. CASE FrameCallsAtomic
  <2>1. natives' = Append(natives, Native(FALSE, TRUE)) /\ builtins' = builtins
    BY <1>9 DEF FrameCallsAtomic
  <2>2. Native(FALSE, TRUE) \in Natives /\ Native(FALSE, TRUE).stop = Depth /\ Native(FALSE, TRUE).frame
    BY <1>1, HereLemma DEF Native, Natives, TypeOK
  <2>3. \A a \in 1 .. n + 1 : SameNatives(a)
    BY <1>1, <1>7, <2>1, <2>2, NativeOpensLemma
  <2>4. \A a \in 1 .. n + 1 : SameFrames(a)
    BY <2>1, SameFramesLemma
  <2> QED
    BY <1>2, <1>3, <1>4, <1>5, <1>6, <2>3, <2>4, StutterLemma
<1> QED
  BY <1>8, <1>9

\* Calls that are made.
LEMMA MadeCalls ==
  ASSUME NEW n, Underway(n), Room,
         \/ \E code \in Codes : Call(code) \/ NativeCalls(code) \/ FrameCalls(code)
         \/ \E m \in Modules : Import(m)
  PROVE  Refined
<1>1. TypeOK /\ n \in Nat /\ n = Depth /\ Pending
  BY DEF Underway
<1>2. NoModule \in Modules \cup {NoModule}
  OBVIOUS
<1>3. ASSUME UNCHANGED builtins
      PROVE  (\A a \in 1 .. n + 1 : SameFrames(a)) /\ FramesOf(n + 2)' = FramesOf(n + 2)
  BY <1>3, SameFramesLemma DEF SameFrames
<1>4. ASSUME NEW code \in Codes, Call(code)
      PROVE  Refined
  <2>1. PICK lex \in After : Called(code, NoModule, lex) /\ UNCHANGED error
    BY <1>4 DEF Call
  <2>2. CanExecute /\ UNCHANGED <<tries, unpacks, builtins, natives, hostError, cache, status>>
    BY <1>4 DEF Call, modules
  <2>3. error = "none" /\ ~hostError /\ status = "running"
    BY <2>2 DEF CanExecute, Free, Loop
  <2>4. Deepens(NoModule)
    BY <1>1, <1>2, <2>1, <2>2, PushesLemma, DeepensLemma
  <2>5. Settled(NoModule, "loading")
    BY <1>1, <2>2, SettledLemma
  <2>6. ~Ended'
    BY <2>2, <2>3 DEF Ended
  <2> QED
    BY <1>2, <1>3, <2>1, <2>2, <2>3, <2>4, <2>5, <2>6, CallsLemma
<1>5. ASSUME NEW m \in Modules, Import(m)
      PROVE  Refined
  <2>1. PICK lex \in After :
          /\ \E code \in Codes : Called(code, m, lex)
          /\ cache' = [cache EXCEPT ![m] = "loading"] /\ UNCHANGED error
    BY <1>5 DEF Import
  <2>2. /\ CanExecute /\ UNCHANGED <<tries, unpacks, builtins, natives, hostError, status>>
        /\ cache[m] = "none" /\ m \in Modules \cup {NoModule}
    BY <1>5 DEF Import
  <2>3. error = "none" /\ ~hostError /\ status = "running"
    BY <2>2 DEF CanExecute, Free, Loop
  <2>4. Deepens(m)
    <3>1. PICK code \in Codes : Called(code, m, lex)
      BY <2>1
    <3> QED
      BY <1>1, <2>2, <3>1, PushesLemma, DeepensLemma
  <2>5. Settled(m, "loading")
    BY <1>1, <2>1, SettledLemma
  <2>6. ~Ended'
    BY <2>2, <2>3 DEF Ended
  <2> QED
    BY <1>3, <2>1, <2>2, <2>3, <2>4, <2>5, <2>6, CallsLemma
<1>6. ASSUME NEW code \in Codes, NativeCalls(code)
      PROVE  Refined
  <2>1. /\ InNative /\ error = "none" /\ Called(code, NoModule, Here.lex)
        /\ UNCHANGED <<tries, unpacks, builtins, natives, hostError, error, cache, status>>
    BY <1>6 DEF NativeCalls, control, modules
  <2>2. ~hostError /\ status = "running"
    BY <1>1, <2>1 DEF Pending, InNative
  <2>3. Deepens(NoModule)
    BY <1>1, <1>2, <2>1, HereAfterLemma, PushesLemma, DeepensLemma
  <2>4. Settled(NoModule, "loading")
    BY <1>1, <2>1, SettledLemma
  <2>5. ~Ended'
    BY <2>1, <2>2 DEF Ended
  <2> QED
    BY <1>2, <1>3, <2>1, <2>2, <2>3, <2>4, <2>5, CallsLemma
<1>7. ASSUME NEW code \in Codes, FrameCalls(code)
      PROVE  Refined
  <2>1. /\ FrameStep /\ Called(code, NoModule, Here.lex) /\ Waits("call")
        /\ UNCHANGED <<tries, unpacks, natives, hostError, error, cache, status>>
    BY <1>7 DEF FrameCalls, modules
  <2>2. /\ error = "none" /\ ~hostError /\ status = "running"
        /\ builtins # <<>> /\ Last(builtins).owner = n
    BY <2>1, SteppingLemma
  <2>3. Deepens(NoModule)
    BY <1>1, <1>2, <2>1, HereAfterLemma, PushesLemma, DeepensLemma
  <2>4. Settled(NoModule, "loading")
    BY <1>1, <2>1, SettledLemma
  <2>5. ~Ended'
    BY <2>1, <2>2 DEF Ended
  <2>6. /\ \A a : a # n + 2 => SameFrames(a)
        /\ \A a : FramesOf(a)' = FramesOf(a)
    BY <1>1, <2>1, <2>2, FrameWaitsLemma
  <2>7. \A a \in 1 .. n + 1 : SameFrames(a)
    BY <1>1, <2>6
  <2> QED
    BY <1>2, <2>1, <2>2, <2>3, <2>4, <2>5, <2>6, <2>7, CallsLemma
<1> QED
  BY <1>4, <1>5, <1>6, <1>7

\* The running activation opens a region, or calls a builtin.
LEMMA OpensLemma ==
  ASSUME NEW n, Underway(n), ~Ended', InPlace, \A a \in 1 .. n : SameTries(a) /\ SameFrames(a) /\ SameNatives(a),
         NEW x \in {Trying, Building}, Segment(n + 1)' = Segment(n + 1) ++ <<x>>,
         Thrown = "none", Thrown' = "none", UNCHANGED cache
  PROVE  Refined
<1>1. /\ TypeOK /\ TypeOK' /\ n = Depth /\ n \in Nat /\ Going /\ ~Ended
  BY DEF Underway
<1>2. SamePart(n)
  <2>1. \A a \in 1 .. n : SameModule(a)
    BY <1>1 DEF InPlace, SameModule
  <2> QED
    BY <2>1, PartLemma
<1>3. x \in All /\ x.module = NoModule
  BY ContextLemma
<1>4. Depth' = Depth /\ SamePart(Depth)
  BY <1>1, <1>2 DEF InPlace
<1>5. OneStack' = OneStack ++ <<x>> /\ OneStack \in Seq(All)
  BY <1>1, <1>3, <1>4, TopStackLemma
<1>6. Settled(x.module, "loading")
  BY <1>1, <1>3, SettledLemma
<1> QED
  BY <1>1, <1>3, <1>5, <1>6, OpenStep DEF Refined

LEMMA BelowLemma ==
  ASSUME NEW n \in Nat
  PROVE  /\ \A a \in 1 .. n : a # n + 1 /\ a # n + 2
         /\ \A a \in 1 .. n - 1 : a # n /\ a # n + 1
         /\ n + 1 \in 1 .. n + 1 /\ n + 1 # n + 2 /\ n # n + 1
  OBVIOUS

LEMMA PlacedLemma ==
  ASSUME NEW n, Underway(n), InPlace
  PROVE  n + 1 \in 1 .. Len(acts) /\ n + 1 \in 1 .. Len(acts') /\ SameModule(n + 1)
<1>1. n = Depth /\ n \in Nat /\ Len(acts) = n + 1 /\ acts' \in Seq(Activations)
  BY DEF Underway, TypeOK
<1>2. Len(acts') \in Nat /\ Len(acts') - 1 = n
  <2>1. Depth' = Len(acts') - 1
    BY DEF Depth
  <2> QED
    BY <1>1, <2>1, LenProperties DEF InPlace
<1>3. Len(acts') = n + 1
  BY <1>1, <1>2
<1>4. n + 1 \in 1 .. Depth + 1
  BY <1>1
<1> QED
  BY <1>1, <1>3, <1>4 DEF InPlace, SameModule

LEMMA MadeOpenings ==
  ASSUME NEW n, Underway(n),
         \/ TryOpen
         \/ \E captures \in BOOLEAN : StartFrame(captures) \/ StartNative(captures)
  PROVE  Refined
<1>1. TypeOK /\ TypeOK' /\ n \in Nat /\ n = Depth /\ Len(acts) = n + 1
  BY DEF Underway
<1>2. CanExecute /\ UNCHANGED <<error, hostError, cache, status>>
  BY DEF TryOpen, OpenRegion, StartFrame, StartNative, control, modules
<1>3. Thrown = "none" /\ status = "running" /\ error = "none" /\ ~hostError /\ BuiltinCount(n + 1) = 0
  BY <1>2, ExecutingLemma
<1>4. Thrown' = "none" /\ ~Ended'
  BY <1>2, <1>3, ThrownLemma DEF Ended
<1>5. InPlace
  <2>1. CASE TryOpen
    BY <1>1, <2>1, InPlaceLemma DEF Regions
  <2>2. CASE \E captures \in BOOLEAN : StartFrame(captures) \/ StartNative(captures)
    <3>1. Leaves
      BY <1>1, <2>2, LeavesLemma DEF StartFrame, StartNative
    <3> QED
      BY <1>1, <3>1, InPlaceLemma
  <2> QED
    BY <2>1, <2>2
<1>6. n + 1 \in 1 .. Len(acts) /\ n + 1 \in 1 .. Len(acts') /\ SameModule(n + 1)
  BY <1>1, <1>5, PlacedLemma
<1>7. CASE TryOpen
  <2>1. NewTry \in TryFrames /\ tries' = Append(tries, NewTry) /\ NewTry.depth = Depth
    <3>1. Len(Here.lex) < MaxRegions
      BY <1>7 DEF TryOpen, OpenRegion
    <3> QED
      BY <1>1, <1>7, <3>1, NewTryLemma DEF TryOpen, NewTry
  <2>2. builtins' = builtins /\ natives' = natives
    BY <1>7 DEF TryOpen, control
  <2>3. (\A a : a # n + 1 => SameTries(a)) /\ TryCount(n + 1)' = TryCount(n + 1) + 1
    BY <1>1, <2>1, TryOpensLemma
  <2>4. \A a : SameFrames(a) /\ SameNatives(a)
    BY <2>2, SameFramesLemma, SameNativesLemma
  <2>5. SameEntry(n + 1) /\ BuiltinCount(n + 1)' = BuiltinCount(n + 1)
    BY <1>6, <2>4 DEF SameEntry, SameFrames, SameNatives, BuiltinCount
  <2>6. Segment(n + 1)' = Segment(n + 1) ++ <<Trying>>
    BY <1>1, <1>3, <1>6, <2>3, <2>5, GrowTryLemma
  <2>7. \A a \in 1 .. n : SameTries(a) /\ SameFrames(a) /\ SameNatives(a)
    BY <1>1, <2>3, <2>4, BelowLemma
  <2> QED
    BY <1>2, <1>3, <1>4, <1>5, <2>6, <2>7, OpensLemma
<1>8. ASSUME NEW captures \in BOOLEAN, StartFrame(captures)
      PROVE  Refined
  <2> DEFINE frame == [owner |-> Depth, captures |-> captures, wait |-> "none"]
  <2>1. frame \in BuiltinFrames /\ frame.owner = Depth /\ frame.wait = "none"
    BY <1>1, HereLemma DEF BuiltinFrames
  <2>2. builtins' = Append(builtins, frame) /\ natives' = natives /\ tries' = tries
    BY <1>8 DEF StartFrame, control
  <2> HIDE DEF frame
  <2>3. /\ \A a : a # n + 1 => SameFrames(a)
        /\ FrameGuards(n + 1)' <=> FrameGuards(n + 1)
        /\ Cardinality(FramesOf(n + 1))' = Cardinality(FramesOf(n + 1)) + 1
    BY <1>1, <2>1, <2>2, FrameOpensLemma
  <2>4. \A a : SameTries(a) /\ SameNatives(a)
    BY <2>2, SameTriesLemma, SameNativesLemma
  <2>5. SameEntry(n + 1) /\ SameTries(n + 1)
    BY <1>6, <2>3, <2>4 DEF SameEntry, SameNatives
  <2>6. BuiltinCount(n + 1)' = BuiltinCount(n + 1) + 1
    <3>1. Cardinality(NativesOf(n + 1))' = Cardinality(NativesOf(n + 1))
      BY <2>4 DEF SameNatives
    <3>2. Cardinality(NativesOf(n + 1)) \in Nat /\ Cardinality(FramesOf(n + 1)) \in Nat
      BY <1>1, CountsLemma
    <3> QED
      BY <2>3, <3>1, <3>2 DEF BuiltinCount
  <2>7. Segment(n + 1)' = Segment(n + 1) ++ <<Building>>
    BY <1>1, <1>6, <2>5, <2>6, GrowBuiltinLemma
  <2>8. \A a \in 1 .. n : SameTries(a) /\ SameFrames(a) /\ SameNatives(a)
    BY <1>1, <2>3, <2>4, BelowLemma
  <2> QED
    BY <1>2, <1>3, <1>4, <1>5, <2>7, <2>8, OpensLemma
<1>9. ASSUME NEW captures \in BOOLEAN, StartNative(captures)
      PROVE  Refined
  <2> DEFINE native == Native(captures, FALSE)
  <2>1. native \in Natives /\ native.stop = Depth /\ ~native.frame
    BY <1>1, HereLemma DEF Native, Natives, TypeOK
  <2>2. natives' = Append(natives, native) /\ builtins' = builtins /\ tries' = tries
    BY <1>9 DEF StartNative
  <2> HIDE DEF native
  <2>3. /\ \A a : a # n + 1 /\ a # n + 2 => SameNatives(a)
        /\ NativeGuards(n + 1)' <=> NativeGuards(n + 1)
        /\ Cardinality(NativesOf(n + 1))' = Cardinality(NativesOf(n + 1)) + 1
    BY <1>1, <2>1, <2>2, NativeOpensLemma
  <2>4. \A a : SameTries(a) /\ SameFrames(a)
    BY <2>2, SameTriesLemma, SameFramesLemma
  <2>5. SameEntry(n + 1) /\ SameTries(n + 1)
    BY <1>6, <2>3, <2>4 DEF SameEntry, SameFrames
  <2>6. BuiltinCount(n + 1)' = BuiltinCount(n + 1) + 1
    <3>1. Cardinality(FramesOf(n + 1))' = Cardinality(FramesOf(n + 1))
      BY <2>4 DEF SameFrames
    <3>2. Cardinality(NativesOf(n + 1)) \in Nat /\ Cardinality(FramesOf(n + 1)) \in Nat
      BY <1>1, CountsLemma
    <3> QED
      BY <2>3, <3>1, <3>2 DEF BuiltinCount
  <2>7. Segment(n + 1)' = Segment(n + 1) ++ <<Building>>
    BY <1>1, <1>6, <2>5, <2>6, GrowBuiltinLemma
  <2>8. \A a \in 1 .. n : SameTries(a) /\ SameFrames(a) /\ SameNatives(a)
    BY <1>1, <2>3, <2>4, BelowLemma
  <2> QED
    BY <1>2, <1>3, <1>4, <1>5, <2>7, <2>8, OpensLemma
<1> QED
  BY <1>7, <1>8, <1>9

\* The running activation leaves its innermost region or builtin.
Shrinks(x) ==
  /\ OneStack = OneStack' ++ <<x>>
  /\ OneStack \in Seq(All) /\ OneStack' \in Seq(All)

LEMMA ShrinksLemma ==
  ASSUME NEW n, Underway(n), ~Ended', InPlace,
         \A a \in 1 .. n : SameTries(a) /\ SameFrames(a) /\ SameNatives(a),
         NEW x \in {Trying, Building}, Segment(n + 1) = Segment(n + 1)' ++ <<x>>
  PROVE  Shrinks(x)
<1>1. /\ TypeOK /\ TypeOK' /\ n = Depth /\ n \in Nat /\ ~Ended
  BY DEF Underway
<1>2. SamePart(n)
  <2>1. \A a \in 1 .. n : SameModule(a)
    BY <1>1 DEF InPlace, SameModule
  <2> QED
    BY <2>1, PartLemma
<1>3. x \in All
  BY ContextLemma
<1>4. Depth' = Depth /\ SamePart(Depth)
  BY <1>1, <1>2 DEF InPlace
<1> QED
  BY <1>1, <1>3, <1>4, TopStackLemma DEF Shrinks

LEMMA TryShrinks ==
  ASSUME NEW n, Underway(n), ~Ended', InPlace, Idle, Interpreting, TryHere,
         tries' = Front(tries), UNCHANGED <<builtins, natives>>
  PROVE  Shrinks(Trying)
<1>1. /\ TypeOK /\ TypeOK' /\ n = Depth /\ n \in Nat /\ FramesInv /\ NativesInOrder
  BY DEF Underway
<1>2. Cardinality(FramesOf(n + 1)) = 0 /\ Cardinality(NativesOf(n + 1)) = 0
  BY <1>1, NoFramesLemma, NoNativesLemma
<1>3. \A a : SameFrames(a) /\ SameNatives(a)
  BY SameFramesLemma, SameNativesLemma
<1>4. BuiltinCount(n + 1) = 0 /\ BuiltinCount(n + 1)' = 0
  BY <1>2, <1>3 DEF BuiltinCount, SameFrames, SameNatives
<1>5. n + 1 \in 1 .. Len(acts) /\ n + 1 \in 1 .. Len(acts') /\ SameModule(n + 1)
  BY PlacedLemma
<1>6. SameEntry(n + 1)
  BY <1>3, <1>5 DEF SameEntry, SameFrames, SameNatives
<1>7. tries # <<>> /\ Last(tries).depth = Depth
  BY DEF TryHere
<1>8. (\A a : a # n + 1 => SameTries(a)) /\ TryCount(n + 1) = TryCount(n + 1)' + 1
  BY <1>1, <1>7, TryClosesLemma
<1>9. Segment(n + 1) = Segment(n + 1)' ++ <<Trying>>
  BY <1>1, <1>4, <1>5, <1>6, <1>8, GrowTryLemma
<1>10. \A a \in 1 .. n : SameTries(a) /\ SameFrames(a) /\ SameNatives(a)
  BY <1>1, <1>3, <1>8, BelowLemma
<1> QED
  BY <1>9, <1>10, ShrinksLemma

LEMMA FrameShrinks ==
  ASSUME NEW n, Underway(n), ~Ended', InPlace, builtins # <<>>, Last(builtins).owner = n,
         builtins' = Front(builtins), tries' = tries,
         \A a \in 1 .. n : SameNatives(a), NativesOf(n + 1)' = NativesOf(n + 1),
         NativeGuards(n + 1)' <=> NativeGuards(n + 1)
  PROVE  Shrinks(Building)
<1>1. /\ TypeOK /\ TypeOK' /\ n = Depth /\ n \in Nat
  BY DEF Underway
<1>2. /\ \A a : a # n + 1 /\ a # n + 2 => SameFrames(a)
      /\ FrameGuards(n + 1)' <=> FrameGuards(n + 1)
      /\ Cardinality(FramesOf(n + 1)) = Cardinality(FramesOf(n + 1))' + 1
      /\ Cardinality(FramesOf(n + 1))' \in Nat
  BY <1>1, FrameClosesLemma
<1>3. n + 1 \in 1 .. Len(acts) /\ n + 1 \in 1 .. Len(acts') /\ SameModule(n + 1)
  BY PlacedLemma
<1>4. \A a : SameTries(a)
  BY SameTriesLemma
<1>5. SameEntry(n + 1) /\ SameTries(n + 1)
  BY <1>2, <1>3, <1>4 DEF SameEntry
<1>6. BuiltinCount(n + 1) = BuiltinCount(n + 1)' + 1
  <2>1. Cardinality(NativesOf(n + 1))' = Cardinality(NativesOf(n + 1))
    OBVIOUS
  <2>2. Cardinality(NativesOf(n + 1)) \in Nat
    BY <1>1, CountsLemma
  <2> QED
    BY <1>2, <2>1, <2>2 DEF BuiltinCount
<1>7. Segment(n + 1) = Segment(n + 1)' ++ <<Building>>
  BY <1>1, <1>3, <1>5, <1>6, GrowBuiltinLemma
<1>8. \A a \in 1 .. n : SameTries(a) /\ SameFrames(a) /\ SameNatives(a)
  BY <1>1, <1>2, <1>4, BelowLemma
<1> QED
  BY <1>7, <1>8, ShrinksLemma

LEMMA NativeShrinks ==
  ASSUME NEW n, Underway(n), ~Ended', InPlace, ~Interpreting, natives' = Front(natives),
         tries' = tries, builtins' = IF Last(natives).frame THEN Front(builtins) ELSE builtins
  PROVE  Shrinks(Building)
<1>1. /\ TypeOK /\ TypeOK' /\ n = Depth /\ n \in Nat /\ NativesInOrder /\ FramesInv
  BY DEF Underway
<1>2. /\ \A a : a # n + 1 /\ a # n + 2 => SameNatives(a)
      /\ NativeGuards(n + 1)' <=> NativeGuards(n + 1)
      /\ Last(natives).frame => SameNatives(n + 1)
      /\ ~Last(natives).frame =>
           /\ Cardinality(NativesOf(n + 1)) = Cardinality(NativesOf(n + 1))' + 1
           /\ Cardinality(NativesOf(n + 1))' \in Nat
  BY <1>1, NativeClosesLemma
<1>3. \A a \in 1 .. n : SameNatives(a)
  BY <1>1, <1>2, BelowLemma
<1>4. CASE Last(natives).frame
  <2>1. /\ Len(natives) \in DOMAIN natives /\ Last(natives) = natives[Len(natives)]
        /\ Last(natives).stop = Depth
    BY <1>1, InNativeLemma
  <2>2. PICK i \in DOMAIN builtins : builtins[i].owner = Depth
    BY <1>4, <2>1, <1>1 DEF FramesInv, FramesNative
  <2>3. FrameHere
    BY <1>1, <2>2, FrameHereLemma DEF FramesInv
  <2>4. builtins # <<>> /\ Last(builtins).owner = n
    BY <1>1, <2>3 DEF FrameHere
  <2>5. NativesOf(n + 1)' = NativesOf(n + 1)
    BY <1>2, <1>4 DEF SameNatives
  <2> QED
    BY <1>2, <1>3, <1>4, <2>4, <2>5, FrameShrinks
<1>5. CASE ~Last(natives).frame
  <2>1. \A a : SameTries(a) /\ SameFrames(a)
    BY <1>5, SameTriesLemma, SameFramesLemma
  <2>2. n + 1 \in 1 .. Len(acts) /\ n + 1 \in 1 .. Len(acts') /\ SameModule(n + 1)
    BY PlacedLemma
  <2>3. SameEntry(n + 1) /\ SameTries(n + 1)
    BY <1>2, <2>1, <2>2 DEF SameEntry, SameFrames
  <2>4. BuiltinCount(n + 1) = BuiltinCount(n + 1)' + 1
    <3>1. Cardinality(FramesOf(n + 1))' = Cardinality(FramesOf(n + 1))
      BY <2>1 DEF SameFrames
    <3>2. Cardinality(FramesOf(n + 1)) \in Nat
      BY <1>1, CountsLemma
    <3> QED
      BY <1>2, <1>5, <3>1, <3>2 DEF BuiltinCount
  <2>5. Segment(n + 1) = Segment(n + 1)' ++ <<Building>>
    BY <1>1, <2>2, <2>3, <2>4, GrowBuiltinLemma
  <2>6. \A a \in 1 .. n : SameTries(a) /\ SameFrames(a) /\ SameNatives(a)
    BY <1>3, <2>1
  <2> QED
    BY <2>5, <2>6, ShrinksLemma
<1> QED
  BY <1>4, <1>5

\* An evaluation under way has a call at least.
Standing == ~Ended => OneStack # <<>>

LEMMA StandingLemma ==
  ASSUME TypeOK
  PROVE  Standing
<1> SUFFICES ASSUME ~Ended
             PROVE  OneStack # <<>>
  BY DEF Standing
<1>1. PICK n : n = Depth
  OBVIOUS
<1>2. n \in Nat /\ n + 1 \in 1 .. Len(acts)
  BY <1>1, HereLemma, VmCallsAssumption
<1>3. StackAt(n)
  BY <1>1, StackAtLemma
<1>4. /\ Segment(n + 1) = Seg(Entry(n + 1), TryCount(n + 1), BuiltinCount(n + 1)) /\ Entry(n + 1) \in All
      /\ TryCount(n + 1) \in Nat /\ BuiltinCount(n + 1) \in Nat
  BY <1>2, SegmentLemma
<1>5. Len(Segment(n + 1)) = 1 + TryCount(n + 1) + BuiltinCount(n + 1)
  BY <1>4, SegLemma
<1> DEFINE p == Under(n)
           q == Segment(n + 1)
<1>6. p \in Seq(All) /\ q \in Seq(All) /\ OneStack = p ++ q
  BY <1>3 DEF StackAt
<1>7. Len(q) # 0
  BY <1>4, <1>5
<1> HIDE DEF p, q
<1>8. Len(p ++ q) = Len(p) + Len(q) /\ Len(p) \in Nat /\ Len(q) \in Nat
  BY <1>6, JoinLemma
<1>9. Len(OneStack) # 0
  BY <1>6, <1>7, <1>8
<1> QED
  BY <1>9, EmptySeq

LEMMA StandsLemma ==
  ASSUME TypeOK', ~Ended'
  PROVE  OneStack' # <<>>
<1>1. (TypeOK => Standing)'
  BY StandingLemma, PTL
<1> QED
  BY <1>1 DEF Standing

\* What is left, handled or unwound is one region or one builtin.
LEMMA LeavesOne ==
  ASSUME NEW n, Underway(n), NEW x \in {Trying, Building}, Shrinks(x),
         Thrown = "none", Thrown' = "none", UNCHANGED cache
  PROVE  Refined
<1> DEFINE q == <<x>>
<1>1. q \in Seq(All) /\ Len(q) = 1 /\ q[1] = x /\ OneStack = OneStack' ++ q /\ OneStack' \in Seq(All)
  BY OneLemma, ContextLemma DEF Shrinks
<1> HIDE DEF q
<1>2. /\ Len(q) > 0 /\ \A i \in 2 .. Len(q) : q[i].kind # "call"
      /\ \A i \in 1 .. Len(q) : q[i].module \in {NoModule, NoModule}
  BY <1>1, ContextLemma
<1>3. Settled(NoModule, "loaded") /\ Going
  BY SettledLemma DEF Underway
<1> QED
  BY <1>1, <1>2, <1>3, LeaveStep DEF Refined

LEMMA UnwindsOne ==
  ASSUME NEW n, Underway(n), ~Ended', Shrinks(Building),
         Thrown # "none", Thrown' = Thrown, UNCHANGED cache
  PROVE  Refined
<1> DEFINE q == <<Building>>
<1>1. q \in Seq(All) /\ Len(q) = 1 /\ q[1] = Building /\ OneStack = OneStack' ++ q /\ OneStack' \in Seq(All)
  BY OneLemma, ContextLemma DEF Shrinks
<1> HIDE DEF q
<1>2. /\ Len(q) > 0 /\ \A i \in 1 .. Len(q) : q[i].module \in {NoModule, NoModule}
      /\ \A i \in 1 .. Len(q) : ~Stack!Handles(q[i], Thrown)
  BY <1>1, ContextLemma DEF Stack!Handles
<1>3. Settled(NoModule, "none") /\ Going /\ OneStack' # <<>>
  BY SettledLemma, StandsLemma DEF Underway
<1>4. Thrown' = IF OneStack' = <<>> THEN "none" ELSE Thrown
  BY <1>3
<1> QED
  BY <1>1, <1>2, <1>3, <1>4, UnwindStep DEF Refined

LEMMA HandlesOne ==
  ASSUME NEW n, Underway(n), Shrinks(Trying), Thrown = "user", Thrown' = "none", UNCHANGED cache
  PROVE  Refined
<1> DEFINE q == <<Trying>>
<1>1. q \in Seq(All) /\ Len(q) = 1 /\ q[1] = Trying /\ OneStack = OneStack' ++ q /\ OneStack' \in Seq(All)
  BY OneLemma, ContextLemma DEF Shrinks
<1> HIDE DEF q
<1>2. /\ Len(q) > 0 /\ \A i \in 1 .. Len(q) : q[i].module = NoModule
      /\ Stack!Handles(q[1], Thrown)
      /\ \A i \in 2 .. Len(q) : ~Stack!Handles(q[i], Thrown)
  BY <1>1, ContextLemma DEF Stack!Handles
<1>3. TypeOK /\ Going
  BY DEF Underway
<1> QED
  BY <1>1, <1>2, <1>3, HandleStep DEF Refined

LEMMA ThrowsLemma ==
  ASSUME NEW n, Underway(n), Thrown = "none", NEW e \in {"user", "machine"}, Thrown' = e,
         UNCHANGED cache,
         (OneStack' = OneStack /\ OneStack \in Seq(All)) \/ Shrinks(Building)
  PROVE  Refined
<1>1. Going
  BY DEF Underway
<1> QED
  BY <1>1, ThrowStep DEF Refined, Shrinks

\* Regions and builtins that end with a value.
LEMMA MadeEnds ==
  ASSUME NEW n, Underway(n), FinishTry \/ NativeReturns \/ FrameEnds("none")
  PROVE  Refined
<1>1. /\ TypeOK /\ n \in Nat /\ n = Depth /\ FramesInv /\ NativesInOrder /\ Pending /\ Going
      /\ {input, hostError} \subseteq BOOLEAN
  BY DEF Underway, TypeOK
<1>2. error = "none" /\ error' = "none" /\ hostError' = hostError /\ status = "running" /\ status' = status
      /\ UNCHANGED cache
  BY DEF FinishTry, NativeReturns, FrameEnds, NativeEnds, InNative, FrameStep, Free, Loop, control, modules
<1>3. ~hostError
  BY <1>1 DEF FinishTry, NativeReturns, FrameEnds, InNative, FrameStep, Free, Pending
<1>4. Thrown = "none" /\ Thrown' = "none" /\ ~Ended'
  BY <1>2, <1>3, ThrownLemma DEF Ended
<1>5. InPlace
  BY <1>1, InPlaceLemma DEF FinishTry, NativeReturns, NativeEnds, FrameEnds, Regions
<1>6. CASE FinishTry
  <2>1. /\ Interpreting /\ ~Runnable /\ AtBoundary /\ tries' = Front(tries)
        /\ UNCHANGED <<builtins, natives>>
    BY <1>1, <1>6 DEF FinishTry, Free, Loop, Going, control
  <2>2. Idle /\ TryHere
    BY <1>1, <2>1, IdleLemma DEF AtBoundary
  <2>3. Shrinks(Trying)
    BY <1>4, <1>5, <2>1, <2>2, TryShrinks
  <2> QED
    BY <1>2, <1>4, <2>3, LeavesOne
<1>7. CASE NativeReturns
  <2>1. ~Interpreting /\ natives' = Front(natives) /\ tries' = tries /\ builtins' = builtins
    BY <1>7 DEF NativeReturns, NativeEnds, InNative
  <2>2. CASE ~Last(natives).frame
    <3>1. Shrinks(Building)
      BY <1>4, <1>5, <2>1, <2>2, NativeShrinks
    <3> QED
      BY <1>2, <1>4, <3>1, LeavesOne
  <2>3. CASE Last(natives).frame
    <3>1. /\ \A a : a # n + 1 /\ a # n + 2 => SameNatives(a)
          /\ SameNatives(n + 1)
      BY <1>1, <2>1, <2>3, NativeClosesLemma
    <3>2. \A a \in 1 .. n + 1 : a # n + 2
      BY <1>1
    <3>3. \A a \in 1 .. n + 1 : SameTries(a) /\ SameFrames(a) /\ SameNatives(a)
      BY <2>1, <3>1, <3>2, SameTriesLemma, SameFramesLemma
    <3>4. Thrown' = Thrown
      BY <1>4
    <3> QED
      BY <1>2, <1>4, <1>5, <3>3, <3>4, StutterLemma
  <2> QED
    BY <2>2, <2>3
<1>8. CASE FrameEnds("none")
  <2>1. FrameStep /\ builtins' = Front(builtins) /\ UNCHANGED <<tries, natives>>
    BY <1>8 DEF FrameEnds
  <2>2. builtins # <<>> /\ Last(builtins).owner = n
    BY <2>1, SteppingLemma
  <2>3. \A a : SameNatives(a)
    BY <2>1, SameNativesLemma
  <2>4. Shrinks(Building)
    BY <1>4, <1>5, <2>1, <2>2, <2>3, FrameShrinks DEF SameNatives
  <2> QED
    BY <1>2, <1>4, <2>4, LeavesOne
<1> QED
  BY <1>6, <1>7, <1>8

\* Errors that are raised in the interpreter, where the stack stays as it is.
LEMMA RaisesLemma ==
  ASSUME NEW n, Underway(n), ~Ended', InPlace, UNCHANGED <<tries, builtins, natives, cache>>,
         Thrown = "none", Interpreting,
         NEW e \in {"user", "machine"}, IF hostError' THEN e = "user" ELSE error' = e
  PROVE  Refined
<1>1. \A a \in 1 .. n + 1 : SameTries(a) /\ SameFrames(a) /\ SameNatives(a)
  BY SameTriesLemma, SameFramesLemma, SameNativesLemma
<1>2. OneStack' = OneStack /\ OneStack \in Seq(All)
  BY <1>1, KeepsLemma
<1>3. Interpreting'
  BY DEF Interpreting, InPlace
<1>4. Thrown' = e
  BY <1>3 DEF Thrown, InNative
<1> QED
  BY <1>2, <1>4, ThrowsLemma

LEMMA MadeRaises ==
  ASSUME NEW n, Underway(n),
         \/ ~Room /\ \/ \E code \in Codes : Call(code)
                     \/ \E m \in Modules : Import(m)
         \/ \E e \in {"user", "machine"} : Raise(e)
  PROVE  Refined
<1>1. TypeOK
  BY DEF Underway
<1>2. /\ CanExecute /\ UNCHANGED <<tries, builtins, natives, hostError, cache, status>>
  BY DEF Call, Import, Raise, modules
<1>3. /\ Thrown = "none" /\ Interpreting /\ status = "running" /\ ~hostError
  BY <1>2, ExecutingLemma
<1>4. ~hostError' /\ ~Ended'
  BY <1>2, <1>3 DEF Ended
<1>5. InPlace
  <2>1. CASE ~Room /\ \/ \E code \in Codes : Call(code)
                      \/ \E m \in Modules : Import(m)
    <3>1. \E lex \in After : Position(lex) /\ UNCHANGED <<tries, unpacks>>
      BY <2>1 DEF Call, Import
    <3>2. Leaves
      BY <1>1, <3>1, LeavesLemma
    <3> QED
      BY <1>1, <3>2, InPlaceLemma
  <2>2. CASE \E e \in {"user", "machine"} : Raise(e)
    BY <1>1, <2>2, InPlaceLemma DEF Raise
  <2> QED
    BY <2>1, <2>2
<1>6. PICK e \in {"user", "machine"} : error' = e
  BY DEF Call, Import, Raise
<1> QED
  BY <1>2, <1>3, <1>4, <1>5, <1>6, RaisesLemma

\* Builtins that fail.
LEMMA MadeFailures ==
  ASSUME NEW n, Underway(n),
         \/ FrameEnds("user")
         \/ ~Room /\ \E code \in Codes : FrameCalls(code)
         \/ NativeFails
  PROVE  Refined
<1>1. /\ TypeOK /\ n \in Nat /\ n = Depth /\ NativesInOrder /\ Pending
      /\ {input, hostError} \subseteq BOOLEAN /\ error \in {"none", "user", "machine"}
  BY DEF Underway, TypeOK
<1>2. /\ acts' = acts /\ UNCHANGED <<tries, hostError, cache, status>> /\ status = "running"
  BY DEF FrameEnds, FrameCalls, NativeFails, NativeEnds, InNative, FrameStep, Free, Loop, modules
<1>3. InPlace /\ ~Ended'
  BY <1>1, <1>2, InPlaceLemma DEF Ended
<1>4. ASSUME FrameStep, builtins' = Front(builtins), natives' = natives, error' = "user"
      PROVE  Refined
  <2>1. /\ Thrown = "none" /\ Interpreting /\ ~hostError
        /\ builtins # <<>> /\ Last(builtins).owner = n
    BY <1>4, SteppingLemma
  <2>2. \A a : SameNatives(a)
    BY <1>4, SameNativesLemma
  <2>3. Shrinks(Building)
    BY <1>2, <1>3, <1>4, <2>1, <2>2, FrameShrinks DEF SameNatives
  <2>4. Interpreting'
    BY <1>3, <1>4, <2>1 DEF Interpreting, InPlace
  <2>5. Thrown' = "user"
    BY <1>2, <1>4, <2>1, <2>4, ThrownLemma
  <2> QED
    BY <1>2, <2>1, <2>3, <2>5, ThrowsLemma
<1>5. CASE FrameEnds("user")
  BY <1>4, <1>5 DEF FrameEnds
<1>6. CASE ~Room /\ \E code \in Codes : FrameCalls(code)
  BY <1>4, <1>6 DEF FrameCalls
<1>7. CASE NativeFails
  <2>1. ~Interpreting /\ natives' = Front(natives)
    BY <1>7 DEF NativeFails, NativeEnds, InNative
  <2>2. ~hostError /\ ~hostError'
    BY <1>1, <1>2, <2>1 DEF Pending
  <2>3. /\ error' = IF error = "none" THEN "user" ELSE error
        /\ error # "none" => ~Last(natives).captures
        /\ builtins' = IF Last(natives).frame THEN Front(builtins) ELSE builtins
    BY <1>1, <1>7 DEF NativeFails, NativeEnds
  <2>4. Shrinks(Building)
    BY <1>2, <1>3, <2>1, <2>3, NativeShrinks
  <2>5. Interpreting'
    <3>1. /\ Len(natives) \in Nat \ {0} /\ Len(Front(natives)) = Len(natives) - 1
          /\ DOMAIN Front(natives) = 1 .. Len(natives) - 1
          /\ \A k \in DOMAIN Front(natives) :
               Front(natives)[k] = natives[k] /\ natives[k].stop < Depth
          /\ Front(natives) \in Seq(Natives)
      BY <1>1, <2>1, InNativeLemma
    <3> DEFINE f == Front(natives)
    <3>2. Len(f) \in Nat /\ DOMAIN f = 1 .. Len(f) /\ f \in Seq(Natives)
          /\ \A k \in DOMAIN f : f[k].stop < Depth
      BY <3>1
    <3> HIDE DEF f
    <3>3. f # <<>> => f[Len(f)].stop < Depth
      <4>1. f # <<>> => Len(f) # 0
        BY <3>2, EmptySeq
      <4> QED
        BY <3>2, <4>1
    <3>4. natives' = f /\ Depth' = Depth
      BY <1>3, <2>1 DEF InPlace, f
    <3> QED
      BY <3>3, <3>4 DEF Interpreting, Last
  <2>6. Thrown' = error'
    BY <2>2, <2>5, ThrownLemma
  <2>7. CASE error = "none"
    <3>1. Thrown = "none" /\ Thrown' = "user"
      BY <2>2, <2>3, <2>6, <2>7, ThrownLemma
    <3> QED
      BY <1>2, <2>4, <3>1, ThrowsLemma
  <2>8. CASE error # "none"
    <3>1. Thrown = error /\ Thrown' = error
      BY <2>2, <2>3, <2>6, <2>8 DEF Thrown
    <3> QED
      BY <1>2, <1>3, <2>4, <2>8, <3>1, UnwindsOne
  <2> QED
    BY <2>7, <2>8
<1> QED
  BY <1>5, <1>6, <1>7

\* The host answers.
LEMMA MadeAnswers ==
  ASSUME NEW n, Underway(n), NEW ok \in BOOLEAN, ResumeInput(ok)
  PROVE  Refined
<1>1. /\ TypeOK /\ n \in Nat /\ n = Depth /\ Pending /\ {input, hostError} \subseteq BOOLEAN
  BY DEF Underway, TypeOK
<1>2. /\ status = "awaiting" /\ status' = "running" /\ hostError' = ~ok
      /\ UNCHANGED <<acts, tries, natives, cache, error>>
      /\ builtins' = IF ~ok /\ FrameHere /\ Last(builtins).wait = "input"
                       THEN Front(builtins) ELSE builtins
  BY DEF ResumeInput, modules
<1>3. input /\ error = "none" /\ ~hostError /\ Interpreting
  BY <1>1, <1>2 DEF Pending
<1>4. InPlace /\ ~Ended'
  BY <1>1, <1>2, InPlaceLemma DEF Ended
<1>5. Thrown = "none"
  BY <1>3, ThrownLemma
<1>6. CASE ok
  <2>1. Thrown' = "none"
    BY <1>2, <1>3, <1>6, ThrownLemma
  <2> QED
    BY <1>2, <1>4, <1>5, <1>6, <2>1, QuietLemma
<1>7. CASE ~ok /\ ~ (FrameHere /\ Last(builtins).wait = "input")
  BY <1>2, <1>3, <1>4, <1>5, <1>7, RaisesLemma
<1>8. CASE ~ok /\ FrameHere /\ Last(builtins).wait = "input"
  <2>1. builtins' = Front(builtins) /\ builtins # <<>> /\ Last(builtins).owner = n
    BY <1>1, <1>2, <1>8 DEF FrameHere
  <2>2. \A a : SameNatives(a)
    BY <1>2, SameNativesLemma
  <2>3. Shrinks(Building)
    BY <1>2, <1>4, <2>1, <2>2, FrameShrinks DEF SameNatives
  <2>4. Thrown' = "user"
    BY <1>2, <1>8 DEF Thrown
  <2> QED
    BY <1>2, <1>5, <2>3, <2>4, ThrowsLemma
<1> QED
  BY <1>6, <1>7, <1>8

\* A try region catches.
LEMMA MadeCatches ==
  ASSUME NEW n, Underway(n), CatchTry
  PROVE  Refined
<1>1. /\ TypeOK /\ n \in Nat /\ n = Depth /\ Pending /\ {input, hostError} \subseteq BOOLEAN /\ FramesInv
  BY DEF Underway, TypeOK
<1>2. /\ status = "running" /\ error = "user" /\ Interpreting /\ TryHere
      /\ tries' = Front(tries) /\ error' = "none"
      /\ UNCHANGED <<builtins, natives, hostError, cache, status>>
  BY DEF CatchTry, Unwinding, Catches, modules
<1>3. ~hostError
  BY <1>1, <1>2 DEF Pending
<1>4. InPlace /\ ~Ended'
  BY <1>1, <1>2, InPlaceLemma DEF Ended, Regions
<1>5. Idle
  BY <1>1, <1>2 DEF FramesInv, FramesClear
<1>6. Thrown = "user" /\ Thrown' = "none"
  BY <1>2, <1>3, ThrownLemma
<1>7. Shrinks(Trying)
  BY <1>2, <1>4, <1>5, TryShrinks
<1> QED
  BY <1>2, <1>6, <1>7, HandlesOne

-----------------------------------------------------------------------------
(* What the mapping needs to know of the machine besides.                  *)

\* What a builtin written in Rust calls initializes no module.
NativePlain ==
  \A k \in DOMAIN natives : natives[k].stop < Depth => acts[natives[k].stop + 2].module = NoModule

\* An evaluation that has ended has left no call and no error.
RestInv == Ended => Depth = 0 /\ error = "none" /\ ~hostError

RInv == IInv /\ NativePlain /\ RestInv

LEMMA RunningLemma ==
  ASSUME Execute
  PROVE  status = "running"
<1> USE DEF CanExecute, Free, Loop, InNative, Unwinding, FrameStep
<1>1. CASE \E code \in Codes : Call(code) \/ TailCall(code) \/ NativeCalls(code) \/ FrameCalls(code)
  BY <1>1 DEF Call, TailCall, NativeCalls, FrameCalls
<1>2. CASE Return \/ HaltLeave \/ FinishTry
  BY <1>2 DEF Return, HaltLeave, FinishTry
<1>3. CASE TryOpen \/ UnpackOpen \/ UnpackClose
  BY <1>3 DEF TryOpen, UnpackOpen, UnpackClose, OpenRegion
<1>4. CASE \/ \E k \in 0 .. Len(Here.lex) - 1 : Jump(k)
           \/ \E e \in {"user", "machine"} : Raise(e)
           \/ \E m \in Modules : Import(m)
  BY <1>4 DEF Jump, Raise, Import
<1>5. CASE CatchTry \/ CaptureError \/ UnwindCall \/ FailEvaluation
  BY <1>5 DEF CatchTry, CaptureError, UnwindCall, FailEvaluation
<1>6. CASE \E captures \in BOOLEAN : StartFrame(captures) \/ StartNative(captures)
  BY <1>6 DEF StartFrame, StartNative
<1>7. CASE NativeReturns \/ NativeFails \/ NativeCaptures
  BY <1>7 DEF NativeReturns, NativeFails, NativeCaptures
<1>8. CASE FrameCallsAtomic \/ FrameReads \/ FrameAcceptsInput \/ \E e \in {"none", "user"} : FrameEnds(e)
  BY <1>8 DEF FrameCallsAtomic, FrameReads, FrameAcceptsInput, FrameEnds
<1>9. CASE Input \/ Suspend \/ RaiseHostError
  BY <1>9 DEF Input, Suspend, RaiseHostError
<1> QED
  BY <1>1, <1>2, <1>3, <1>4, <1>5, <1>6, <1>7, <1>8, <1>9 DEF Execute

\* The steps that builtins written in Rust take part in.
NativesStart ==
  \E native \in Natives : /\ acts' = acts \/ Leaves
                          /\ native.stop = Depth /\ natives' = Append(natives, native)
NativesEnd == acts' = acts /\ ~Interpreting /\ natives' = Front(natives)

LEMMA NativesStepLemma ==
  ASSUME TypeOK, [Next]_vars
  PROVE  \/ natives' = natives \/ natives' = <<>> \/ NativesStart \/ NativesEnd
<1>1. CASE Execute
  <2>1. CASE \E code \in Codes : Call(code) \/ TailCall(code) \/ NativeCalls(code) \/ FrameCalls(code)
    BY <2>1 DEF Call, TailCall, NativeCalls, FrameCalls, control
  <2>2. CASE Return \/ HaltLeave \/ FinishTry
    BY <2>2 DEF Return, HaltLeave, FinishTry, FinishCall, control
  <2>3. CASE TryOpen \/ UnpackOpen \/ UnpackClose
    BY <2>3 DEF TryOpen, UnpackOpen, UnpackClose, control
  <2>4. CASE \/ \E k \in 0 .. Len(Here.lex) - 1 : Jump(k)
             \/ \E e \in {"user", "machine"} : Raise(e)
             \/ \E m \in Modules : Import(m)
    BY <2>4 DEF Jump, Raise, Import, control
  <2>5. CASE CatchTry \/ CaptureError \/ UnwindCall \/ FailEvaluation
    BY <2>5 DEF CatchTry, CaptureError, UnwindCall, FailEvaluation, control
  <2>6. ASSUME NEW captures \in BOOLEAN, StartFrame(captures)
        PROVE  natives' = natives
    BY <2>6 DEF StartFrame, control
  <2>7. ASSUME NEW captures \in BOOLEAN, StartNative(captures)
        PROVE  NativesStart
    <3>1. Native(captures, FALSE) \in Natives /\ Native(captures, FALSE).stop = Depth
      BY HereLemma DEF Native, Natives, TypeOK
    <3>2. Leaves /\ natives' = Append(natives, Native(captures, FALSE))
      BY <2>7, LeavesLemma DEF StartNative
    <3> QED
      BY <3>1, <3>2 DEF NativesStart
  <2>8. CASE NativeReturns \/ NativeFails
    BY <2>8 DEF NativeReturns, NativeFails, NativeEnds, NativesEnd, InNative
  <2>9. CASE NativeCaptures
    BY <2>9 DEF NativeCaptures
  <2>10. CASE FrameCallsAtomic
    <3>1. Native(FALSE, TRUE) \in Natives /\ Native(FALSE, TRUE).stop = Depth
      BY HereLemma DEF Native, Natives, TypeOK
    <3>2. acts' = acts /\ natives' = Append(natives, Native(FALSE, TRUE))
      BY <2>10 DEF FrameCallsAtomic
    <3> QED
      BY <3>1, <3>2 DEF NativesStart
  <2>11. CASE FrameReads \/ FrameAcceptsInput \/ \E e \in {"none", "user"} : FrameEnds(e)
    BY <2>11 DEF FrameReads, FrameAcceptsInput, FrameEnds, control
  <2>12. CASE Input \/ Suspend \/ RaiseHostError
    BY <2>12 DEF Input, Suspend, RaiseHostError, control
  <2> QED
    BY <1>1, <2>1, <2>2, <2>3, <2>4, <2>5, <2>6, <2>7, <2>8, <2>9, <2>10, <2>11, <2>12 DEF Execute
<1>2. CASE Interrupt
  BY <1>2 DEF Interrupt
<1>3. CASE Host
  BY <1>3 DEF Host, Start, TakeHalt, Cancel, ResetWorkspace, ResetExecution, ResumeInput, Clear
<1>4. CASE UNCHANGED vars
  BY <1>4 DEF vars
<1> QED
  BY <1>1, <1>2, <1>3, <1>4 DEF Next

LEMMA NativePlainLemma ==
  ASSUME IInv, IInv', NativePlain, [Next]_vars
  PROVE  NativePlain'
<1>1. TypeOK /\ TypeOK' /\ NativesInOrder /\ FlowInv
  BY DEF IInv, FlowInv
<1>2. /\ Depth \in Nat /\ Len(acts) = Depth + 1
      /\ \A k \in DOMAIN natives : natives[k].stop \in Nat /\ natives[k].stop <= Depth
  BY <1>1, HereLemma, NativesLemma, VmCallsAssumption DEF NativesInOrder
<1>3. ASSUME natives' = natives, InPlace
      PROVE  NativePlain'
  BY <1>2, <1>3 DEF NativePlain, InPlace
<1>4. ASSUME natives' = natives, Rises
      PROVE  NativePlain'
  <2>1. \A k \in DOMAIN natives : natives[k].stop < Depth - 1 =>
          natives[k].stop < Depth /\ natives[k].stop + 2 \in 1 .. Depth
    BY <1>2
  <2> QED
    BY <1>4, <2>1 DEF NativePlain, Rises
<1>5. ASSUME natives' = natives, NEW m, Deepens(m), m = NoModule \/ Interpreting
      PROVE  NativePlain'
  <2>1. \A k \in DOMAIN natives :
          \/ natives[k].stop < Depth /\ natives[k].stop + 2 \in 1 .. Depth + 1
          \/ natives[k].stop = Depth /\ natives[k].stop + 2 = Depth + 2
    BY <1>2
  <2>2. Interpreting => \A k \in DOMAIN natives : natives[k].stop # Depth
    BY <1>1, <1>2, InterpretingLemma
  <2> QED
    BY <1>5, <2>1, <2>2 DEF NativePlain, Deepens
<1>6. CASE natives' = natives
  <2>1. StackStep
    BY <1>1, NextStackStep
  <2>2. CASE Live /\ UNCHANGED modules /\ Pushes(NoModule)
    BY <1>1, <1>5, <1>6, <2>2, DeepensLemma
  <2>3. CASE Leaves \/ Recodes \/ Ends \/ Regions \/ Stays
    BY <1>1, <1>3, <1>6, <2>3, InPlaceLemma DEF Ends, Stays
  <2>4. ASSUME NEW m \in Modules, Imports(m)
        PROVE  NativePlain'
    <3>1. Deepens(m) /\ Interpreting
      BY <1>1, <2>4, DeepensLemma DEF Imports, CanExecute, Free, Loop
    <3> QED
      BY <1>5, <1>6, <3>1
  <2>5. CASE Pops
    BY <1>1, <1>4, <1>6, <2>5, RisesLemma
  <2>6. CASE Resets
    <3>1. Depth' = 0
      BY <2>6, RootLemma DEF Resets, Depth
    <3> QED
      BY <1>2, <1>6, <3>1 DEF NativePlain
  <2> QED
    BY <2>1, <2>2, <2>3, <2>4, <2>5, <2>6 DEF StackStep
<1>7. CASE natives' = <<>>
  BY <1>7, EmptySeq DEF NativePlain
<1>8. CASE NativesStart
  <2>1. PICK native \in Natives : /\ acts' = acts \/ Leaves
                                  /\ native.stop = Depth /\ natives' = Append(natives, native)
    BY <1>8 DEF NativesStart
  <2>2. InPlace
    BY <1>1, <2>1, InPlaceLemma
  <2>3. /\ DOMAIN natives = 1 .. Len(natives)
        /\ DOMAIN natives' = 1 .. Len(natives) + 1 /\ natives'[Len(natives) + 1] = native
        /\ \A i \in 1 .. Len(natives) : natives'[i] = natives[i]
        /\ Len(natives) \in Nat
    BY <1>1, <2>1, NativesLemma, AppendLemma
  <2>4. \A k \in DOMAIN natives' : k \in DOMAIN natives \/ k = Len(natives) + 1
    BY <2>3
  <2>5. ASSUME NEW k \in DOMAIN natives', natives'[k].stop < Depth'
        PROVE  acts'[natives'[k].stop + 2].module = NoModule
    <3>1. Depth' = Depth
      BY <2>2 DEF InPlace
    <3>2. k \in DOMAIN natives
      BY <1>2, <2>1, <2>3, <2>4, <2>5, <3>1
    <3>3. natives'[k] = natives[k]
      BY <2>3, <3>2
    <3>4. natives[k].stop + 2 \in 1 .. Depth + 1 /\ acts[natives[k].stop + 2].module = NoModule
      BY <1>2, <2>5, <3>1, <3>2, <3>3 DEF NativePlain
    <3> QED
      BY <2>2, <3>3, <3>4 DEF InPlace
  <2> QED
    BY <2>5 DEF NativePlain
<1>9. CASE NativesEnd
  <2>1. /\ acts' = acts /\ DOMAIN Front(natives) = 1 .. Len(natives) - 1
        /\ \A k \in DOMAIN Front(natives) :
             k \in DOMAIN natives /\ Front(natives)[k] = natives[k]
    BY <1>1, <1>9, InNativeLemma DEF NativesEnd
  <2>2. natives' = Front(natives) /\ Depth' = Depth
    BY <1>9, <2>1 DEF NativesEnd, Depth
  <2> QED
    BY <2>1, <2>2 DEF NativePlain
<1> QED
  BY <1>1, <1>6, <1>7, <1>8, <1>9, NativesStepLemma

LEMMA RestLemma ==
  ASSUME IInv, RestInv, [Next]_vars
  PROVE  RestInv'
<1> SUFFICES ASSUME Ended'
             PROVE  Depth' = 0 /\ error' = "none" /\ ~hostError'
  BY DEF RestInv
<1>1. CASE ~Ended
  <2>1. Depth' = 0
    BY <1>1, EndsCleanLemma
  <2>2. CASE Return \/ HaltLeave
    BY <2>1, <2>2 DEF Return, HaltLeave, FinishCall, CanExecute, Free, Loop, control
  <2>3. CASE FailEvaluation
    <3>1. Pending /\ {input, hostError} \subseteq BOOLEAN
      BY <2>3 DEF IInv, FlowInv, FailEvaluation, Unwinding, Live, TypeOK
    <3>2. error # "none" /\ error' = "none" /\ hostError' = hostError
      BY <2>3 DEF FailEvaluation, Unwinding
    <3> QED
      BY <2>1, <3>1, <3>2 DEF Pending
  <2>4. CASE Cancel
    BY <2>1, <2>4 DEF Cancel, ResetExecution, Clear
  <2> QED
    BY <1>1, <2>2, <2>3, <2>4, EndingLemma
<1>2. CASE Ended
  <2>1. status \in {"ready", "failed"} /\ Depth = 0 /\ error = "none" /\ ~hostError
    BY <1>2 DEF Ended, RestInv
  <2>2. ~Execute
    BY <2>1, RunningLemma
  <2>3. CASE Interrupt
    BY <2>1, <2>3 DEF Interrupt, Depth
  <2>4. CASE Host
    <3>1. ~ \E code \in Codes, mode \in Modes : Start(code, mode)
      BY DEF Start, Ended
    <3>2. CASE TakeHalt
      BY <2>1, <3>2 DEF TakeHalt, Depth
    <3>3. CASE Cancel \/ ResetWorkspace
      <4>1. acts' = Root(CHOOSE code \in Codes : TRUE) /\ error' = "none" /\ ~hostError'
        BY <3>3 DEF Cancel, ResetWorkspace, ResetExecution, Clear
      <4>2. Depth' = 0
        BY <4>1 DEF Depth, Root
      <4> QED
        BY <4>1, <4>2
    <3>4. ~ \E ok \in BOOLEAN : ResumeInput(ok)
      BY <2>1 DEF ResumeInput
    <3> QED
      BY <2>4, <3>1, <3>2, <3>3, <3>4 DEF Host
  <2>5. CASE UNCHANGED vars
    BY <2>1, <2>5 DEF vars, Depth
  <2> QED
    BY <2>2, <2>3, <2>4, <2>5 DEF Next
<1> QED
  BY <1>1, <1>2

LEMMA RInvariantLemma == Spec => []RInv
<1>1. ASSUME Init
      PROVE  RInv
  <2>1. IInv
    BY <1>1, InitLemma
  <2>2. NativePlain
    BY <1>1, EmptySeq DEF Init, NativePlain
  <2>3. Depth = 0 /\ error = "none" /\ ~hostError
    BY <1>1, RootLemma DEF Init, Depth
  <2> QED
    BY <2>1, <2>2, <2>3 DEF RInv, RestInv
<1>2. ASSUME RInv, [Next]_vars
      PROVE  RInv'
  <2>1. IInv'
    BY <1>2, StepLemma DEF RInv
  <2> QED
    BY <1>2, <2>1, NativePlainLemma, RestLemma DEF RInv
<1> QED
  BY <1>1, <1>2, PTL DEF Spec

-----------------------------------------------------------------------------
(* The running activation ends.                                            *)

\* If it is in a try region, the innermost try frame is its own.
LEMMA OwnTriesLemma ==
  ASSUME TypeOK, TriesInv, NEW n, n = Depth, TriesOf(n + 1) # {}
  PROVE  TryHere
<1>1. Depth \in Nat /\ Len(acts) = Depth + 1 /\ Here = acts[Depth + 1]
  BY HereLemma, VmCallsAssumption
<1>2. PICK i \in DOMAIN tries : tries[i].depth + 1 = n + 1
  BY DEF TriesOf
<1> DEFINE l == Len(tries)
<1>3. /\ l \in Nat /\ DOMAIN tries = 1 .. l
      /\ \A j \in DOMAIN tries : tries[j].depth \in Nat
  BY TriesLemma
<1>4. tries # <<>> /\ Last(tries) = tries[l] /\ l \in DOMAIN tries /\ i <= l
  BY <1>2, <1>3, EmptySeq DEF Last
<1>5. tries[i].depth = Depth
  BY <1>1, <1>2, <1>3
<1>6. tries[l].depth <= Depth /\ tries[l].code = acts[tries[l].depth + 1].code
  BY <1>4 DEF TriesInv, TriesPlaced
<1>7. i = l \/ Before(tries[i], tries[l])
  BY <1>3, <1>4 DEF TriesInv, TriesSorted
<1>8. tries[l].depth = Depth
  BY <1>1, <1>3, <1>4, <1>5, <1>6, <1>7 DEF Before
<1> QED
  BY <1>1, <1>4, <1>6, <1>8 DEF TryHere

\* Its call and its try regions.
LEMMA TopSegmentLemma ==
  ASSUME NEW n, Underway(n), Idle, Interpreting
  PROVE  /\ Segment(n + 1) \in Seq(All) /\ Len(Segment(n + 1)) \in Nat /\ Len(Segment(n + 1)) > 0
         /\ Segment(n + 1)[1].kind = "call" /\ Segment(n + 1)[1].module = Here.module
         /\ Segment(n + 1)[1].captured = Guarded(n + 1)
         /\ \A i \in 2 .. Len(Segment(n + 1)) : Segment(n + 1)[i] = Trying /\ TryHere
<1>1. /\ TypeOK /\ n = Depth /\ n \in Nat /\ Len(acts) = n + 1 /\ FramesInv /\ NativesInOrder /\ TriesInv
  BY DEF Underway
<1>2. Cardinality(FramesOf(n + 1)) = 0 /\ Cardinality(NativesOf(n + 1)) = 0
  BY <1>1, NoFramesLemma, NoNativesLemma
<1>3. BuiltinCount(n + 1) = 0
  BY <1>2 DEF BuiltinCount
<1> DEFINE c == Entry(n + 1)
           t == TryCount(n + 1)
<1>4. /\ Segment(n + 1) = Seg(c, t, BuiltinCount(n + 1)) /\ c \in All /\ t \in Nat
      /\ c.kind = "call" /\ c.module = acts[n + 1].module /\ c.captured = Guarded(n + 1)
  <2>1. n + 1 \in 1 .. Len(acts)
    BY <1>1
  <2> QED
    BY <1>1, <2>1, SegmentLemma
<1>5. t > 0 => TryHere
  <2>1. t > 0 => TriesOf(n + 1) # {}
    BY FS_EmptySet DEF TryCount
  <2> QED
    BY <1>1, <2>1, OwnTriesLemma
<1>6. Here.module = acts[n + 1].module
  BY <1>1, HereLemma
<1> HIDE DEF c, t
<1>7. Segment(n + 1) = Seg(c, t, 0)
  BY <1>3, <1>4
<1> DEFINE q == Seg(c, t, 0)
<1>8. /\ q \in Seq(All) /\ Len(q) = 1 + t + 0 /\ q[1] = c
      /\ \A i \in 2 .. 1 + t + 0 : (q[i] = Trying /\ t > 0) \/ (q[i] = Building /\ 0 > 0)
  <2>1. PICK b : b = 0 /\ b \in Nat
    OBVIOUS
  <2>2. /\ Seg(c, t, b) \in Seq(All) /\ Len(Seg(c, t, b)) = 1 + t + b /\ Seg(c, t, b)[1] = c
        /\ \A i \in 2 .. 1 + t + b :
             \/ Seg(c, t, b)[i] = Trying /\ t > 0
             \/ Seg(c, t, b)[i] = Building /\ b > 0
    BY <1>4, <2>1, SegLemma
  <2> QED
    BY <2>1, <2>2
<1> HIDE DEF q
<1>9. Len(q) \in Nat /\ Len(q) > 0 /\ \A i \in 2 .. Len(q) : q[i] = Trying /\ TryHere
  BY <1>4, <1>5, <1>8
<1> QED
  BY <1>4, <1>6, <1>7, <1>8, <1>9 DEF q

\* Only the builtin below takes notice.
LEMMA PopsLemma ==
  ASSUME NEW n, Underway(n), ~Ended', Depth > 0, Rises, tries' = Discarded, natives' = natives,
         builtins' = builtins \/ (CalledBack /\ builtins' = Answered)
  PROVE  OneStack = OneStack' ++ Segment(n + 1) /\ OneStack' \in Seq(All) /\ OneStack' # <<>>
<1>1. /\ TypeOK /\ TypeOK' /\ n = Depth /\ n \in Nat /\ TriesInv /\ ~Ended
  BY DEF Underway
<1>2. \A a \in 1 .. n : SameTries(a)
  BY <1>1, TriesBelowLemma
<1>3. \A a \in 1 .. n : SameFrames(a)
  <2>1. CASE builtins' = builtins
    BY <2>1, SameFramesLemma
  <2>2. CASE CalledBack /\ builtins' = Answered
    <3>1. builtins # <<>> /\ Waits("none") /\ Last(builtins).owner + 1 = Depth
      BY <2>2 DEF CalledBack, Waits, Answered
    <3>2. Last(builtins).owner = n - 1
      BY <1>1, <3>1, TopFrameLemma
    <3>3. \A a : a # n - 1 + 2 => SameFrames(a)
      BY <1>1, <3>1, <3>2, FrameWaitsLemma
    <3>4. \A a \in 1 .. n : a # n - 1 + 2
      BY <1>1
    <3> QED
      BY <3>3, <3>4
  <2> QED
    BY <2>1, <2>2
<1>4. \A a \in 1 .. n : SameModule(a) /\ SameNatives(a)
  BY <1>1, SameNativesLemma DEF Rises, SameModule
<1>5. SamePart(n)
  BY <1>2, <1>3, <1>4, PartLemma
<1>6. Depth' = Depth - 1
  BY DEF Rises
<1> QED
  BY <1>1, <1>5, <1>6, PopStackLemma

\* What that is for ControlStack, p being what the activation leaves.
LEMMA LeavesTop ==
  ASSUME NEW n, Underway(n), Idle, Interpreting, Thrown = "none", Thrown' = "none",
         NEW p \in Seq(All), OneStack = p ++ Segment(n + 1), OneStack' = p,
         Settled(Here.module, "loaded")
  PROVE  Refined
<1> DEFINE q == Segment(n + 1)
<1>1. /\ q \in Seq(All) /\ Len(q) \in Nat /\ Len(q) > 0 /\ q[1].module = Here.module
      /\ \A i \in 2 .. Len(q) : q[i] = Trying
  BY TopSegmentLemma
<1>2. OneStack = p ++ q /\ Going
  BY DEF Underway
<1> HIDE DEF q
<1>3. /\ 1 \in 1 .. Len(q) /\ \A i \in 1 .. Len(q) : i = 1 \/ i \in 2 .. Len(q)
  BY <1>1
<1>4. /\ \A i \in 2 .. Len(q) : q[i].kind # "call"
      /\ \A i \in 1 .. Len(q) : q[i].module \in {Here.module, NoModule}
  BY <1>1, <1>3, ContextLemma
<1>5. \E i \in 1 .. Len(q) : q[i].module = Here.module
  BY <1>1, <1>3
<1> QED
  BY <1>1, <1>2, <1>4, <1>5, LeaveStep DEF Refined

LEMMA UnwindsTop ==
  ASSUME NEW n, Underway(n), Idle, Interpreting, Thrown # "none", ~Guarded(n + 1),
         Thrown # "user" \/ ~TryHere,
         NEW p \in Seq(All), OneStack = p ++ Segment(n + 1), OneStack' = p,
         Thrown' = IF p = <<>> THEN "none" ELSE Thrown,
         Settled(Here.module, "none")
  PROVE  Refined
<1> DEFINE q == Segment(n + 1)
<1>1. /\ q \in Seq(All) /\ Len(q) \in Nat /\ Len(q) > 0 /\ q[1].module = Here.module
      /\ q[1].kind = "call" /\ q[1].captured = Guarded(n + 1)
      /\ \A i \in 2 .. Len(q) : q[i] = Trying /\ TryHere
  BY TopSegmentLemma
<1>2. OneStack = p ++ q /\ Going
  BY DEF Underway
<1> HIDE DEF q
<1>3. /\ 1 \in 1 .. Len(q) /\ \A i \in 1 .. Len(q) : i = 1 \/ i \in 2 .. Len(q)
  BY <1>1
<1>4. /\ \A i \in 1 .. Len(q) : ~Stack!Handles(q[i], Thrown)
      /\ \A i \in 1 .. Len(q) : q[i].module \in {Here.module, NoModule}
  BY <1>1, <1>3, ContextLemma DEF Stack!Handles
<1>5. \E i \in 1 .. Len(q) : q[i].module = Here.module
  BY <1>1, <1>3
<1> QED
  BY <1>1, <1>2, <1>4, <1>5, UnwindStep DEF Refined

\* The builtin that called it fails as well.
LEMMA UnwindsTwo ==
  ASSUME NEW n, Underway(n), Idle, Interpreting, Thrown # "none", ~Guarded(n + 1),
         Thrown # "user" \/ ~TryHere,
         NEW p \in Seq(All), OneStack = p ++ (<<Building>> ++ Segment(n + 1)), OneStack' = p,
         Thrown' = IF p = <<>> THEN "none" ELSE Thrown,
         Settled(Here.module, "none")
  PROVE  Refined
<1> DEFINE r == Segment(n + 1)
           e == <<Building>>
           q == e ++ r
<1>1. /\ r \in Seq(All) /\ Len(r) \in Nat /\ Len(r) > 0 /\ r[1].module = Here.module
      /\ r[1].kind = "call" /\ r[1].captured = Guarded(n + 1)
      /\ \A i \in 2 .. Len(r) : r[i] = Trying /\ TryHere
  BY TopSegmentLemma
<1>2. OneStack = p ++ q /\ Going
  BY DEF Underway
<1>3. e \in Seq(All) /\ Len(e) = 1 /\ e[1] = Building
  BY ContextLemma, OneLemma
<1> HIDE DEF r, e
<1>4. /\ e ++ r \in Seq(All) /\ Len(e ++ r) = Len(e) + Len(r)
      /\ Len(e) \in Nat /\ Len(r) \in Nat
      /\ \A i \in 1 .. Len(e) : (e ++ r)[i] = e[i]
      /\ \A i \in 1 .. Len(r) : (e ++ r)[Len(e) + i] = r[i]
      /\ SubSeq(e ++ r, 1, Len(e)) = e
  <2>1. e \in Seq(All) /\ r \in Seq(All)
    BY <1>1, <1>3
  <2> QED
    BY <2>1, JoinLemma, Zenon
<1>5. q \in Seq(All) /\ Len(q) = 1 + Len(r) /\ q[1] = Building /\ \A i \in 1 .. Len(r) : q[1 + i] = r[i]
  <2>1. 1 \in 1 .. Len(e)
    BY <1>3
  <2> QED
    BY <1>3, <1>4, <2>1
<1> HIDE DEF q
<1>6. /\ 1 \in 1 .. Len(r) /\ 2 \in 1 .. Len(q) /\ q[2] = r[1] /\ Len(q) > 0
      /\ \A i \in 1 .. Len(q) : i = 1 \/ i = 2 \/ (i - 1 \in 2 .. Len(r) /\ q[i] = r[i - 1])
  <2>1. 1 \in 1 .. Len(r) /\ 2 \in 1 .. Len(q) /\ 1 + 1 = 2 /\ Len(q) > 0
    BY <1>1, <1>5
  <2>2. \A i \in 1 .. Len(q) : i = 1 \/ i = 2 \/ (i - 1 \in 2 .. Len(r) /\ i - 1 \in 1 .. Len(r) /\ 1 + (i - 1) = i)
    BY <1>1, <1>5
  <2> QED
    BY <1>5, <2>1, <2>2
<1>7. /\ \A i \in 1 .. Len(q) : ~Stack!Handles(q[i], Thrown)
      /\ \A i \in 1 .. Len(q) : q[i].module \in {Here.module, NoModule}
  BY <1>1, <1>5, <1>6, ContextLemma DEF Stack!Handles
<1>8. \E i \in 1 .. Len(q) : q[i].module = Here.module
  BY <1>1, <1>6
<1> QED
  BY <1>2, <1>5, <1>6, <1>7, <1>8, UnwindStep DEF Refined

\* The builtin that called it takes the error.
LEMMA HandlesTop ==
  ASSUME NEW n, Underway(n), Idle, Interpreting, Thrown # "none", Thrown' = "none", Guarded(n + 1),
         Thrown # "user" \/ ~TryHere,
         NEW p \in Seq(All), OneStack = p ++ Segment(n + 1), OneStack' = p,
         Here.module = NoModule, UNCHANGED cache
  PROVE  Refined
<1> DEFINE q == Segment(n + 1)
<1>1. /\ q \in Seq(All) /\ Len(q) \in Nat /\ Len(q) > 0 /\ q[1].module = Here.module
      /\ q[1].kind = "call" /\ q[1].captured = Guarded(n + 1)
      /\ \A i \in 2 .. Len(q) : q[i] = Trying /\ TryHere
  BY TopSegmentLemma
<1>2. OneStack = p ++ q /\ Going /\ TypeOK
  BY DEF Underway
<1> HIDE DEF q
<1>3. /\ 1 \in 1 .. Len(q) /\ \A i \in 1 .. Len(q) : i = 1 \/ i \in 2 .. Len(q)
  BY <1>1
<1>4. /\ Stack!Handles(q[1], Thrown)
      /\ \A i \in 2 .. Len(q) : ~Stack!Handles(q[i], Thrown)
      /\ \A i \in 1 .. Len(q) : q[i].module = NoModule
  BY <1>1, <1>3, ContextLemma DEF Stack!Handles
<1> QED
  BY <1>1, <1>2, <1>4, HandleStep DEF Refined

\* The root has nothing below it.
LEMMA BottomStackLemma ==
  ASSUME NEW n, Underway(n), Depth = 0
  PROVE  /\ <<>> \in Seq(All) /\ OneStack = <<>> ++ Segment(n + 1)
         /\ Here.module = NoModule /\ ~Guarded(n + 1)
<1>1. TypeOK /\ n = Depth /\ n \in Nat /\ ModulesInv /\ ~Ended /\ Len(acts) = n + 1 /\ n = 0
  BY DEF Underway
<1>2. StackAt(n)
  BY <1>1, StackAtLemma
<1>3. Here = acts[1]
  BY <1>1, HereLemma
<1>4. Here.module = NoModule
  BY <1>1, <1>3 DEF ModulesInv, RootPlain
<1>5. ~FrameGuards(n + 1) /\ ~NativeGuards(n + 1)
  BY <1>1, FramesLemma, NativesLemma DEF FrameGuards, NativeGuards
<1>6. <<>> \in Seq(All)
  BY EmptySeq
<1> QED
  BY <1>1, <1>2, <1>4, <1>5, <1>6, GuardedLemma DEF StackAt

LEMMA FinishLemma ==
  ASSUME TypeOK, NEW m \in Modules \cup {NoModule}
  PROVE  /\ FinishModule(m) => Settled(m, "loaded")
         /\ FailModule(m) /\ (m # NoModule => cache[m] = "loading") => Settled(m, "none")
<1>1. CASE m = NoModule
  BY <1>1, SettledLemma DEF FinishModule, FailModule, modules
<1>2. CASE m # NoModule
  <2>1. FinishModule(m) => cache' = [cache EXCEPT ![m] = "loaded"]
    BY <1>2 DEF FinishModule
  <2>2. FailModule(m) /\ cache[m] = "loading" => cache' = [cache EXCEPT ![m] = "none"]
    BY <1>2 DEF FailModule
  <2> QED
    BY <1>2, <2>1, <2>2, SettledLemma
<1> QED
  BY <1>1, <1>2

LEMMA MadeReturns ==
  ASSUME NEW n, Underway(n), Return
  PROVE  Refined
<1>1. TypeOK /\ n = Depth /\ n \in Nat
  BY DEF Underway
<1>2. CanExecute /\ FinishCall
  BY DEF Return
<1>3. Idle /\ Interpreting /\ Thrown = "none" /\ status = "running" /\ error = "none" /\ ~hostError
  BY <1>2, ExecutingLemma
<1>4. UNCHANGED <<natives, error, hostError>> /\ tries' = Discarded
  BY <1>2 DEF FinishCall, control
<1>5. Thrown' = "none"
  BY <1>3, <1>4, ThrownLemma
<1>6. CASE Depth = 0
  <2>1. Ended' /\ UNCHANGED cache
    BY <1>2, <1>6 DEF FinishCall, Ended, modules
  <2>2. OneStack' = <<>>
    BY <2>1 DEF OneStack
  <2>3. Settled(Here.module, "loaded")
    BY <1>1, <1>6, <2>1, BottomStackLemma, SettledLemma
  <2>4. <<>> \in Seq(All) /\ OneStack = <<>> ++ Segment(n + 1)
    BY <1>6, BottomStackLemma
  <2> QED
    BY <1>3, <1>5, <2>2, <2>3, <2>4, LeavesTop
<1>7. CASE Depth # 0
  <2>1. /\ Depth > 0 /\ Pops /\ status' = status /\ FinishModule(Here.module)
        /\ builtins' = IF CalledBack THEN Answered ELSE builtins
    BY <1>1, <1>2, <1>7 DEF FinishCall, Pops
  <2>2. Rises /\ ~Ended'
    BY <1>1, <1>3, <2>1, RisesLemma DEF Ended
  <2>3. OneStack = OneStack' ++ Segment(n + 1) /\ OneStack' \in Seq(All)
    BY <1>4, <2>1, <2>2, PopsLemma
  <2>4. Settled(Here.module, "loaded")
    <3>1. Here.module \in Modules \cup {NoModule}
      BY <1>1, HereLemma DEF Activations
    <3> QED
      BY <1>1, <2>1, <3>1, FinishLemma
  <2> QED
    BY <1>3, <1>5, <2>3, <2>4, LeavesTop
<1> QED
  BY <1>6, <1>7

\* An error that the running activation does not catch.
Uncaught == Unwinding /\ ~Catches

LEMMA UncaughtLemma ==
  ASSUME NEW n, Underway(n), Uncaught
  PROVE  /\ Idle /\ Interpreting /\ status = "running" /\ error # "none" /\ ~hostError
         /\ Thrown = error /\ Thrown # "none" /\ (Thrown # "user" \/ ~TryHere)
<1>1. Pending /\ FramesInv /\ {input, hostError} \subseteq BOOLEAN
  BY DEF Underway, TypeOK
<1>2. status = "running" /\ error # "none" /\ Interpreting /\ (error # "user" \/ ~TryHere)
  BY DEF Uncaught, Unwinding, Catches
<1>3. ~hostError
  BY <1>1, <1>2 DEF Pending
<1>4. Idle
  BY <1>1, <1>2 DEF FramesInv, FramesClear
<1>5. Thrown = error
  BY <1>2, <1>3, ThrownLemma
<1> QED
  BY <1>2, <1>3, <1>4, <1>5

\* Who has called the running activation.
LEMMA CallerLemma ==
  ASSUME NEW n, Underway(n), Idle, Depth > 0
  PROVE  /\ FrameGuards(n + 1) <=> Captured
         /\ NativeGuards(n + 1) => ~CalledBack
<1>1. TypeOK /\ n = Depth /\ n \in Nat /\ FramesInv
  BY DEF Underway
<1>2. ASSUME FrameGuards(n + 1)
      PROVE  Captured
  <2>1. PICK i \in DOMAIN builtins : builtins[i].owner + 2 = n + 1 /\ builtins[i].wait = "call" /\ builtins[i].captures
    BY <1>2 DEF FrameGuards
  <2>2. builtins[i].owner + 1 = Depth
    <3>1. PICK o \in Nat : o = builtins[i].owner /\ o + 2 = n + 1
      BY <1>1, <2>1, FramesLemma
    <3> QED
      BY <1>1, <3>1
  <2>3. builtins # <<>> /\ i = Len(builtins)
    BY <1>1, <2>1, <2>2, CalledBackLemma
  <2>4. Last(builtins) = builtins[i]
    BY <2>3 DEF Last
  <2> QED
    BY <2>1, <2>2, <2>3, <2>4 DEF Captured, CalledBack
<1>3. ASSUME CalledBack
      PROVE  /\ Len(builtins) \in DOMAIN builtins /\ Last(builtins) = builtins[Len(builtins)]
             /\ builtins[Len(builtins)].owner + 2 = n + 1 /\ builtins[Len(builtins)].wait = "call"
             /\ builtins[Len(builtins)].owner + 1 = n /\ builtins[Len(builtins)].owner \in Nat
  <2>1. builtins # <<>> /\ Last(builtins).owner + 1 = Depth /\ Last(builtins).wait = "call"
    BY <1>3 DEF CalledBack
  <2> QED
    BY <1>1, <2>1, TopFrameLemma
<1>4. Captured => FrameGuards(n + 1)
  BY <1>3 DEF Captured, FrameGuards
<1>5. ASSUME NativeGuards(n + 1), CalledBack
      PROVE  FALSE
  <2>1. PICK k \in DOMAIN natives : natives[k].stop + 2 = n + 1
    BY <1>5 DEF NativeGuards
  <2>2. \A j \in DOMAIN natives : natives[j].stop # builtins[Len(builtins)].owner
    BY <1>1, <1>3, <1>5 DEF FramesInv, FramesWait
  <2>3. natives[k].stop + 1 = n /\ natives[k].stop \in Nat
    BY <1>1, <2>1, NativesLemma
  <2>4. PICK o \in Nat : o = builtins[Len(builtins)].owner /\ o + 1 = n
    BY <1>3, <1>5
  <2> QED
    BY <2>2, <2>3, <2>4
<1> QED
  BY <1>2, <1>4, <1>5

LEMMA MadeCaptures ==
  ASSUME NEW n, Underway(n), CaptureError
  PROVE  Refined
<1>1. TypeOK /\ n = Depth /\ n \in Nat /\ FlowInv
  BY DEF Underway
<1>2. /\ Uncaught /\ Captured /\ CalledBack /\ UNCHANGED <<natives, hostError, cache, status>>
      /\ builtins' = Answered /\ error' = "none" /\ tries' = Discarded
  BY DEF CaptureError, Uncaught, Captured, modules
<1>3. /\ Idle /\ Interpreting /\ status = "running" /\ ~hostError
      /\ Thrown # "none" /\ (Thrown # "user" \/ ~TryHere)
  BY <1>2, UncaughtLemma
<1>4. Depth > 0
  <2>1. builtins # <<>> /\ Last(builtins).owner + 1 = Depth
    BY <1>2 DEF CalledBack
  <2> QED
    BY <1>1, <2>1, TopFrameLemma
<1>5. Rises /\ ~Ended'
  <2>1. Pops
    BY <1>4 DEF CaptureError, Pops
  <2> QED
    BY <1>1, <1>2, <1>3, <2>1, RisesLemma DEF Ended
<1>6. OneStack = OneStack' ++ Segment(n + 1) /\ OneStack' \in Seq(All)
  BY <1>2, <1>4, <1>5, PopsLemma
<1>7. Guarded(n + 1)
  BY <1>2, <1>3, <1>4, CallerLemma, GuardedLemma
<1>8. Here.module = NoModule
  BY <1>1, CapturedLemma DEF FlowInv
<1>9. Thrown' = "none"
  BY <1>2, <1>3, ThrownLemma
<1> QED
  BY <1>2, <1>3, <1>6, <1>7, <1>8, <1>9, HandlesTop

LEMMA MadeEnd ==
  ASSUME NEW n, Underway(n), FailEvaluation
  PROVE  Refined
<1>1. TypeOK /\ n = Depth /\ n \in Nat
  BY DEF Underway
<1>2. /\ Uncaught /\ Depth = 0 /\ UNCHANGED <<hostError, cache>> /\ error' = "none" /\ Ended'
  BY DEF FailEvaluation, Uncaught, Ended, modules
<1>3. /\ Idle /\ Interpreting /\ ~hostError
      /\ Thrown # "none" /\ (Thrown # "user" \/ ~TryHere)
  BY <1>2, UncaughtLemma
<1>4. OneStack' = <<>>
  BY <1>2 DEF OneStack
<1>5. /\ <<>> \in Seq(All) /\ OneStack = <<>> ++ Segment(n + 1)
      /\ ~Guarded(n + 1) /\ Settled(Here.module, "none")
  BY <1>1, <1>2, BottomStackLemma, SettledLemma
<1>6. Thrown' = "none"
  BY <1>2, <1>3, ThrownLemma
<1> QED
  BY <1>3, <1>4, <1>5, <1>6, UnwindsTop

\* A builtin written in Rust that takes the error is the one that runs next.
LEMMA NativeTopLemma ==
  ASSUME NEW n, Underway(n), Interpreting, Rises, UNCHANGED <<natives, error, status>>,
         ~hostError', error # "none", status = "running"
  PROVE  /\ NativeGuards(n + 1) => Thrown' = "none"
         /\ ~NativeGuards(n + 1) => Thrown' = error
<1>1. /\ TypeOK /\ n = Depth /\ n \in Nat /\ NativesInOrder /\ Depth' = n - 1
  BY DEF Underway, Rises
<1> DEFINE l == Len(natives)
<1>2. /\ l \in Nat /\ DOMAIN natives = 1 .. l
      /\ \A k \in DOMAIN natives : natives[k].stop \in Nat /\ natives[k].stop < n
      /\ \A j, k \in DOMAIN natives : j < k => natives[j].stop < natives[k].stop
  BY <1>1, NativesLemma, InterpretingLemma DEF NativesInOrder
<1>3. natives # <<>> => l \in DOMAIN natives /\ Last(natives) = natives[l]
  <2>1. natives # <<>> => l # 0
    BY <1>1, NativesLemma, EmptySeq
  <2> QED
    BY <1>2, <2>1 DEF Last
<1>4. l # 0 => natives # <<>>
  BY EmptySeq
<1> HIDE DEF l
<1>5. ASSUME NativeGuards(n + 1)
      PROVE  Thrown' = "none"
  <2>1. PICK k \in DOMAIN natives : natives[k].stop + 2 = n + 1 /\ natives[k].captures
    BY <1>5 DEF NativeGuards
  <2>2. PICK s \in Nat : s = natives[k].stop /\ s + 2 = n + 1
    BY <1>2, <2>1
  <2>3. k = l
    <3>1. ASSUME k < l
          PROVE  FALSE
      <4>1. l \in DOMAIN natives
        BY <1>2, <2>1, <3>1
      <4>2. PICK r \in Nat : r = natives[l].stop /\ r < n /\ s < r
        BY <1>2, <2>1, <2>2, <3>1, <4>1
      <4> QED
        BY <1>1, <2>2, <4>2
    <3> QED
      BY <1>2, <2>1, <3>1
  <2>4. natives # <<>> /\ Last(natives).stop = s /\ Last(natives).captures
    BY <1>2, <1>3, <1>4, <2>1, <2>2, <2>3
  <2>5. ~(s < n - 1)
    BY <1>1, <2>2
  <2>6. ~Interpreting'
    BY <1>1, <2>4, <2>5 DEF Interpreting
  <2> QED
    BY <2>4, <2>6 DEF Thrown, InNative
<1>6. ASSUME ~NativeGuards(n + 1)
      PROVE  Thrown' = error
  <2>1. CASE Interpreting'
    BY <2>1 DEF Thrown, InNative
  <2>2. CASE ~Interpreting'
    <3>1. natives # <<>> /\ ~(Last(natives).stop < n - 1)
      BY <1>1, <2>2 DEF Interpreting
    <3>2. l \in DOMAIN natives /\ Last(natives) = natives[l]
      BY <1>3, <3>1
    <3>3. PICK s \in Nat : s = natives[l].stop /\ s < n /\ ~(s < n - 1)
      BY <1>2, <3>1, <3>2
    <3>4. s + 2 = n + 1
      BY <1>1, <3>3
    <3>5. natives[l].stop + 2 = n + 1
      BY <3>3, <3>4
    <3>6. ~Last(natives).captures
      BY <1>6, <3>2, <3>5 DEF NativeGuards
    <3> QED
      BY <3>6 DEF Thrown
  <2> QED
    BY <2>1, <2>2
<1> QED
  BY <1>5, <1>6

\* The module of the running activation is being loaded.
LEMMA LoadingHereLemma ==
  ASSUME NEW n, Underway(n)
  PROVE  /\ Here.module \in Modules \cup {NoModule}
         /\ Here.module # NoModule => cache[Here.module] = "loading"
<1>1. TypeOK /\ ModulesInv
  BY DEF Underway
<1>2. SameModules /\ CacheKnows
  BY <1>1, ModulesNowLemma
<1>3. Here = acts[Len(acts)] /\ Len(acts) \in DOMAIN acts /\ Here.module \in Modules \cup {NoModule}
  BY <1>1, HereLemma DEF Activations
<1> QED
  BY <1>2, <1>3 DEF SameModules, CacheKnows

\* A builtin that the running activation was called by and that fails too.
LEMMA PopsTwoLemma ==
  ASSUME NEW n, Underway(n), ~Ended', Depth > 0, Rises, tries' = Discarded, natives' = natives,
         CalledBack, builtins' = Front(builtins)
  PROVE  /\ OneStack = OneStack' ++ (<<Building>> ++ Segment(n + 1))
         /\ OneStack' \in Seq(All) /\ OneStack' # <<>>
<1>1. /\ TypeOK /\ TypeOK' /\ n = Depth /\ n \in Nat /\ Len(acts) = n + 1 /\ TriesInv /\ ~Ended
      /\ Depth' = n - 1
  BY DEF Underway, Rises
<1>2. PICK m \in Nat : m + 1 = n /\ m = n - 1 /\ m + 2 = n + 1
  BY <1>1
<1>3. builtins # <<>> /\ Last(builtins).owner = m
  <2>1. builtins # <<>> /\ Last(builtins).owner + 1 = Depth
    BY DEF CalledBack
  <2>2. PICK o \in Nat : o = Last(builtins).owner /\ o + 1 = n
    BY <1>1, <2>1, TopFrameLemma
  <2> QED
    BY <1>2, <2>1, <2>2
<1>4. /\ \A a : a # m + 1 /\ a # m + 2 => SameFrames(a)
      /\ FrameGuards(m + 1)' <=> FrameGuards(m + 1)
      /\ Cardinality(FramesOf(m + 1)) = Cardinality(FramesOf(m + 1))' + 1
      /\ Cardinality(FramesOf(m + 1))' \in Nat
  BY <1>1, <1>3, FrameClosesLemma
<1>5. \A a \in 1 .. n : SameTries(a)
  BY <1>1, TriesBelowLemma
<1>6. \A a \in 1 .. n : SameModule(a) /\ SameNatives(a)
  BY <1>1, SameNativesLemma DEF Rises, SameModule
<1>7. SamePart(m)
  <2>1. \A a \in 1 .. m : a # m + 1 /\ a # m + 2 /\ a \in 1 .. n
    BY <1>2
  <2>2. \A a \in 1 .. m : SameModule(a) /\ SameTries(a) /\ SameFrames(a) /\ SameNatives(a)
    BY <1>4, <1>5, <1>6, <2>1
  <2> QED
    BY <2>2, PartLemma
<1>8. n \in 1 .. Len(acts) /\ n \in 1 .. Len(acts') /\ n \in 1 .. n
  <2>1. Len(acts') = n
    BY <1>1 DEF Depth, TypeOK
  <2> QED
    BY <1>1, <1>2, <2>1
<1>9. SameEntry(n) /\ SameTries(n)
  BY <1>2, <1>4, <1>5, <1>6, <1>8 DEF SameEntry, SameNatives
<1>10. BuiltinCount(n) = BuiltinCount(n)' + 1
  <2>1. NativesOf(n)' = NativesOf(n)
    BY <1>6, <1>8 DEF SameNatives
  <2> DEFINE f == Cardinality(FramesOf(n))
             g == Cardinality(FramesOf(n))'
             h == Cardinality(NativesOf(n))
  <2>2. f = g + 1 /\ g \in Nat /\ h \in Nat
    BY <1>1, <1>2, <1>4, CountsLemma
  <2>3. BuiltinCount(n) = f + h /\ BuiltinCount(n)' = g + h
    BY <2>1 DEF BuiltinCount
  <2> HIDE DEF f, g, h
  <2> QED
    BY <2>2, <2>3
<1>11. Segment(n) = Segment(n)' ++ <<Building>>
  BY <1>1, <1>8, <1>9, <1>10, GrowBuiltinLemma
<1>12. Building \in All
  BY ContextLemma
<1>13. SamePart(n - 1)
  BY <1>2, <1>7
<1>14. Depth > 0 /\ Depth' = Depth - 1
  BY DEF Rises
<1> QED
  BY <1>1, <1>11, <1>12, <1>13, <1>14, PopTwoStackLemma

LEMMA MadeUnwinds ==
  ASSUME NEW n, Underway(n), UnwindCall, NativePlain
  PROVE  Refined
<1>1. TypeOK /\ n = Depth /\ n \in Nat /\ Len(acts) = n + 1
  BY DEF Underway
<1>2. /\ Uncaught /\ ~Captured /\ Depth > 0 /\ Pops /\ FailModule(Here.module)
      /\ tries' = Discarded /\ UNCHANGED <<natives, hostError, error, status>>
      /\ builtins' = IF CalledBack THEN Front(builtins) ELSE builtins
  BY DEF UnwindCall, Uncaught, Pops, control
<1>3. /\ Idle /\ Interpreting /\ status = "running" /\ error # "none" /\ ~hostError
      /\ Thrown = error /\ Thrown # "none" /\ (Thrown # "user" \/ ~TryHere)
  BY <1>2, UncaughtLemma
<1>4. Rises /\ ~Ended'
  BY <1>1, <1>2, <1>3, RisesLemma DEF Ended
<1>5. Settled(Here.module, "none")
  BY <1>1, <1>2, LoadingHereLemma, FinishLemma
<1>6. ~FrameGuards(n + 1) /\ (NativeGuards(n + 1) => ~CalledBack)
  BY <1>2, <1>3, CallerLemma
<1>7. /\ NativeGuards(n + 1) => Thrown' = "none"
      /\ ~NativeGuards(n + 1) => Thrown' = Thrown
  BY <1>2, <1>3, <1>4, NativeTopLemma
<1>8. CASE NativeGuards(n + 1)
  <2>1. builtins' = builtins
    BY <1>2, <1>6, <1>8
  <2>2. OneStack = OneStack' ++ Segment(n + 1) /\ OneStack' \in Seq(All)
    BY <1>2, <1>4, <2>1, PopsLemma
  <2>3. Here.module = NoModule
    <3>1. PICK k \in DOMAIN natives : natives[k].stop + 2 = n + 1
      BY <1>8 DEF NativeGuards
    <3>2. PICK s \in Nat : s = natives[k].stop /\ s + 2 = n + 1 /\ s < n
      BY <1>1, <3>1, NativesLemma
    <3>3. acts[s + 2].module = NoModule
      BY <1>1, <3>2 DEF NativePlain
    <3> QED
      BY <1>1, <3>2, <3>3, HereLemma
  <2>4. UNCHANGED cache
    BY <1>2, <2>3 DEF FailModule, modules
  <2>5. Guarded(n + 1)
    BY <1>8, GuardedLemma
  <2>6. Thrown' = "none"
    BY <1>7, <1>8
  <2> QED
    BY <1>3, <2>2, <2>3, <2>4, <2>5, <2>6, HandlesTop
<1>9. CASE ~NativeGuards(n + 1)
  <2>1. ~Guarded(n + 1) /\ Thrown' = Thrown
    BY <1>6, <1>7, <1>9, GuardedLemma
  <2>2. CASE CalledBack
    <3>1. OneStack = OneStack' ++ (<<Building>> ++ Segment(n + 1)) /\ OneStack' \in Seq(All) /\ OneStack' # <<>>
      BY <1>2, <1>4, <2>2, PopsTwoLemma
    <3> QED
      BY <1>3, <1>5, <2>1, <3>1, UnwindsTwo
  <2>3. CASE ~CalledBack
    <3>1. OneStack = OneStack' ++ Segment(n + 1) /\ OneStack' \in Seq(All) /\ OneStack' # <<>>
      BY <1>2, <1>4, <2>3, PopsLemma
    <3> QED
      BY <1>3, <1>5, <2>1, <3>1, UnwindsTop
  <2> QED
    BY <2>2, <2>3
<1> QED
  BY <1>8, <1>9

-----------------------------------------------------------------------------
(* Every step.                                                             *)

LEMMA MadeExecutions ==
  ASSUME RInv, RInv', Execute, Going
  PROVE  Refined
<1>1. IInv /\ IInv' /\ NativePlain /\ status = "running" /\ Live /\ ~halted
  BY RunningLemma DEF RInv, Live, Going
<1>2. PICK n : Underway(n)
  BY <1>1, UnderwayLemma
<1>3. CASE \E code \in Codes : TailCall(code)
  BY <1>2, <1>3, QuietInstructions
<1>4. CASE UnpackOpen \/ UnpackClose \/ Input \/ \E k \in 0 .. Len(Here.lex) - 1 : Jump(k)
  BY <1>2, <1>4, QuietInstructions
<1>5. CASE NativeCaptures \/ Suspend \/ RaiseHostError
  BY <1>2, <1>5, QuietSteps
<1>6. CASE FrameReads \/ FrameAcceptsInput \/ FrameCallsAtomic
  BY <1>2, <1>6, QuietFrames
<1>7. CASE \E code \in Codes : Call(code) \/ NativeCalls(code) \/ FrameCalls(code)
  <2>1. PICK code \in Codes : Call(code) \/ NativeCalls(code) \/ FrameCalls(code)
    BY <1>7
  <2>2. CASE Room
    BY <1>2, <2>1, <2>2, MadeCalls
  <2>3. CASE ~Room
    <3>1. Call(code) \/ FrameCalls(code)
      BY <2>1, <2>3 DEF NativeCalls
    <3> QED
      BY <1>2, <2>3, <3>1, MadeRaises, MadeFailures
  <2> QED
    BY <2>2, <2>3
<1>8. CASE \E m \in Modules : Import(m)
  <2>1. CASE Room
    BY <1>2, <1>8, <2>1, MadeCalls
  <2>2. CASE ~Room
    BY <1>2, <1>8, <2>2, MadeRaises
  <2> QED
    BY <2>1, <2>2
<1>9. CASE TryOpen \/ \E captures \in BOOLEAN : StartFrame(captures) \/ StartNative(captures)
  BY <1>2, <1>9, MadeOpenings
<1>10. CASE FinishTry \/ NativeReturns
  BY <1>2, <1>10, MadeEnds
<1>11. CASE \E e \in {"none", "user"} : FrameEnds(e)
  <2>1. FrameEnds("none") \/ FrameEnds("user")
    BY <1>11
  <2> QED
    BY <1>2, <2>1, MadeEnds, MadeFailures
<1>12. CASE NativeFails
  BY <1>2, <1>12, MadeFailures
<1>13. CASE \E e \in {"user", "machine"} : Raise(e)
  BY <1>2, <1>13, MadeRaises
<1>14. CASE CatchTry
  BY <1>2, <1>14, MadeCatches
<1>15. CASE Return
  BY <1>2, <1>15, MadeReturns
<1>16. CASE HaltLeave
  BY <1>1, <1>16 DEF HaltLeave
<1>17. CASE CaptureError
  BY <1>2, <1>17, MadeCaptures
<1>18. CASE UnwindCall
  BY <1>1, <1>2, <1>18, MadeUnwinds
<1>19. CASE FailEvaluation
  BY <1>2, <1>19, MadeEnd
<1> QED
  BY <1>3, <1>4, <1>5, <1>6, <1>7, <1>8, <1>9, <1>10, <1>11, <1>12, <1>13, <1>14, <1>15, <1>16,
     <1>17, <1>18, <1>19 DEF Execute

\* What is forgotten is what was being loaded.
LEMMA ForgottenLemma ==
  ASSUME RInv
  PROVE  /\ Forgotten = [k \in Modules |-> IF cache[k] = "loading" THEN "none" ELSE cache[k]]
         /\ Ended => cache = [k \in Modules |-> IF cache[k] = "loading" THEN "none" ELSE cache[k]]
<1>1. TypeOK /\ ModulesInv /\ SameModules /\ CacheKnows /\ RestInv
  BY ModulesNowLemma DEF RInv, IInv
<1>2. \A k \in Modules : cache[k] = "loading" <=> k \in Range(loading)
  BY <1>1 DEF CacheKnows, Range
<1>3. ASSUME Ended
      PROVE  \A k \in Modules : cache[k] # "loading"
  <2>1. Depth = 0 /\ DOMAIN acts = 1 .. Len(acts) /\ Len(acts) = Depth + 1
    BY <1>1, <1>3, HereLemma DEF RestInv
  <2>2. \A a \in DOMAIN acts : acts[a].module = NoModule
    BY <1>1, <2>1 DEF ModulesInv, RootPlain
  <2>3. \A i \in DOMAIN loading : loading[i] = NoModule
    BY <1>1, <2>2 DEF SameModules
  <2> QED
    BY <1>1, <2>3, VmCallsAssumption DEF CacheKnows
<1>4. cache = [k \in Modules |-> cache[k]]
  BY <1>1 DEF TypeOK
<1> QED
  BY <1>2, <1>3, <1>4 DEF Forgotten

\* A new evaluation has one context.
LEMMA StartedLemma ==
  ASSUME TypeOK', ~Ended', Clear, NEW code \in Codes, acts' = Root(code)
  PROVE  OneStack' = <<Stack!Call(NoModule, FALSE)>>
<1>1. PICK n : n = 0 /\ n \in Nat /\ n + 1 = 1
  OBVIOUS
<1>2. Len(acts') = 1 /\ n = Depth' /\ acts'[1].module = NoModule
  BY <1>1, RootLemma DEF Depth
<1>3. StackAt(n)'
  BY <1>2, StackAtNextLemma
<1>4. OneStack' = <<>> ++ Segment(1)' /\ Segment(1)' \in Seq(All)
  BY <1>1, <1>3 DEF StackAt
<1>5. DOMAIN tries' = {} /\ DOMAIN builtins' = {} /\ DOMAIN natives' = {}
  BY EmptySeq, LenProperties DEF Clear
<1>6. TriesOf(1)' = {} /\ FramesOf(1)' = {} /\ NativesOf(1)' = {}
  BY <1>5 DEF TriesOf, FramesOf, NativesOf
<1>7. TryCount(1)' = 0 /\ BuiltinCount(1)' = 0
  BY <1>6, FS_EmptySet DEF TryCount, BuiltinCount
<1>8. Segment(1)' = <<Entry(1)'>>
  <2>1. 1 \in 1 .. Len(acts')
    BY <1>2
  <2> QED
    BY <1>7, <2>1, NewSegmentLemma
<1>9. Entry(1)' = Stack!Call(NoModule, FALSE)
  <2>1. Guarded(1)' = FALSE
    BY <1>5 DEF Guarded, Range
  <2> QED
    BY <1>2, <2>1 DEF Entry, Stack!Call
<1> QED
  BY <1>4, <1>8, <1>9, JoinedLemma

\* What the host does.
LEMMA MadeHost ==
  ASSUME RInv, RInv', Host, ~halted'
  PROVE  Refined
<1>1. IInv /\ IInv' /\ RestInv /\ RestInv' /\ TypeOK /\ TypeOK'
  BY DEF RInv, IInv
<1>2. ASSUME NEW code \in Codes, NEW mode \in Modes, Start(code, mode)
      PROVE  Refined
  <2>1. Clear /\ cache' = Forgotten /\ acts' = Root(code) /\ status' = "running"
    BY <1>2 DEF Start
  <2>2. ~Ended' /\ error' = "none" /\ ~hostError'
    BY <2>1 DEF Ended, Clear
  <2>3. OneStack' = <<Stack!Call(NoModule, FALSE)>>
    BY <1>1, <2>1, <2>2, StartedLemma
  <2>4. Thrown' = "none"
    BY <2>2, ThrownLemma
  <2> QED
    BY <2>1, <2>3, <2>4, ForgottenLemma, RestartStep DEF Refined
<1>3. CASE TakeHalt \/ Cancel
  <2>1. Ended' /\ (cache' = Forgotten \/ (Ended /\ cache' = cache))
    BY <1>3 DEF TakeHalt, Cancel, ResetExecution, Ended, modules
  <2>2. OneStack' = <<>> /\ Thrown' = "none"
    BY <1>1, <2>1, ThrownLemma DEF OneStack, RestInv
  <2> QED
    BY <2>1, <2>2, ForgottenLemma, RestartStep DEF Refined
<1>4. CASE ResetWorkspace
  <2>1. Ended' /\ cache' = [m \in Modules |-> "none"]
    BY <1>4 DEF ResetWorkspace, ResetExecution, Ended
  <2>2. OneStack' = <<>> /\ Thrown' = "none"
    BY <1>1, <2>1, ThrownLemma DEF OneStack, RestInv
  <2> QED
    BY <2>1, <2>2, ReloadStep DEF Refined
<1>5. ASSUME NEW ok \in BOOLEAN, ResumeInput(ok)
      PROVE  Refined
  <2>1. Live /\ Going
    BY <1>5 DEF ResumeInput, Live, Going
  <2>2. PICK n : Underway(n)
    BY <1>1, <2>1, UnderwayLemma
  <2> QED
    BY <1>5, <2>2, MadeAnswers
<1> QED
  BY <1>2, <1>3, <1>4, <1>5 DEF Host

\* Only the host makes a stopped machine go on.
LEMMA KeptHaltLemma ==
  ASSUME Execute
  PROVE  halted' = halted
<1>1. CASE \E code \in Codes : Call(code) \/ TailCall(code) \/ NativeCalls(code) \/ FrameCalls(code)
  BY <1>1 DEF Call, TailCall, NativeCalls, FrameCalls, control
<1>2. CASE Return \/ HaltLeave \/ FinishTry
  BY <1>2 DEF Return, HaltLeave, FinishTry, FinishCall, control
<1>3. CASE TryOpen \/ UnpackOpen \/ UnpackClose
  BY <1>3 DEF TryOpen, UnpackOpen, UnpackClose, control
<1>4. CASE \/ \E k \in 0 .. Len(Here.lex) - 1 : Jump(k)
           \/ \E e \in {"user", "machine"} : Raise(e)
           \/ \E m \in Modules : Import(m)
  BY <1>4 DEF Jump, Raise, Import, control
<1>5. CASE CatchTry \/ CaptureError \/ UnwindCall \/ FailEvaluation
  BY <1>5 DEF CatchTry, CaptureError, UnwindCall, FailEvaluation, control
<1>6. CASE \E captures \in BOOLEAN : StartFrame(captures) \/ StartNative(captures)
  BY <1>6 DEF StartFrame, StartNative, control
<1>7. CASE NativeReturns \/ NativeFails \/ NativeCaptures
  BY <1>7 DEF NativeReturns, NativeFails, NativeEnds, NativeCaptures
<1>8. CASE FrameCallsAtomic \/ FrameReads \/ FrameAcceptsInput \/ \E e \in {"none", "user"} : FrameEnds(e)
  BY <1>8 DEF FrameCallsAtomic, FrameReads, FrameAcceptsInput, FrameEnds, control
<1>9. CASE Input \/ Suspend \/ RaiseHostError
  BY <1>9 DEF Input, Suspend, RaiseHostError, control
<1> QED
  BY <1>1, <1>2, <1>3, <1>4, <1>5, <1>6, <1>7, <1>8, <1>9 DEF Execute

\* A step that changes nothing.
LEMMA SameVarsLemma ==
  ASSUME UNCHANGED vars
  PROVE  OneStack' = OneStack /\ Thrown' = Thrown
<1>1. /\ acts' = acts /\ tries' = tries /\ builtins' = builtins /\ natives' = natives
      /\ hostError' = hostError /\ error' = error /\ status' = status
  BY DEF vars
<1>2. Segments(Len(acts))' = Segments(Len(acts))
  BY <1>1 DEF Segments, Segment, Guarded, TriesOf, FramesOf, NativesOf
<1>3. OneStack' = OneStack
  BY <1>1, <1>2 DEF OneStack, Segments, Ended
<1>4. Thrown' = Thrown
  BY <1>1 DEF Thrown, InNative, Interpreting, Depth
<1> QED
  BY <1>3, <1>4

LEMMA RefinedLemma ==
  ASSUME RInv, RInv', [Next]_vars
  PROVE  Refined
<1>1. CASE halted'
  BY <1>1, StopStep DEF Refined
<1>2. CASE ~halted' /\ Host
  BY <1>2, MadeHost
<1>3. CASE ~halted' /\ Execute
  <2>1. CASE ~halted
    BY <1>3, <2>1, MadeExecutions DEF Going
  <2>2. CASE halted
    BY <1>3, <2>2, KeptHaltLemma
  <2> QED
    BY <2>1, <2>2
<1>4. CASE ~halted' /\ Interrupt
  BY <1>4 DEF Interrupt
<1>5. CASE UNCHANGED vars
  <2>1. OneStack' = OneStack /\ Thrown' = Thrown
    BY <1>5, SameVarsLemma
  <2> QED
    BY <1>5, <2>1 DEF Refined, vars
<1> QED
  BY <1>1, <1>2, <1>3, <1>4, <1>5 DEF Next

\* Calls, errors, returns and imports treat the five stacks as one stack of
\* contexts: nothing is caught, left or forgotten out of order.
THEOREM RefinementTheorem == Spec => Refines
<1>1. ASSUME Init
      PROVE  Stack!Init
  <2>1. Ended /\ error = "none" /\ ~hostError /\ ~halted /\ halted = FALSE /\ cache = [m \in Modules |-> "none"]
    BY <1>1 DEF Init, Ended
  <2>2. OneStack = <<>> /\ Thrown = "none"
    BY <2>1, ThrownLemma DEF OneStack
  <2> QED
    BY <2>1, <2>2 DEF Stack!Init
<1>2. ASSUME RInv, RInv', [Next]_vars
      PROVE  [Stack!Next]_(Stack!vars)
  BY <1>2, RefinedLemma DEF Refined, Stack!vars
<1> QED
  BY <1>1, <1>2, RInvariantLemma, PTL DEF Spec, Refines, Stack!Spec
=============================================================================
