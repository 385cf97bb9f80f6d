------------------------ MODULE DebugStepping_proofs ------------------------
(***************************************************************************)
(* The properties of DebugStepping, proved for any program: any functions, *)
(* lines and statements, any depth of calls and of tail calls.             *)
(***************************************************************************)
EXTENDS DebugStepping, FiniteSetTheorems, SequenceTheorems, TLAPS

-----------------------------------------------------------------------------
(* Sequences.                                                              *)

LEMMA PrefixLemma ==
  ASSUME NEW S, NEW s \in Seq(S), NEW n \in 1 .. Len(s)
  PROVE  /\ SubSeq(s, 1, n) \in Seq(S)
         /\ Len(SubSeq(s, 1, n)) = n
         /\ DOMAIN SubSeq(s, 1, n) = 1 .. n
         /\ \A i \in 1 .. n : SubSeq(s, 1, n)[i] = s[i]
<1>1. \A i \in 1 .. n : s[i] \in S
  BY ElementOfSeq, LenProperties
<1>2. 1 \in Int /\ n \in Int /\ n - 1 + 1 = n /\ 1 <= n /\ \A i \in 1 .. n : 1 + i - 1 = i
  OBVIOUS
<1>3. /\ SubSeq(s, 1, n) \in Seq(S)
      /\ Len(SubSeq(s, 1, n)) = IF 1 <= n THEN n - 1 + 1 ELSE 0
      /\ \A i \in 1 .. n - 1 + 1 : SubSeq(s, 1, n)[i] = s[1 + i - 1]
  BY <1>1, <1>2, SubSeqProperties
<1> QED
  BY <1>2, <1>3, LenProperties

LEMMA AppendLemma ==
  ASSUME NEW S, NEW s \in Seq(S), NEW e \in S
  PROVE  /\ Append(s, e) \in Seq(S)
         /\ Len(Append(s, e)) = Len(s) + 1
         /\ DOMAIN Append(s, e) = 1 .. Len(s) + 1
         /\ \A i \in 1 .. Len(s) : Append(s, e)[i] = s[i]
         /\ Append(s, e)[Len(s) + 1] = e
  BY AppendProperties, LenProperties

\* The last entry of a stack is replaced.
LEMMA TopLemma ==
  ASSUME NEW S, NEW s \in Seq(S), s # <<>>, NEW e \in S
  PROVE  /\ [s EXCEPT ![Len(s)] = e] \in Seq(S)
         /\ Len([s EXCEPT ![Len(s)] = e]) = Len(s)
         /\ DOMAIN [s EXCEPT ![Len(s)] = e] = 1 .. Len(s)
         /\ \A i \in 1 .. Len(s) - 1 : [s EXCEPT ![Len(s)] = e][i] = s[i]
         /\ [s EXCEPT ![Len(s)] = e][Len(s)] = e
<1>1. Len(s) \in Nat \ {0}
  BY EmptySeq
<1>2. Len(s) \in 1 .. Len(s)
  BY <1>1
<1>3. /\ [s EXCEPT ![Len(s)] = e] \in Seq(S)
      /\ Len([s EXCEPT ![Len(s)] = e]) = Len(s)
      /\ \A j \in 1 .. Len(s) : [s EXCEPT ![Len(s)] = e][j] = IF j = Len(s) THEN e ELSE s[j]
  BY <1>2, ExceptSeq
<1> DEFINE t == [s EXCEPT ![Len(s)] = e]
<1>4. DOMAIN t = 1 .. Len(t)
  BY <1>3, LenProperties
<1> HIDE DEF t
<1>5. /\ t \in Seq(S) /\ Len(t) = Len(s)
      /\ \A j \in 1 .. Len(s) : t[j] = IF j = Len(s) THEN e ELSE s[j]
  BY <1>3 DEF t
<1>6. \A i \in 1 .. Len(s) - 1 : t[i] = s[i]
  BY <1>1, <1>5
<1>7. t[Len(s)] = e
  BY <1>2, <1>5
<1> QED
  BY <1>4, <1>5, <1>6, <1>7 DEF t

-----------------------------------------------------------------------------
(* Depths.                                                                 *)

\* The tail calls that led to the first n frames, and the depth of the n-th.
TailCallsTo(fs, n) == {c \in TailCalls(fs) : c[1] <= n}
DepthAt(fs, n) == n - 1 + Cardinality(TailCallsTo(fs, n))

LEMMA TailsLemma ==
  ASSUME NEW fs \in Seq(FrameStates), NEW n
  PROVE  TailCallsTo(fs, n) =
           {c \in (1 .. Len(fs)) \X (1 .. MaxTails) : c[1] <= n /\ c[2] <= fs[c[1]].tails}
<1>1. DOMAIN fs = 1 .. Len(fs)
  BY LenProperties
<1> QED
  BY <1>1 DEF TailCallsTo, TailCalls

LEMMA DepthTypeLemma ==
  ASSUME NEW fs \in Seq(FrameStates), NEW n \in 1 .. Len(fs)
  PROVE  /\ IsFiniteSet(TailCallsTo(fs, n)) /\ Cardinality(TailCallsTo(fs, n)) \in Nat
         /\ DepthAt(fs, n) \in Nat
<1> DEFINE P == (1 .. Len(fs)) \X (1 .. MaxTails)
<1>1. IsFiniteSet(P)
  <2>1. IsFiniteSet(1 .. Len(fs)) /\ IsFiniteSet(1 .. MaxTails)
    BY LenProperties, SteppingAssumption, FS_Interval
  <2> QED
    BY <2>1, FS_Product
<1>2. TailCallsTo(fs, n) \in SUBSET P
  BY TailsLemma
<1>3. IsFiniteSet(TailCallsTo(fs, n))
  BY <1>1, <1>2, FS_Subset
<1>4. Cardinality(TailCallsTo(fs, n)) \in Nat
  BY <1>3, FS_CardinalityType
<1>5. n - 1 \in Nat
  OBVIOUS
<1> QED
  BY <1>3, <1>4, <1>5 DEF DepthAt

\* The depth of a frame depends on the tail calls up to it only.
LEMMA DepthSameLemma ==
  ASSUME NEW fs \in Seq(FrameStates), NEW gs \in Seq(FrameStates),
         NEW n \in Nat, n <= Len(fs), n <= Len(gs),
         \A i \in 1 .. n : gs[i].tails = fs[i].tails
  PROVE  DepthAt(gs, n) = DepthAt(fs, n)
<1>1. Len(fs) \in Nat /\ Len(gs) \in Nat
  BY LenProperties
<1>2. ASSUME NEW i \in Nat, NEW k
      PROVE  (i \in 1 .. Len(gs) /\ i <= n /\ k <= gs[i].tails)
               <=> (i \in 1 .. Len(fs) /\ i <= n /\ k <= fs[i].tails)
  BY <1>1
<1>3. TailCallsTo(gs, n) = TailCallsTo(fs, n)
  <2>1. ASSUME NEW c
        PROVE  c \in TailCallsTo(gs, n) <=> c \in TailCallsTo(fs, n)
    <3>1. CASE c \in Nat \X (1 .. MaxTails)
      BY <1>2, <3>1, TailsLemma
    <3>2. CASE c \notin Nat \X (1 .. MaxTails)
      BY <1>1, <3>2, TailsLemma
    <3> QED
      BY <3>1, <3>2
  <2> QED
    BY <2>1
<1> QED
  BY <1>3 DEF DepthAt

\* A frame is deeper than those below it.
LEMMA DepthGrowsLemma ==
  ASSUME NEW fs \in Seq(FrameStates), NEW m \in 1 .. Len(fs), NEW n \in 1 .. Len(fs), m < n
  PROVE  DepthAt(fs, m) < DepthAt(fs, n)
<1>1. \A i \in 1 .. Len(fs) : i <= m => i <= n
  BY LenProperties
<1>2. TailCallsTo(fs, m) \in SUBSET TailCallsTo(fs, n)
  BY <1>1, TailsLemma
<1>3. Cardinality(TailCallsTo(fs, m)) <= Cardinality(TailCallsTo(fs, n))
  BY <1>2, DepthTypeLemma, FS_Subset
<1>4. /\ Cardinality(TailCallsTo(fs, m)) \in Nat /\ Cardinality(TailCallsTo(fs, n)) \in Nat
      /\ m \in Nat /\ n \in Nat
  BY DepthTypeLemma, LenProperties
<1> QED
  BY <1>3, <1>4 DEF DepthAt

\* A call is one deeper than its caller.
LEMMA DepthCallLemma ==
  ASSUME NEW fs \in Seq(FrameStates), NEW n \in Nat \ {0}, Len(fs) = n + 1, fs[n + 1].tails = 0
  PROVE  DepthAt(fs, n + 1) = DepthAt(fs, n) + 1
<1>1. ASSUME NEW i \in 1 .. n + 1, NEW k \in 1 .. MaxTails
      PROVE  (i <= n + 1 /\ k <= fs[i].tails) <=> (i <= n /\ k <= fs[i].tails)
  BY SteppingAssumption
<1>2. TailCallsTo(fs, n + 1) = TailCallsTo(fs, n)
  <2>1. /\ TailCallsTo(fs, n + 1) =
             {c \in (1 .. n + 1) \X (1 .. MaxTails) : c[1] <= n + 1 /\ c[2] <= fs[c[1]].tails}
        /\ TailCallsTo(fs, n) =
             {c \in (1 .. n + 1) \X (1 .. MaxTails) : c[1] <= n /\ c[2] <= fs[c[1]].tails}
    BY TailsLemma
  <2>2. \A c \in (1 .. n + 1) \X (1 .. MaxTails) : c[1] \in 1 .. n + 1 /\ c[2] \in 1 .. MaxTails
    OBVIOUS
  <2> QED
    BY <1>1, <2>1, <2>2
<1>3. Cardinality(TailCallsTo(fs, n)) \in Nat
  BY DepthTypeLemma
<1> QED
  BY <1>2, <1>3 DEF DepthAt

\* A tail call is one deeper than the frame whose place it takes.
LEMMA DepthTailLemma ==
  ASSUME NEW fs \in Seq(FrameStates), NEW gs \in Seq(FrameStates), NEW n \in Nat \ {0},
         Len(fs) = n, Len(gs) = n, \A i \in 1 .. n - 1 : gs[i].tails = fs[i].tails,
         gs[n].tails = fs[n].tails + 1, fs[n].tails < MaxTails
  PROVE  DepthAt(gs, n) = DepthAt(fs, n) + 1
<1> DEFINE t == fs[n].tails
           c == <<n, t + 1>>
<1>1. t \in Nat /\ t + 1 \in 1 .. MaxTails
  <2>1. fs[n] \in FrameStates
    BY ElementOfSeq
  <2> QED
    BY <2>1, SteppingAssumption DEF FrameStates
<1>2. ASSUME NEW i \in 1 .. n, NEW k \in 1 .. MaxTails
      PROVE  k <= gs[i].tails <=> (k <= fs[i].tails \/ (i = n /\ k = t + 1))
  <2>1. CASE i = n
    BY <1>1, <2>1, SteppingAssumption
  <2>2. CASE i # n
    BY <2>2
  <2> QED
    BY <2>1, <2>2
<1> HIDE DEF t
<1>3. TailCallsTo(gs, n) = TailCallsTo(fs, n) \cup {c}
  <2>1. ASSUME NEW d \in (1 .. n) \X (1 .. MaxTails)
        PROVE  d \in TailCallsTo(gs, n) <=> d \in TailCallsTo(fs, n) \/ d = c
    <3>1. PICK i \in 1 .. n, k \in 1 .. MaxTails : d = <<i, k>>
      OBVIOUS
    <3>2. i <= n
      OBVIOUS
    <3>3. d \in TailCallsTo(gs, n) <=> k <= gs[i].tails
      BY <3>1, <3>2, TailsLemma
    <3>4. d \in TailCallsTo(fs, n) <=> k <= fs[i].tails
      BY <3>1, <3>2, TailsLemma
    <3>5. d = c <=> (i = n /\ k = t + 1)
      BY <3>1
    <3> QED
      BY <1>2, <3>3, <3>4, <3>5
  <2>2. c \in (1 .. n) \X (1 .. MaxTails)
    BY <1>1
  <2>3. /\ TailCallsTo(gs, n) \subseteq (1 .. n) \X (1 .. MaxTails)
        /\ TailCallsTo(fs, n) \subseteq (1 .. n) \X (1 .. MaxTails)
    BY TailsLemma
  <2> QED
    BY <2>1, <2>2, <2>3
<1>4. c \notin TailCallsTo(fs, n)
  BY <1>1, TailsLemma DEF t
<1>5. IsFiniteSet(TailCallsTo(fs, n)) /\ Cardinality(TailCallsTo(fs, n)) \in Nat
  BY DepthTypeLemma
<1>6. Cardinality(TailCallsTo(gs, n)) = Cardinality(TailCallsTo(fs, n)) + 1
  <2> DEFINE old == TailCallsTo(fs, n)
  <2>1. IsFiniteSet(old) /\ c \notin old
    BY <1>4, <1>5
  <2> HIDE DEF c, old
  <2>2. Cardinality(old \cup {c}) = Cardinality(old) + 1
    BY <2>1, FS_AddElement
  <2> QED
    BY <1>3, <2>2 DEF old
<1> QED
  BY <1>5, <1>6 DEF DepthAt

LEMMA CallDepthLemma ==
  ASSUME frames \in Seq(FrameStates), frames # <<>>
  PROVE  CallDepth = DepthAt(frames, Len(frames)) /\ CallDepth \in Nat
<1>1. Len(frames) \in Nat \ {0} /\ DOMAIN frames = 1 .. Len(frames)
  BY EmptySeq, LenProperties
<1>2. TailCalls(frames) = TailCallsTo(frames, Len(frames))
  <2>1. \A c \in TailCalls(frames) : c[1] <= Len(frames)
    BY <1>1 DEF TailCalls
  <2> QED
    BY <2>1 DEF TailCallsTo
<1> QED
  BY <1>1, <1>2, DepthTypeLemma DEF CallDepth, DepthAt

-----------------------------------------------------------------------------
(* Frames and locations.                                                   *)

LEMMA FramesLemma ==
  ASSUME TypeOK
  PROVE  /\ frames \in Seq(FrameStates) /\ frames # <<>>
         /\ Len(frames) \in Nat \ {0} /\ DOMAIN frames = 1 .. Len(frames)
         /\ \A i \in 1 .. Len(frames) : frames[i] \in FrameStates
         /\ Top = frames[Len(frames)] /\ Top \in FrameStates
<1>1. frames \in Seq(FrameStates) /\ frames # <<>>
  BY DEF TypeOK
<1>2. Len(frames) \in Nat \ {0} /\ DOMAIN frames = 1 .. Len(frames)
  BY <1>1, EmptySeq, LenProperties
<1>3. \A i \in 1 .. Len(frames) : frames[i] \in FrameStates
  BY <1>1, ElementOfSeq
<1>4. Top = frames[Len(frames)]
  BY DEF Top, Last
<1> QED
  BY <1>1, <1>2, <1>3, <1>4

LEMMA HereLemma ==
  ASSUME TypeOK
  PROVE  /\ Here \in Locs /\ Here # NoLoc /\ Here # OldLoc /\ Here[1] = Top.fn /\ Here[2] = Top.pc
         /\ Top.pc \in Pcs /\ Top.fn \in Fns \cup {Main} /\ Top.tails \in 0 .. MaxTails
         /\ Top.kin \in Kins /\ Top.nested \in BOOLEAN
<1>1. Top \in FrameStates
  BY FramesLemma
<1>2. Here \in Locs
  BY <1>1 DEF Here, Loc, Locs, FrameStates
<1> QED
  BY <1>1, <1>2, SteppingAssumption DEF Here, Loc, FrameStates

LEMMA DebugLemma ==
  ASSUME TypeOK
  PROVE  /\ dbg.enabled \in BOOLEAN
         /\ dbg.breaks \in [BreakLocs \cup PauseLocs -> {"absent", "on", "off", "pause-on", "pause-off"}]
         /\ dbg.source \in SUBSET BreakLocs /\ dbg.temps \in SUBSET BreakLocs
         /\ dbg.mode \in Modes /\ dbg.granularity \in Granularities /\ dbg.base \in Nat
         /\ dbg.last \in Locs \cup {NoLoc, OldLoc}
  BY DEF TypeOK, DebugStates

-----------------------------------------------------------------------------
(* The inductive invariant.                                                *)

\* While a step is under way, its base is the depth of the frame it was asked in,
\* and the frames that one called are deeper, those that called it less deep.
DepthInv ==
  dbg.mode # "none" =>
    \A i \in 1 .. Len(frames) :
      /\ frames[i].kin = "base" => DepthAt(frames, i) = dbg.base
      /\ frames[i].kin = "caller" => DepthAt(frames, i) < dbg.base
      /\ frames[i].kin = "callee" => DepthAt(frames, i) > dbg.base

\* The last stop was in the frame of the request.
LastInv ==
  /\ Stopped => dbg.last = Here
  /\ dbg.mode # "none" /\ ~Stopped =>
       \A i \in 1 .. Len(frames) : frames[i].kin = "base" => frames[i].fn = dbg.last[1]

\* An instruction is about to be checked, is about to be checked once more after
\* its stop, is stopped at, or has passed.
CheckInv ==
  /\ Stopped => stops = 1 /\ ~passed /\ skip = NoLoc
  /\ AtCheck => (skip = NoLoc /\ stops = 0) \/ (skip = Here /\ stops = 1)
  /\ passed => /\ skip = NoLoc /\ stops \in {0, 1}
               /\ HasBreakpoint /\ ~Swallowed => stops = 1

\* What has passed without a stop is not what a step was to reach.
PassedInv ==
  passed /\ dbg.enabled /\ IsStepUnit /\ stops = 0 =>
    /\ dbg.mode # "in"
    /\ dbg.mode = "over" => Top.kin \notin {"base", "caller"}
    /\ dbg.mode = "out" => Top.kin # "caller"

\* The mode is the one the user asked for, until a stop is swallowed.
AskedInv == ~lost => asked = dbg.mode

IInv == TypeOK /\ DepthInv /\ LastInv /\ CheckInv /\ PassedInv /\ StepsStayOut /\ AskedInv

-----------------------------------------------------------------------------
(* What steps do to the frames.                                            *)

FramesTyped == frames' \in Seq(FrameStates) /\ frames' # <<>>

\* The first n frames are those there were; what differs is where they are.
KeepsFrames(n) ==
  /\ n <= Len(frames) /\ n <= Len(frames')
  /\ \A i \in 1 .. n : /\ frames'[i].fn = frames[i].fn /\ frames'[i].tails = frames[i].tails
                       /\ frames'[i].kin = frames[i].kin

LEMMA JumpLemma ==
  ASSUME TypeOK, NEW pc \in Pcs, Jump(pc)
  PROVE  FramesTyped /\ Len(frames') = Len(frames) /\ KeepsFrames(Len(frames))
<1> DEFINE n == Len(frames)
           f == [frames[n] EXCEPT !.pc = pc]
<1>0. frames \in Seq(FrameStates) /\ frames # <<>> /\ n \in Nat \ {0}
  BY FramesLemma
<1>1. frames' = [frames EXCEPT ![n] = f]
  BY DEF Jump
<1>2. f \in FrameStates /\ f.fn = frames[n].fn /\ f.tails = frames[n].tails /\ f.kin = frames[n].kin
  <2>1. frames[n] \in FrameStates
    BY FramesLemma
  <2> QED
    BY <2>1 DEF FrameStates
<1> HIDE DEF f
<1>3. /\ frames' \in Seq(FrameStates) /\ Len(frames') = n
      /\ \A i \in 1 .. n - 1 : frames'[i] = frames[i]
      /\ frames'[n] = f
  BY <1>0, <1>1, <1>2, TopLemma
<1>4. frames' # <<>>
  BY <1>0, <1>3, EmptySeq
<1>5. \A i \in 1 .. n : i \in 1 .. n - 1 \/ i = n
  BY <1>0
<1> QED
  BY <1>0, <1>2, <1>3, <1>4, <1>5 DEF FramesTyped, KeepsFrames

LEMMA CallLemma ==
  ASSUME TypeOK, NEW fn \in Fns, NEW nested \in BOOLEAN, Call(fn, nested)
  PROVE  /\ FramesTyped /\ Len(frames') = Len(frames) + 1 /\ KeepsFrames(Len(frames))
         /\ frames'[Len(frames) + 1].tails = 0 /\ frames'[Len(frames) + 1].kin = CalleeKin
<1> DEFINE n == Len(frames)
           f == [frames[n] EXCEPT !.pc = @ + 1]
           fs == [frames EXCEPT ![n] = f]
           g == Frame(fn, 0, CalleeKin, nested \/ Top.nested)
<1>0. frames \in Seq(FrameStates) /\ frames # <<>> /\ n \in Nat \ {0}
  BY FramesLemma
<1>1. frames' = Append(fs, g) /\ Top.pc < LastPc
  BY DEF Call
<1>2. f \in FrameStates /\ f.fn = frames[n].fn /\ f.tails = frames[n].tails /\ f.kin = frames[n].kin
  <2>1. frames[n] \in FrameStates /\ frames[n].pc + 1 \in Pcs
    BY <1>1, FramesLemma, HereLemma, SteppingAssumption DEF Pcs
  <2> QED
    BY <2>1 DEF FrameStates
<1>3. g \in FrameStates /\ g.tails = 0 /\ g.kin = CalleeKin
  <2>1. CalleeKin \in Kins /\ (nested \/ Top.nested) \in BOOLEAN /\ 0 \in 0 .. MaxTails /\ 0 \in Pcs
    BY HereLemma, SteppingAssumption DEF CalleeKin, Kins, Pcs
  <2> QED
    BY <2>1 DEF Frame, FrameStates
<1> HIDE DEF f, g
<1>4. /\ fs \in Seq(FrameStates) /\ Len(fs) = n
      /\ \A i \in 1 .. n - 1 : fs[i] = frames[i]
      /\ fs[n] = f
  BY <1>0, <1>2, TopLemma
<1> HIDE DEF fs
<1>5. /\ frames' \in Seq(FrameStates) /\ Len(frames') = n + 1
      /\ \A i \in 1 .. n : frames'[i] = fs[i]
      /\ frames'[n + 1] = g
  BY <1>1, <1>3, <1>4, AppendLemma
<1>6. frames' # <<>>
  BY <1>0, <1>5, EmptySeq
<1>7. \A i \in 1 .. n : i \in 1 .. n - 1 \/ i = n
  BY <1>0
<1> QED
  BY <1>2, <1>3, <1>4, <1>5, <1>6, <1>7, <1>0 DEF FramesTyped, KeepsFrames

LEMMA TailCallLemma ==
  ASSUME TypeOK, NEW fn \in Fns, TailCall(fn)
  PROVE  /\ FramesTyped /\ Len(frames') = Len(frames) /\ KeepsFrames(Len(frames) - 1)
         /\ frames'[Len(frames)].tails = Top.tails + 1 /\ Top.tails < MaxTails
         /\ frames'[Len(frames)].kin = CalleeKin
<1> DEFINE n == Len(frames)
           g == Frame(fn, Top.tails + 1, CalleeKin, Top.nested)
<1>0. frames \in Seq(FrameStates) /\ frames # <<>> /\ n \in Nat \ {0}
  BY FramesLemma
<1>1. frames' = [frames EXCEPT ![n] = g] /\ Top.tails < MaxTails
  BY DEF TailCall
<1>2. g \in FrameStates /\ g.tails = Top.tails + 1 /\ g.kin = CalleeKin
  <2>1. /\ CalleeKin \in Kins /\ Top.nested \in BOOLEAN /\ 0 \in Pcs
        /\ Top.tails + 1 \in 0 .. MaxTails
    BY <1>1, HereLemma, SteppingAssumption DEF CalleeKin, Kins, Pcs
  <2> QED
    BY <2>1 DEF Frame, FrameStates
<1> HIDE DEF g
<1>3. /\ frames' \in Seq(FrameStates) /\ Len(frames') = n
      /\ \A i \in 1 .. n - 1 : frames'[i] = frames[i]
      /\ frames'[n] = g
  BY <1>0, <1>1, <1>2, TopLemma
<1>4. frames' # <<>>
  BY <1>0, <1>3, EmptySeq
<1>5. KeepsFrames(n - 1)
  <2>1. n - 1 <= n
    BY <1>0
  <2> QED
    BY <1>3, <2>1 DEF KeepsFrames
<1> QED
  BY <1>1, <1>2, <1>3, <1>4, <1>5 DEF FramesTyped

LEMMA ReturnLemma ==
  ASSUME TypeOK, NEW n \in 1 .. Len(frames) - 1, Return(n)
  PROVE  FramesTyped /\ Len(frames') = n /\ KeepsFrames(n)
<1>1. frames' = SubSeq(frames, 1, n) /\ n \in 1 .. Len(frames)
  BY FramesLemma DEF Return, Unwound
<1>2. /\ frames' \in Seq(FrameStates) /\ Len(frames') = n
      /\ \A i \in 1 .. n : frames'[i] = frames[i]
  BY <1>1, FramesLemma, PrefixLemma
<1>3. frames' # <<>>
  BY <1>2, EmptySeq
<1> QED
  BY <1>1, <1>2, <1>3, FramesLemma DEF FramesTyped, KeepsFrames

LEMMA ItemLemma ==
  ASSUME NEW fs, fs = <<Frame(Main, 0, "later", FALSE)>>
  PROVE  fs \in Seq(FrameStates) /\ fs # <<>> /\ Len(fs) = 1 /\ fs[1].kin = "later"
<1>1. Frame(Main, 0, "later", FALSE) \in FrameStates
  BY SteppingAssumption DEF Frame, FrameStates, Kins, Pcs
<1> QED
  BY <1>1 DEF Frame

LEMMA RebaseLemma ==
  ASSUME TypeOK, frames' = Rebase(frames)
  PROVE  /\ FramesTyped /\ Len(frames') = Len(frames)
         /\ \A i \in 1 .. Len(frames) :
              /\ frames'[i].fn = frames[i].fn /\ frames'[i].tails = frames[i].tails
              /\ frames'[i].pc = frames[i].pc /\ frames'[i].nested = frames[i].nested
              /\ frames'[i].kin = IF i = Len(frames) THEN "base" ELSE "caller"
<1> DEFINE n == Len(frames)
           f(i) == [frames[i] EXCEPT !.kin = IF i = n THEN "base" ELSE "caller"]
<1>0. frames \in Seq(FrameStates) /\ frames # <<>> /\ n \in Nat \ {0}
  BY FramesLemma
<1>1. frames' = [i \in 1 .. n |-> f(i)]
  BY FramesLemma DEF Rebase
<1>2. \A i \in 1 .. n : /\ f(i) \in FrameStates
                         /\ f(i).fn = frames[i].fn /\ f(i).tails = frames[i].tails
                         /\ f(i).pc = frames[i].pc /\ f(i).nested = frames[i].nested
                         /\ f(i).kin = IF i = n THEN "base" ELSE "caller"
  <2> SUFFICES ASSUME NEW i \in 1 .. n
               PROVE  /\ f(i) \in FrameStates
                      /\ f(i).fn = frames[i].fn /\ f(i).tails = frames[i].tails
                      /\ f(i).pc = frames[i].pc /\ f(i).nested = frames[i].nested
                      /\ f(i).kin = IF i = n THEN "base" ELSE "caller"
    OBVIOUS
  <2>1. frames[i] \in FrameStates
    BY FramesLemma
  <2> QED
    BY <2>1 DEF FrameStates, Kins
<1> HIDE DEF f
<1>3. /\ frames' \in Seq(FrameStates) /\ Len(frames') = n
      /\ \A i \in 1 .. n : frames'[i] = f(i)
  <2>1. n \in Nat /\ frames' \in [1 .. n -> FrameStates]
    BY <1>0, <1>1, <1>2
  <2>2. frames' \in Seq(FrameStates) /\ DOMAIN frames' = 1 .. n
    BY <2>1, SeqDef
  <2>3. Len(frames') = n
    BY <2>1, <2>2, LenProperties
  <2> QED
    BY <1>1, <2>2, <2>3
<1>4. frames' # <<>>
  BY <1>0, <1>3, EmptySeq
<1> QED
  BY <1>2, <1>3, <1>4 DEF FramesTyped

-----------------------------------------------------------------------------
(* What steps do to the debugger's state.                                  *)

\* A stop is noted.
LEMMA NoteLemma ==
  ASSUME TypeOK, NEW d, d = NotePause(NoteExplicit(dbg))
  PROVE  /\ d \in DebugStates /\ d.last = Here
         /\ d.mode = dbg.mode /\ d.base = dbg.base
<1> DEFINE e == NoteExplicit(dbg)
<1>1. dbg \in DebugStates
  BY DEF TypeOK
<1>2. e \in DebugStates /\ e.mode = dbg.mode /\ e.base = dbg.base
  <2>1. CASE PauseReason = "none" /\ Here \in PauseLocs /\ dbg.breaks[Here] = "absent"
    <3>1. e = [dbg EXCEPT !.breaks = [dbg.breaks EXCEPT ![Here] = "pause-on"]]
      BY <2>1 DEF NoteExplicit
    <3>2. [dbg.breaks EXCEPT ![Here] = "pause-on"] \in
            [BreakLocs \cup PauseLocs -> {"absent", "on", "off", "pause-on", "pause-off"}]
      BY DebugLemma
    <3> QED
      BY <1>1, <3>1, <3>2 DEF DebugStates
  <2>2. CASE ~ (PauseReason = "none" /\ Here \in PauseLocs /\ dbg.breaks[Here] = "absent")
    BY <1>1, <2>2 DEF NoteExplicit
  <2> QED
    BY <2>1, <2>2
<1> HIDE DEF e
<1>3. d = [e EXCEPT !.last = Here, !.temps = {}]
  BY DEF NotePause, e
<1>4. Here \in Locs
  BY HereLemma
<1> QED
  BY <1>2, <1>3, <1>4 DEF DebugStates

LEMMA ClearLemma ==
  ASSUME NEW d \in DebugStates
  PROVE  /\ ClearMode(d) \in DebugStates /\ ClearMode(d).mode = "none"
         /\ ClearMode(d).last = d.last
  BY DEF ClearMode, DebugStates, Modes

LEMMA RequestLemma ==
  ASSUME TypeOK, NEW a \in Modes
  PROVE  /\ Request(dbg, a) \in DebugStates /\ Request(dbg, a).mode = a
         /\ Request(dbg, a).last = dbg.last
         /\ a # "none" => Request(dbg, a).base = CallDepth
<1>1. dbg \in DebugStates /\ CallDepth \in Nat
  BY CallDepthLemma DEF TypeOK
<1>2. CASE a = "none"
  BY <1>1, <1>2, ClearLemma DEF Request
<1>3. CASE a # "none"
  BY <1>1, <1>3 DEF Request, DebugStates
<1> QED
  BY <1>2, <1>3

\* Breakpoints and the granularity are changed, and nothing else.
Edits == (\E l \in BreakLocs \cup PauseLocs : EditBreakpoint(l)) \/ EditLines

LEMMA EditsLemma ==
  ASSUME TypeOK, Edits
  PROVE  /\ Stopped /\ UNCHANGED <<frames, host, stop, skip, passed, stops, asked, lost>>
         /\ dbg' \in DebugStates
         /\ dbg'.last = dbg.last /\ dbg'.mode = dbg.mode /\ dbg'.base = dbg.base
<1>1. dbg \in DebugStates
  BY DEF TypeOK
<1>2. ASSUME NEW l \in BreakLocs \cup PauseLocs, EditBreakpoint(l)
      PROVE  /\ dbg' \in DebugStates
             /\ dbg'.last = dbg.last /\ dbg'.mode = dbg.mode /\ dbg'.base = dbg.base
  <2>1. PICK b \in {"absent", "on", "off", "pause-on", "pause-off"} :
          dbg' = [dbg EXCEPT !.breaks = [dbg.breaks EXCEPT ![l] = b]]
    BY <1>2 DEF EditBreakpoint
  <2>2. [dbg.breaks EXCEPT ![l] = b] \in
          [BreakLocs \cup PauseLocs -> {"absent", "on", "off", "pause-on", "pause-off"}]
    BY DebugLemma
  <2> QED
    BY <1>1, <2>1, <2>2 DEF DebugStates
<1>3. ASSUME EditLines
      PROVE  /\ dbg' \in DebugStates
             /\ dbg'.last = dbg.last /\ dbg'.mode = dbg.mode /\ dbg'.base = dbg.base
  <2>1. CASE \E s \in SUBSET BreakLocs : dbg' = [dbg EXCEPT !.source = s]
    BY <1>1, <2>1 DEF DebugStates
  <2>2. CASE \E l \in BreakLocs : dbg' = [dbg EXCEPT !.temps = @ \cup {l}]
    <3>1. PICK l \in BreakLocs : dbg' = [dbg EXCEPT !.temps = dbg.temps \cup {l}]
      BY <2>2
    <3>2. dbg.temps \cup {l} \in SUBSET BreakLocs
      BY DebugLemma
    <3> QED
      BY <1>1, <3>1, <3>2 DEF DebugStates
  <2>3. CASE \E g \in Granularities : dbg' = [dbg EXCEPT !.granularity = g]
    BY <1>1, <2>3 DEF DebugStates
  <2> QED
    BY <1>3, <2>1, <2>2, <2>3 DEF EditLines
<1>4. Stopped /\ UNCHANGED <<frames, host, stop, skip, passed, stops, asked, lost>>
  BY DEF Edits, EditBreakpoint, EditLines, request
<1> QED
  BY <1>2, <1>3, <1>4 DEF Edits

\* Another item begins.
LEMMA NextItemLemma ==
  ASSUME TypeOK, NextItem
  PROVE  /\ dbg' \in DebugStates /\ FramesTyped /\ Len(frames') = 1 /\ frames'[1].kin = "later"
         /\ \/ asked' = "in" /\ lost' = FALSE /\ dbg'.mode = "in"
            \/ asked' = asked /\ lost' = lost /\ dbg'.mode = dbg.mode
<1>1. FramesTyped /\ Len(frames') = 1 /\ frames'[1].kin = "later"
  BY ItemLemma DEF NextItem, FramesTyped
<1> DEFINE d == [dbg EXCEPT !.last = IF @[1] = Main THEN OldLoc ELSE @]
<1>2. dbg \in DebugStates
  BY DEF TypeOK
<1>3. d \in DebugStates /\ d.mode = dbg.mode
  BY <1>2 DEF DebugStates
<1>4. \/ dbg' = ArmEntry(d) /\ asked' = "in" /\ lost' = FALSE
      \/ dbg' = d /\ asked' = asked /\ lost' = lost
  BY DEF NextItem, request
<1> HIDE DEF d
<1>5. ArmEntry(d) \in DebugStates /\ ArmEntry(d).mode = "in"
  BY <1>3 DEF ArmEntry, DebugStates, Modes
<1> QED
  BY <1>1, <1>3, <1>4, <1>5

-----------------------------------------------------------------------------
(* Depths follow the frames.                                               *)

LEMMA KeptDepthLemma ==
  ASSUME TypeOK, FramesTyped, NEW n \in Nat, KeepsFrames(n)
  PROVE  \A i \in 1 .. n : DepthAt(frames', i) = DepthAt(frames, i)
<1> SUFFICES ASSUME NEW i \in 1 .. n
             PROVE  DepthAt(frames', i) = DepthAt(frames, i)
  OBVIOUS
<1>1. frames \in Seq(FrameStates) /\ frames' \in Seq(FrameStates)
  BY FramesLemma DEF FramesTyped
<1>2. n <= Len(frames) /\ n <= Len(frames') /\ \A j \in 1 .. n : frames'[j].tails = frames[j].tails
  BY DEF KeepsFrames
<1>3. i \in Nat /\ i <= Len(frames) /\ i <= Len(frames') /\ \A j \in 1 .. i : j \in 1 .. n
  BY <1>1, <1>2, LenProperties
<1> QED
  BY <1>1, <1>2, <1>3, DepthSameLemma

\* Frames stay where they were, and at most one is added, one deeper than the current.
LEMMA DepthStepLemma ==
  ASSUME TypeOK, DepthInv, FramesTyped, dbg' = dbg, NEW n \in Nat, KeepsFrames(n),
         \/ Len(frames') = n
         \/ /\ Len(frames') = n + 1
            /\ frames'[n + 1].kin = CalleeKin
            /\ DepthAt(frames', n + 1) = CallDepth + 1
  PROVE  DepthInv'
<1> SUFFICES ASSUME dbg.mode # "none", NEW i \in 1 .. Len(frames')
             PROVE  /\ frames'[i].kin = "base" => DepthAt(frames', i) = dbg.base
                    /\ frames'[i].kin = "caller" => DepthAt(frames', i) < dbg.base
                    /\ frames'[i].kin = "callee" => DepthAt(frames', i) > dbg.base
  BY DEF DepthInv
<1>1. n <= Len(frames) /\ Len(frames) \in Nat \ {0}
  BY FramesLemma DEF KeepsFrames
<1>2. CASE i \in 1 .. n
  <2>1. i \in 1 .. Len(frames)
    BY <1>1, <1>2
  <2>2. frames'[i].kin = frames[i].kin /\ DepthAt(frames', i) = DepthAt(frames, i)
    BY <1>2, KeptDepthLemma DEF KeepsFrames
  <2> QED
    BY <2>1, <2>2 DEF DepthInv
<1>3. CASE i \notin 1 .. n
  <2>1. /\ i = n + 1 /\ frames'[i].kin = CalleeKin
        /\ DepthAt(frames', i) = CallDepth + 1
    BY <1>3
  <2>2. CallDepth = DepthAt(frames, Len(frames)) /\ CallDepth \in Nat /\ dbg.base \in Nat
    BY CallDepthLemma, FramesLemma, DebugLemma
  <2>3. CASE Top.kin \in {"base", "callee"}
    <3>1. CallDepth >= dbg.base
      <4>1. Len(frames) \in 1 .. Len(frames) /\ Top = frames[Len(frames)]
        BY <1>1, FramesLemma
      <4> QED
        BY <2>2, <2>3, <4>1 DEF DepthInv
    <3> QED
      BY <2>1, <2>2, <2>3, <3>1 DEF CalleeKin
  <2>4. CASE Top.kin \notin {"base", "callee"}
    BY <2>1, <2>4 DEF CalleeKin
  <2> QED
    BY <2>3, <2>4
<1> QED
  BY <1>2, <1>3

\* What an instruction does to the frames, to the mode and to the base of a step.
Moved ==
  \/ \E pc \in Pcs : Jump(pc)
  \/ \E fn \in Fns, nested \in BOOLEAN : Call(fn, nested)
  \/ \E fn \in Fns : TailCall(fn)
  \/ \E n \in 1 .. Len(frames) - 1 : Return(n)

LEMMA MovedLemma ==
  ASSUME TypeOK, DepthInv, Moved
  PROVE  /\ FramesTyped /\ dbg' = dbg /\ UNCHANGED <<asked, lost>> /\ DepthInv'
         /\ \A i \in 1 .. Len(frames') :
              frames'[i].kin = "base" =>
                i \in 1 .. Len(frames) /\ frames[i].kin = "base" /\ frames'[i].fn = frames[i].fn
<1> DEFINE k == Len(frames)
           Same == \A i \in 1 .. Len(frames') :
                     frames'[i].kin = "base" =>
                       i \in 1 .. k /\ frames[i].kin = "base" /\ frames'[i].fn = frames[i].fn
<1>0. /\ k \in Nat \ {0} /\ frames \in Seq(FrameStates) /\ Top = frames[k]
      /\ CallDepth = DepthAt(frames, k)
  BY FramesLemma, CallDepthLemma
<1>1. CalleeKin # "base"
  BY DEF CalleeKin
<1>2. ASSUME NEW n \in 0 .. k, KeepsFrames(n),
             \/ Len(frames') = n
             \/ Len(frames') = n + 1 /\ frames'[n + 1].kin = CalleeKin
      PROVE  Same
  <2> SUFFICES ASSUME NEW i \in 1 .. Len(frames'), frames'[i].kin = "base"
               PROVE  i \in 1 .. k /\ frames[i].kin = "base" /\ frames'[i].fn = frames[i].fn
    OBVIOUS
  <2>1. i \in 1 .. n
    BY <1>0, <1>1, <1>2
  <2> QED
    BY <1>0, <1>2, <2>1 DEF KeepsFrames
<1> HIDE DEF Same
<1>3. ASSUME NEW pc \in Pcs, Jump(pc)
      PROVE  FramesTyped /\ dbg' = dbg /\ UNCHANGED <<asked, lost>> /\ DepthInv' /\ Same
  <2>1. dbg' = dbg /\ UNCHANGED <<asked, lost>>
    BY <1>3 DEF Jump, request
  <2>2. FramesTyped /\ Len(frames') = k /\ KeepsFrames(k)
    BY <1>3, JumpLemma
  <2>3. DepthInv'
    BY <1>0, <2>1, <2>2, DepthStepLemma
  <2>4. Same
    <3>1. k \in 0 .. k
      BY <1>0
    <3> QED
      BY <1>2, <2>2, <3>1
  <2> QED
    BY <2>1, <2>2, <2>3, <2>4
<1>4. ASSUME NEW fn \in Fns, NEW nested \in BOOLEAN, Call(fn, nested)
      PROVE  FramesTyped /\ dbg' = dbg /\ UNCHANGED <<asked, lost>> /\ DepthInv' /\ Same
  <2>1. dbg' = dbg /\ UNCHANGED <<asked, lost>>
    BY <1>4 DEF Call, request
  <2>2. /\ FramesTyped /\ Len(frames') = k + 1 /\ KeepsFrames(k)
        /\ frames'[k + 1].tails = 0 /\ frames'[k + 1].kin = CalleeKin
    BY <1>4, CallLemma
  <2>3. DepthAt(frames', k + 1) = DepthAt(frames', k) + 1
    BY <1>0, <2>2, DepthCallLemma DEF FramesTyped
  <2>4. DepthAt(frames', k) = DepthAt(frames, k)
    BY <1>0, <2>2, KeptDepthLemma
  <2>5. DepthInv'
    BY <1>0, <2>1, <2>2, <2>3, <2>4, DepthStepLemma
  <2>6. Same
    <3>1. k \in 0 .. k
      BY <1>0
    <3> QED
      BY <1>2, <2>2, <3>1
  <2> QED
    BY <2>1, <2>2, <2>5, <2>6
<1>5. ASSUME NEW fn \in Fns, TailCall(fn)
      PROVE  FramesTyped /\ dbg' = dbg /\ UNCHANGED <<asked, lost>> /\ DepthInv' /\ Same
  <2>1. dbg' = dbg /\ UNCHANGED <<asked, lost>>
    BY <1>5 DEF TailCall, request
  <2>2. /\ FramesTyped /\ Len(frames') = k /\ KeepsFrames(k - 1)
        /\ frames'[k].tails = frames[k].tails + 1 /\ frames[k].tails < MaxTails
        /\ frames'[k].kin = CalleeKin
    BY <1>0, <1>5, TailCallLemma
  <2>3. DepthAt(frames', k) = DepthAt(frames, k) + 1
    <3>1. \A i \in 1 .. k - 1 : frames'[i].tails = frames[i].tails
      BY <2>2 DEF KeepsFrames
    <3> QED
      BY <1>0, <2>2, <3>1, DepthTailLemma DEF FramesTyped
  <2>4. k - 1 \in Nat /\ (k - 1) + 1 = k
    BY <1>0
  <2>5. DepthInv'
    <3> DEFINE n == k - 1
    <3>1. n \in Nat /\ n + 1 = k /\ KeepsFrames(n)
      BY <2>2, <2>4
    <3> HIDE DEF n
    <3> QED
      BY <1>0, <2>1, <2>2, <2>3, <3>1, DepthStepLemma
  <2>6. Same
    <3> DEFINE n == k - 1
    <3>1. n \in 0 .. k /\ n + 1 = k /\ KeepsFrames(n)
      BY <1>0, <2>2, <2>4
    <3> HIDE DEF n
    <3> QED
      BY <1>2, <2>2, <3>1
  <2> QED
    BY <2>1, <2>2, <2>5, <2>6
<1>6. ASSUME NEW n \in 1 .. k - 1, Return(n)
      PROVE  FramesTyped /\ dbg' = dbg /\ UNCHANGED <<asked, lost>> /\ DepthInv' /\ Same
  <2>1. dbg' = dbg /\ UNCHANGED <<asked, lost>>
    BY <1>6 DEF Return, request
  <2>2. FramesTyped /\ Len(frames') = n /\ KeepsFrames(n)
    BY <1>6, ReturnLemma
  <2>3. n \in Nat /\ n \in 0 .. k
    BY <1>0
  <2>4. DepthInv'
    BY <2>1, <2>2, <2>3, DepthStepLemma
  <2>5. Same
    BY <1>2, <2>2, <2>3
  <2> QED
    BY <2>1, <2>2, <2>4, <2>5
<1> QED
  BY <1>3, <1>4, <1>5, <1>6 DEF Moved, Same

\* A request starts a step in the current frame.
LEMMA ResumeDepthLemma ==
  ASSUME TypeOK, frames' = Rebase(frames), NEW a \in Modes, dbg' = Request(dbg, a)
  PROVE  DepthInv'
<1> DEFINE n == Len(frames)
<1>0. n \in Nat \ {0} /\ frames \in Seq(FrameStates)
  BY FramesLemma
<1> SUFFICES ASSUME dbg'.mode # "none", NEW i \in 1 .. Len(frames')
             PROVE  /\ frames'[i].kin = "base" => DepthAt(frames', i) = dbg'.base
                    /\ frames'[i].kin = "caller" => DepthAt(frames', i) < dbg'.base
                    /\ frames'[i].kin = "callee" => DepthAt(frames', i) > dbg'.base
  BY DEF DepthInv
<1>1. /\ FramesTyped /\ Len(frames') = n
      /\ \A j \in 1 .. n : /\ frames'[j].tails = frames[j].tails
                           /\ frames'[j].kin = IF j = n THEN "base" ELSE "caller"
  BY RebaseLemma
<1>2. dbg'.base = DepthAt(frames, n)
  BY <1>0, RequestLemma, CallDepthLemma, FramesLemma
<1>3. \A j \in 1 .. n : DepthAt(frames', j) = DepthAt(frames, j)
  <2> SUFFICES ASSUME NEW j \in 1 .. n PROVE DepthAt(frames', j) = DepthAt(frames, j)
    OBVIOUS
  <2>1. j \in Nat /\ j <= Len(frames) /\ j <= Len(frames')
        /\ \A m \in 1 .. j : frames'[m].tails = frames[m].tails
    BY <1>0, <1>1
  <2> QED
    BY <1>0, <1>1, <2>1, DepthSameLemma DEF FramesTyped
<1>4. CASE i = n
  BY <1>0, <1>1, <1>2, <1>3, <1>4
<1>5. CASE i # n
  <2>1. i \in 1 .. n /\ n \in 1 .. n /\ i < n
    BY <1>0, <1>1, <1>5
  <2>2. DepthAt(frames, i) < DepthAt(frames, n)
    BY <1>0, <2>1, DepthGrowsLemma
  <2>3. frames'[i].kin = "caller" /\ DepthAt(frames', i) = DepthAt(frames, i)
    BY <1>1, <1>3, <1>5, <2>1
  <2> QED
    BY <1>2, <2>2, <2>3
<1> QED
  BY <1>4, <1>5

-----------------------------------------------------------------------------
(* Why an instruction stops, or does not.                                  *)

LEMMA ReasonLemma ==
  /\ Reason = "none" => ~HasBreakpoint /\ (dbg.enabled => ~StepDue)
  /\ Reason = "step" => StepDue
  /\ Reason \in {"none", "entry", "breakpoint", "step", "explicit"}
<1>1. /\ PauseReason = "none" =>
           /\ dbg.enabled => ~StepDue
           /\ ~ /\ dbg.enabled
                /\ \/ Here \in DOMAIN dbg.breaks /\ dbg.breaks[Here] = "on"
                   \/ Here \in dbg.source \cup dbg.temps
      /\ PauseReason = "step" => StepDue
      /\ PauseReason \in {"none", "entry", "breakpoint", "step"}
  BY DEF PauseReason
<1>2. /\ Reason = "none" => PauseReason = "none" /\ ~ExplicitDue
      /\ Reason = "step" => PauseReason = "step"
      /\ Reason \in {"none", "entry", "breakpoint", "step", "explicit"}
  BY <1>1 DEF Reason
<1> QED
  BY <1>1, <1>2 DEF HasBreakpoint, ExplicitDue

\* What the depth of the current frame says of its place in the call tree.
LEMMA DueLemma ==
  ASSUME TypeOK, DepthInv, dbg.mode # "none"
  PROVE  /\ Top.kin = "base" => CallDepth = dbg.base /\ OverDue
         /\ Top.kin = "caller" => OverDue /\ OutDue
         /\ Top.kin = "callee" => ~OverDue /\ ~OutDue
         /\ Top.kin = "base" => ~OutDue
<1>1. Len(frames) \in 1 .. Len(frames) /\ Top = frames[Len(frames)]
  BY FramesLemma
<1>2. CallDepth = DepthAt(frames, Len(frames)) /\ CallDepth \in Nat /\ dbg.base \in Nat
  BY CallDepthLemma, FramesLemma, DebugLemma
<1>3. /\ Top.kin = "base" => CallDepth = dbg.base
      /\ Top.kin = "caller" => CallDepth < dbg.base
      /\ Top.kin = "callee" => CallDepth > dbg.base
  BY <1>1, <1>2 DEF DepthInv
<1> QED
  BY <1>2, <1>3 DEF OverDue, OutDue

-----------------------------------------------------------------------------
(* Every step keeps the invariant.                                         *)

LEMMA InitLemma == Init => IInv
<1> SUFFICES ASSUME Init PROVE IInv
  OBVIOUS
<1>1. /\ frames \in Seq(FrameStates) /\ frames # <<>> /\ Len(frames) = 1
      /\ frames[1].kin = "later"
  BY ItemLemma DEF Init
<1>2. PICK on \in BOOLEAN :
        dbg = [enabled |-> on, breaks |-> [l \in BreakLocs \cup PauseLocs |-> "absent"],
               source |-> {}, temps |-> {}, mode |-> IF on THEN "in" ELSE "none",
               granularity |-> "expr", base |-> 0, last |-> NoLoc]
  BY DEF Init
<1>3. /\ host \in {"sync", "coop"} /\ stop = "none" /\ skip = NoLoc /\ passed = FALSE
      /\ stops = 0 /\ asked = dbg.mode /\ lost = FALSE
  BY DEF Init
<1>4. dbg \in DebugStates /\ dbg.mode \in Modes
  BY <1>2 DEF DebugStates, Modes, Granularities
<1>5. TypeOK
  BY <1>1, <1>3, <1>4 DEF TypeOK
<1>6. DepthInv /\ LastInv
  BY <1>1, <1>3 DEF DepthInv, LastInv, Stopped
<1>7. CheckInv /\ PassedInv /\ StepsStayOut /\ AskedInv
  BY <1>3 DEF CheckInv, PassedInv, StepsStayOut, AskedInv, Stopped, AtCheck
<1> QED
  BY <1>5, <1>6, <1>7 DEF IInv

LEMMA PassStep ==
  ASSUME IInv, Pass
  PROVE  IInv'
<1>0. TypeOK /\ DepthInv /\ LastInv /\ CheckInv /\ AskedInv
  BY DEF IInv
<1>1. /\ UNCHANGED <<frames, host, dbg, stop, stops, asked, lost>>
      /\ passed' = TRUE /\ skip' = NoLoc /\ ~Stopped /\ ~passed
  BY DEF Pass, AtCheck, request
<1>2. TypeOK'
  BY <1>0, <1>1 DEF TypeOK
<1>3. DepthInv' /\ LastInv'
  BY <1>0, <1>1 DEF DepthInv, LastInv, Stopped, Here, Loc, Top
<1>4. StepsStayOut' /\ AskedInv'
  BY <1>0, <1>1 DEF StepsStayOut, AskedInv, Stopped
<1>5. \/ skip = NoLoc /\ stops = 0 /\ Reason = "none"
      \/ stops = 1
  <2>1. (skip = NoLoc /\ stops = 0) \/ (skip = Here /\ stops = 1)
    BY <1>0, <1>1 DEF CheckInv, AtCheck
  <2>2. Here # NoLoc
    BY <1>0, HereLemma
  <2> QED
    BY <2>1, <2>2 DEF Pass, Skipped
<1>6. CheckInv'
  <2>1. HasBreakpoint' <=> HasBreakpoint
    BY <1>1 DEF HasBreakpoint, Here, Loc, Top
  <2>2. HasBreakpoint => stops = 1
    BY <1>5, ReasonLemma
  <2>3. stops \in {0, 1}
    BY <1>5
  <2> QED
    BY <1>1, <2>1, <2>2, <2>3 DEF CheckInv, Stopped, AtCheck
<1>7. PassedInv'
  <2> SUFFICES ASSUME dbg.enabled, IsStepUnit, stops = 0
               PROVE  /\ dbg.mode # "in"
                      /\ dbg.mode = "over" => Top.kin \notin {"base", "caller"}
                      /\ dbg.mode = "out" => Top.kin # "caller"
    BY <1>1 DEF PassedInv, IsStepUnit, Top
  <2>1. ~StepDue
    BY <1>5, ReasonLemma
  <2>2. StepPoint
    BY DEF StepPoint, IsStepUnit
  <2>3. /\ dbg.mode # "in"
        /\ dbg.mode = "over" => ~OverDue
        /\ dbg.mode = "out" => ~OutDue
    BY <2>1, <2>2 DEF StepDue
  <2>4. dbg.mode = "over" => Top.kin \notin {"base", "caller"}
    BY <1>0, <2>3, DueLemma
  <2>5. dbg.mode = "out" => Top.kin # "caller"
    BY <1>0, <2>3, DueLemma
  <2> QED
    BY <2>3, <2>4, <2>5
<1> QED
  BY <1>2, <1>3, <1>4, <1>6, <1>7 DEF IInv

LEMMA PauseStep ==
  ASSUME IInv, Pause
  PROVE  IInv'
<1>0. TypeOK /\ DepthInv /\ CheckInv /\ AskedInv
  BY DEF IInv
<1>1. /\ UNCHANGED <<frames, host, passed, asked, lost>> /\ ~passed /\ ~Stopped
      /\ stop' = Reason /\ Reason # "none" /\ ~Skipped
      /\ dbg' = NotePause(NoteExplicit(dbg))
      /\ stops' = stops + 1 /\ skip' = NoLoc
  BY DEF Pause, AtCheck, request
<1>2. /\ dbg' \in DebugStates /\ dbg'.last = Here
      /\ dbg'.mode = dbg.mode /\ dbg'.base = dbg.base
  BY <1>0, <1>1, NoteLemma
<1>3. TypeOK'
  <2>1. stops \in Nat /\ Reason \in {"none", "entry", "breakpoint", "step", "explicit"}
    BY <1>0, ReasonLemma DEF TypeOK
  <2> QED
    BY <1>0, <1>1, <1>2, <2>1 DEF TypeOK
<1>4. DepthInv'
  BY <1>0, <1>1, <1>2 DEF DepthInv
<1>5. LastInv'
  BY <1>1, <1>2 DEF LastInv, Stopped, Here, Loc, Top
<1>6. CheckInv'
  <2>1. stops = 0
    BY <1>0, <1>1 DEF CheckInv, AtCheck, Skipped
  <2> QED
    BY <1>1, <2>1 DEF CheckInv, Stopped, AtCheck
<1>7. PassedInv' /\ AskedInv'
  BY <1>0, <1>1, <1>2 DEF PassedInv, AskedInv
<1>8. StepsStayOut'
  <2> SUFFICES ASSUME Reason = "step"
               PROVE  /\ dbg.mode = "over" => Top.kin # "callee"
                      /\ dbg.mode = "out" => Top.kin \notin {"base", "callee"}
    BY <1>1, <1>2 DEF StepsStayOut, Top
  <2>1. /\ dbg.mode = "over" => OverDue
        /\ dbg.mode = "out" => OutDue
    BY ReasonLemma DEF StepDue
  <2>2. dbg.mode = "over" => Top.kin # "callee"
    BY <1>0, <2>1, DueLemma
  <2>3. dbg.mode = "out" => Top.kin \notin {"base", "callee"}
    BY <1>0, <2>1, DueLemma
  <2> QED
    BY <2>2, <2>3
<1> QED
  BY <1>3, <1>4, <1>5, <1>6, <1>7, <1>8 DEF IInv

LEMMA SwallowedPauseStep ==
  ASSUME IInv, SwallowedPause
  PROVE  IInv'
<1>0. TypeOK /\ CheckInv
  BY DEF IInv
<1> DEFINE d == NotePause(NoteExplicit(dbg))
<1>1. /\ UNCHANGED <<frames, host, stop, stops, asked>> /\ ~passed /\ ~Stopped /\ lost' = TRUE
      /\ ~Skipped /\ Swallowed /\ dbg' = ClearMode(d)
      /\ passed' = TRUE /\ skip' = NoLoc
  BY DEF SwallowedPause, AtCheck
<1>2. d \in DebugStates
  BY <1>0, NoteLemma
<1> HIDE DEF d
<1>3. dbg' \in DebugStates /\ dbg'.mode = "none"
  BY <1>1, <1>2, ClearLemma
<1>4. TypeOK'
  BY <1>0, <1>1, <1>3 DEF TypeOK
<1>5. DepthInv' /\ LastInv'
  BY <1>1, <1>3 DEF DepthInv, LastInv, Stopped
<1>6. CheckInv'
  <2>1. stops = 0
    BY <1>0, <1>1 DEF CheckInv, AtCheck, Skipped
  <2>2. Swallowed'
    BY <1>1 DEF Swallowed, Top
  <2> QED
    BY <1>1, <2>1, <2>2 DEF CheckInv, Stopped, AtCheck
<1>7. PassedInv' /\ StepsStayOut' /\ AskedInv'
  BY <1>1, <1>3 DEF PassedInv, StepsStayOut, AskedInv, Stopped
<1> QED
  BY <1>4, <1>5, <1>6, <1>7 DEF IInv

LEMMA ResumeStep ==
  ASSUME IInv, Resume
  PROVE  IInv'
<1>0. TypeOK /\ LastInv /\ CheckInv
  BY DEF IInv
<1>1. /\ frames' = Rebase(frames) /\ Stopped /\ stop' = "none" /\ host' = host /\ stops' = stops
      /\ \/ passed' = TRUE /\ skip' = skip
         \/ passed' = passed /\ skip' = Here
  BY DEF Resume, MarkHere
<1>2. PICK a \in Modes : dbg' = Request(dbg, a) /\ asked' = a /\ lost' = FALSE
  BY DEF Resume
<1>3. dbg' \in DebugStates /\ dbg'.last = dbg.last /\ dbg'.mode = a
  BY <1>0, <1>2, RequestLemma
<1>4. dbg.last = Here /\ stops = 1 /\ ~passed /\ skip = NoLoc
  BY <1>0, <1>1 DEF LastInv, CheckInv
<1>5. /\ frames' \in Seq(FrameStates) /\ frames' # <<>> /\ Len(frames') = Len(frames)
      /\ \A i \in 1 .. Len(frames) :
           /\ frames'[i].fn = frames[i].fn /\ frames'[i].pc = frames[i].pc
           /\ frames'[i].kin = IF i = Len(frames) THEN "base" ELSE "caller"
  BY <1>0, <1>1, RebaseLemma DEF FramesTyped
<1>6. TypeOK'
  <2>1. Here \in Locs /\ skip \in Locs \cup {NoLoc} /\ passed \in BOOLEAN
        /\ host \in {"sync", "coop"} /\ stops \in Nat
    BY <1>0, HereLemma DEF TypeOK
  <2>2. skip' \in Locs \cup {NoLoc} /\ passed' \in BOOLEAN
    BY <1>1, <2>1
  <2> QED
    BY <1>1, <1>2, <1>3, <1>5, <2>1, <2>2 DEF TypeOK
<1>7. DepthInv'
  BY <1>0, <1>1, <1>2, ResumeDepthLemma
<1>8. LastInv'
  <2>1. ~Stopped'
    BY <1>1 DEF Stopped
  <2>2. ASSUME NEW i \in 1 .. Len(frames'), frames'[i].kin = "base"
        PROVE  frames'[i].fn = dbg'.last[1]
    <3>1. i = Len(frames) /\ i \in 1 .. Len(frames)
      BY <1>5, <2>2
    <3>2. frames'[i].fn = Top.fn
      BY <1>0, <1>5, <3>1, FramesLemma
    <3> QED
      BY <1>0, <1>3, <1>4, <3>2, HereLemma
  <2> QED
    BY <2>1, <2>2 DEF LastInv
<1>9. CheckInv'
  <2>1. Here' = Here
    <3>1. Len(frames) \in 1 .. Len(frames) /\ Here = Loc(frames[Len(frames)])
      BY <1>0, FramesLemma DEF Here
    <3>2. Here' = Loc(frames'[Len(frames)])
      BY <1>5 DEF Here, Top, Last, Loc
    <3> QED
      BY <1>5, <3>1, <3>2 DEF Loc
  <2>2. ~Stopped' /\ stops' = 1
    BY <1>1, <1>4 DEF Stopped
  <2>3. \/ passed' = TRUE /\ skip' = NoLoc
        \/ passed' = FALSE /\ skip' = Here
    BY <1>0, <1>1, <1>4 DEF TypeOK
  <2> QED
    BY <2>1, <2>2, <2>3 DEF CheckInv, AtCheck
<1>10. PassedInv'
  BY <1>1, <1>4 DEF PassedInv
<1>11. StepsStayOut' /\ AskedInv'
  BY <1>1, <1>2, <1>3 DEF StepsStayOut, AskedInv
<1> QED
  BY <1>6, <1>7, <1>8, <1>9, <1>10, <1>11 DEF IInv

LEMMA ExecuteStep ==
  ASSUME IInv, Execute
  PROVE  IInv'
<1>0. TypeOK /\ DepthInv /\ LastInv /\ CheckInv /\ AskedInv
  BY DEF IInv
<1>1. passed /\ passed' = FALSE /\ stops' = 0 /\ UNCHANGED <<host, stop, skip>>
  BY DEF Execute, Executed
<1>2. ~Stopped /\ skip = NoLoc
  BY <1>0, <1>1 DEF CheckInv
<1>3. ~Stopped'
  BY <1>1, <1>2 DEF Stopped
<1>4. /\ dbg' \in DebugStates /\ FramesTyped /\ DepthInv' /\ LastInv'
      /\ AskedInv' /\ asked' \in Modes /\ lost' \in BOOLEAN
  <2>1. CASE Moved
    <3>1. /\ FramesTyped /\ dbg' = dbg /\ UNCHANGED <<asked, lost>> /\ DepthInv'
          /\ \A i \in 1 .. Len(frames') :
               frames'[i].kin = "base" =>
                 i \in 1 .. Len(frames) /\ frames[i].kin = "base" /\ frames'[i].fn = frames[i].fn
      BY <1>0, <2>1, MovedLemma
    <3>2. LastInv'
      BY <1>0, <1>2, <1>3, <3>1 DEF LastInv
    <3>3. dbg \in DebugStates /\ asked \in Modes /\ lost \in BOOLEAN
      BY <1>0 DEF TypeOK
    <3>4. AskedInv'
      BY <1>0, <3>1 DEF AskedInv
    <3> QED
      BY <3>1, <3>2, <3>3, <3>4
  <2>2. CASE NextItem
    <3>1. /\ dbg' \in DebugStates /\ FramesTyped /\ Len(frames') = 1 /\ frames'[1].kin = "later"
          /\ \/ asked' = "in" /\ lost' = FALSE /\ dbg'.mode = "in"
             \/ asked' = asked /\ lost' = lost /\ dbg'.mode = dbg.mode
      BY <1>0, <2>2, NextItemLemma
    <3>2. \A i \in 1 .. Len(frames') : frames'[i].kin = "later"
      BY <3>1
    <3>3. DepthInv' /\ LastInv'
      BY <1>3, <3>2 DEF DepthInv, LastInv
    <3>4. AskedInv'
      BY <1>0, <3>1 DEF AskedInv
    <3>5. asked' \in Modes /\ lost' \in BOOLEAN
      <4>1. "in" \in Modes /\ asked \in Modes /\ lost \in BOOLEAN
        BY <1>0 DEF TypeOK, Modes
      <4> QED
        BY <3>1, <4>1
    <3> QED
      BY <3>1, <3>3, <3>4, <3>5
  <2>3. Moved \/ NextItem
    BY DEF Execute, Moved
  <2> QED
    BY <2>1, <2>2, <2>3
<1>5. TypeOK'
  BY <1>0, <1>1, <1>4 DEF TypeOK, FramesTyped
<1>6. CheckInv'
  BY <1>1, <1>2, <1>3 DEF CheckInv, AtCheck
<1>7. PassedInv' /\ StepsStayOut'
  BY <1>1, <1>3 DEF PassedInv, StepsStayOut, Stopped
<1> QED
  BY <1>4, <1>5, <1>6, <1>7 DEF IInv

LEMMA EditsStep ==
  ASSUME IInv, Edits
  PROVE  IInv'
<1>0. TypeOK /\ DepthInv /\ LastInv /\ CheckInv /\ StepsStayOut /\ AskedInv
  BY DEF IInv
<1>1. /\ Stopped /\ UNCHANGED <<frames, host, stop, skip, passed, stops, asked, lost>>
      /\ dbg' \in DebugStates
      /\ dbg'.last = dbg.last /\ dbg'.mode = dbg.mode /\ dbg'.base = dbg.base
  BY <1>0, EditsLemma
<1>2. ~passed
  BY <1>0, <1>1 DEF CheckInv
<1>3. TypeOK'
  BY <1>0, <1>1 DEF TypeOK
<1>4. DepthInv' /\ LastInv'
  BY <1>0, <1>1 DEF DepthInv, LastInv, Stopped, Here, Loc, Top
<1>5. CheckInv' /\ PassedInv'
  BY <1>0, <1>1, <1>2 DEF CheckInv, PassedInv, Stopped, AtCheck
<1>6. StepsStayOut' /\ AskedInv'
  BY <1>0, <1>1 DEF StepsStayOut, AskedInv, Top
<1> QED
  BY <1>3, <1>4, <1>5, <1>6 DEF IInv

LEMMA StutterStep ==
  ASSUME IInv, UNCHANGED vars
  PROVE  IInv'
<1>0. TypeOK /\ DepthInv /\ LastInv /\ CheckInv /\ PassedInv /\ StepsStayOut /\ AskedInv
  BY DEF IInv
<1>1. UNCHANGED <<frames, host, dbg, stop, skip, passed, stops, asked, lost>>
  BY DEF vars
<1>2. TypeOK'
  BY <1>0, <1>1 DEF TypeOK
<1>3. DepthInv' /\ LastInv'
  BY <1>0, <1>1 DEF DepthInv, LastInv, Stopped, Here, Loc, Top
<1>4. CheckInv'
  BY <1>0, <1>1 DEF CheckInv, Stopped, AtCheck, HasBreakpoint, Swallowed, Here, Loc, Top
<1>5. PassedInv' /\ StepsStayOut' /\ AskedInv'
  BY <1>0, <1>1 DEF PassedInv, StepsStayOut, AskedInv, IsStepUnit, Top
<1> QED
  BY <1>2, <1>3, <1>4, <1>5 DEF IInv

LEMMA StepLemma == IInv /\ [Next]_vars => IInv'
<1> SUFFICES ASSUME IInv, [Next]_vars PROVE IInv'
  OBVIOUS
<1>1. \/ Pass \/ Pause \/ SwallowedPause \/ Resume \/ Execute \/ Edits \/ UNCHANGED vars
  BY DEF Next, Edits
<1> QED
  BY <1>1, PassStep, PauseStep, SwallowedPauseStep, ResumeStep, ExecuteStep, EditsStep,
     StutterStep

THEOREM InvariantTheorem == Spec => []IInv
<1>1. Init => IInv
  BY InitLemma
<1>2. IInv /\ [Next]_vars => IInv'
  BY StepLemma
<1> QED
  BY <1>1, <1>2, PTL DEF Spec

-----------------------------------------------------------------------------
(* The properties.                                                         *)

\* The frames and the debugger's state keep their types (TypeOK): a mark of
\* resume_debug_pause is a location of the program, and a frame's tail-call
\* depth stays in its bound.
THEOREM TypeTheorem == Spec => []TypeOK
<1>1. IInv => TypeOK
  BY DEF IInv
<1> QED
  BY <1>1, InvariantTheorem, PTL

\* Step over never stops inside what the frame of the request called, and step
\* out not in that frame either, however calls and tail calls are nested
\* (pause_reason_at compares the logical depth of Vm::call_depth).
THEOREM StaysOutTheorem == Spec => []StepsStayOut
<1>1. IInv => StepsStayOut
  BY DEF IInv
<1> QED
  BY <1>1, InvariantTheorem, PTL

\* What a breakpoint or an @p marks is executed after exactly one stop there:
\* resume_debug_pause lets it pass once and only there.
THEOREM BreakpointsTheorem == Spec => BreakpointsHold
<1> DEFINE A == Executes => /\ stops \in {0, 1}
                            /\ HasBreakpoint /\ ~Swallowed => stops = 1
<1>1. IInv => A
  BY DEF IInv, CheckInv, Executes
<1>2. IInv => [A]_vars
  BY <1>1
<1>3. Spec => [][A]_vars
  BY <1>2, InvariantTheorem, PTL
<1> QED
  BY <1>3 DEF BreakpointsHold

\* The statement that a step is to reach is not executed without a stop, whatever
\* was called, unwound or stopped at on the way, as long as no stop was swallowed
\* since the request: dispatch_pause (vm/debug.rs:60-65) continues a stop that has
\* no handler, which clears the mode, and only in code that a builtin runs
\* atomically under a cooperative host.
THEOREM TakenTheorem == Spec => StepsAreTaken
<1>1. IInv => (~lost => StepKept)
  BY DEF IInv, PassedInv, AskedInv, StepKept, Executes
<1>2. IInv => [~lost => StepKept]_vars
  BY <1>1
<1>3. Spec => [][~lost => StepKept]_vars
  BY <1>2, InvariantTheorem, PTL
<1> QED
  BY <1>3 DEF StepsAreTaken

\* Only the check before an instruction makes a stop.
LEMMA StopsLemma ==
  ASSUME [Next]_vars, stop = "none", stop' = "step"
  PROVE  Pause /\ Reason = "step"
<1>1. Pause
  BY DEF Next, vars, Pass, SwallowedPause, Resume, Execute, Executed, EditLines, EditBreakpoint
<1> QED
  BY <1>1 DEF Pause

\* A step by lines that comes back to the frame of its request does not stop on
\* the line it left (is_same_line_as_last_pause).
THEOREM LinesTheorem == Spec => LinesAdvance
<1> DEFINE A == (stop = "none" /\ stop' = "step" /\ dbg.granularity = "line" /\ Top.kin = "base")
                  => LineOf[dbg.last[2]] # LineOf[Top.pc]
<1>1. IInv /\ [Next]_vars => A
  <2> SUFFICES ASSUME IInv, [Next]_vars, stop = "none", stop' = "step",
                      dbg.granularity = "line", Top.kin = "base"
               PROVE  LineOf[dbg.last[2]] # LineOf[Top.pc]
    OBVIOUS
  <2>0. TypeOK /\ DepthInv /\ LastInv
    BY DEF IInv
  <2>1. StepDue
    BY StopsLemma, ReasonLemma
  <2>2. dbg.mode # "none" /\ ~SameLine
    BY <2>1 DEF StepDue, StepPoint
  <2>3. CallDepth = dbg.base
    BY <2>0, <2>2, DueLemma
  <2>4. Top.fn = dbg.last[1]
    <3>1. Len(frames) \in 1 .. Len(frames) /\ Top = frames[Len(frames)]
      BY <2>0, FramesLemma
    <3> QED
      BY <2>0, <2>2, <3>1 DEF LastInv, Stopped
  <2> QED
    BY <2>2, <2>3, <2>4 DEF SameLine
<1>2. IInv => ([Next]_vars => [A]_vars)
  BY <1>1
<1>3. Spec => [][A]_vars
  BY <1>2, InvariantTheorem, PTL DEF Spec
<1> QED
  BY <1>3 DEF LinesAdvance

=============================================================================
