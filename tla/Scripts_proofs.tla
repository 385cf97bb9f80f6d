--------------------------- MODULE Scripts_proofs ---------------------------
(***************************************************************************)
(* The proofs about what becomes of a script.  First the files it loads    *)
(* (LoadGraph), for any files, any names they have, any embedded scripts   *)
(* and any depth of loads; then the code it is compiled to (Rewriting),    *)
(* for any code of the compiler's shape and whatever its calls do.         *)
(***************************************************************************)
EXTENDS LoadGraph, Rewriting, SequenceTheorems, FiniteSetTheorems, TLAPS

----------------------------------------------------------------------------
(* Files that load files. *)

\* What an evaluation of a file or of an embedded script is called.
NameFits(c) ==
  /\ c.kind = "file" => c.name \in Paths
  /\ c.kind = "embedded" => c.name \in Embedded

\* The prompt has no evaluation, and what loads a script has its name.
ShapeInv ==
  /\ turn = "prompt" <=> calls = <<>>
  /\ \A i \in DOMAIN calls : NameFits(calls[i])
  /\ error \in [kind : {"none", "evaluation", "cycle", "io", "directive"},
                crash : 0 .. MaxCrashes]

\* The crash on record is that of the error on its way, and a script that runs
\* has none.
CrashInv ==
  /\ crash = error.crash
  /\ turn = "running" => error.crash = 0

IInv == TypeOK /\ ShapeInv /\ LoadingIsOpen /\ CrashInv

\* What the steps of a script do to the evaluations: an item less of the last.
LEMMA ItemTakenLemma ==
  ASSUME IInv, AtItem
  PROVE  /\ ItemTaken \in Seq(Call) /\ Len(ItemTaken) = Len(calls) /\ ItemTaken # <<>>
         /\ \A i \in DOMAIN calls : /\ ItemTaken[i].kind = calls[i].kind
                                    /\ ItemTaken[i].name = calls[i].name
<1>1. calls \in Seq(Call) /\ Len(calls) > 0
  BY LoadAssumption DEF IInv, TypeOK, ShapeInv, AtItem, Call
<1>2. Innermost \in Call /\ Innermost.left > 0
  BY <1>1 DEF AtItem, Innermost, Last
<1>3. [Innermost EXCEPT !.left = @ - 1] \in Call
  BY <1>2, LoadAssumption DEF Call
<1>4. ItemTaken = [calls EXCEPT ![Len(calls)] = [Innermost EXCEPT !.left = @ - 1]]
  BY <1>1 DEF ItemTaken, Innermost, Last
<1>5. \A i \in DOMAIN calls : /\ ItemTaken[i].kind = calls[i].kind
                              /\ ItemTaken[i].name = calls[i].name
  BY <1>1, <1>2, <1>4 DEF Innermost, Last, Call
<1> QED
  BY <1>1, <1>3, <1>4, <1>5

\* A step that only takes an item keeps the marks true.
LEMMA ItemKeepsMarks ==
  ASSUME IInv, AtItem, calls' = ItemTaken, loading' = loading
  PROVE  LoadingIsOpen' /\ OpenFiles' = OpenFiles
<1>1. DOMAIN calls' = DOMAIN calls
  BY ItemTakenLemma DEF IInv, TypeOK
<1>2. OpenFiles' = OpenFiles
  BY <1>1, ItemTakenLemma DEF OpenFiles
<1>3. \A i \in OpenFiles : calls'[i].name = calls[i].name
  BY ItemTakenLemma DEF OpenFiles
<1> QED
  BY <1>2, <1>3 DEF IInv, LoadingIsOpen

\* The script that a directive loads is added after the one that loads it.
LEMMA EnterLemma ==
  ASSUME IInv, AtItem, NEW c \in Call, calls' = Append(ItemTaken, c)
  PROVE  /\ calls' \in Seq(Call) /\ Len(calls') = Len(calls) + 1
         /\ calls'[Len(calls) + 1] = c
         /\ \A i \in DOMAIN calls : /\ calls'[i].kind = calls[i].kind
                                    /\ calls'[i].name = calls[i].name
  BY ItemTakenLemma DEF IInv, TypeOK

\* All but the last of a sequence.
LEMMA FrontLemma ==
  ASSUME NEW S, NEW s \in Seq(S), Len(s) > 0
  PROVE  /\ Front(s) \in Seq(S) /\ Len(Front(s)) = Len(s) - 1
         /\ \A i \in DOMAIN Front(s) : i \in DOMAIN s /\ Front(s)[i] = s[i]
<1>1. PICK n : n = Len(s) - 1
  OBVIOUS
<1>2. n \in Int /\ n \in Nat /\ 1 \in Int
  BY <1>1
<1>3. \A i \in 1 .. n : s[i] \in S
  BY <1>1
<1>4. PICK t : t = SubSeq(s, 1, n)
  OBVIOUS
<1>5. /\ t \in Seq(S) /\ Len(t) = (IF 1 <= n THEN n - 1 + 1 ELSE 0)
      /\ \A i \in 1 .. n - 1 + 1 : t[i] = s[1 + i - 1]
  <2>1. /\ SubSeq(s, 1, n) \in Seq(S)
        /\ Len(SubSeq(s, 1, n)) = (IF 1 <= n THEN n - 1 + 1 ELSE 0)
        /\ \A i \in 1 .. n - 1 + 1 : SubSeq(s, 1, n)[i] = s[1 + i - 1]
    BY ONLY <1>2, <1>3, SubSeqProperties, SMT
  <2> QED
    BY ONLY <1>4, <2>1, Zenon
<1>6. t = Front(s)
  BY <1>1, <1>4 DEF Front
<1>7. Len(t) = Len(s) - 1 /\ \A i \in DOMAIN t : i \in DOMAIN s /\ t[i] = s[i]
  BY ONLY <1>1, <1>2, <1>5, s \in Seq(S), SMT
<1> QED
  BY <1>5, <1>6, <1>7

\* An evaluation that ends is taken off, and the marks stay true.
LEMMA LeaveLemma ==
  ASSUME IInv, turn # "prompt", calls' = Front(calls), loading' = MarksAfter(Innermost)
  PROVE  /\ calls' \in Seq(Call) /\ (calls' = <<>> <=> Len(calls) = 1)
         /\ LoadingIsOpen' /\ loading' \subseteq Paths
         /\ \A i \in DOMAIN calls' : NameFits(calls'[i])
<1>1. calls \in Seq(Call) /\ Len(calls) > 0
  BY DEF IInv, TypeOK, ShapeInv, Call
<1>2. /\ calls' \in Seq(Call) /\ Len(calls') = Len(calls) - 1
      /\ \A i \in DOMAIN calls' : i \in DOMAIN calls /\ calls'[i] = calls[i]
  BY <1>1, FrontLemma
<1>3. OpenFiles' = OpenFiles \ {Len(calls)}
  BY <1>1, <1>2 DEF OpenFiles
<1>4. Len(calls) \in OpenFiles <=> Innermost.kind = "file"
  BY <1>1 DEF OpenFiles, Innermost, Last
<1>5. LoadingIsOpen'
  <2>1. CASE Len(calls) \in OpenFiles
    <3>1. loading' = loading \ {File[calls[Len(calls)].name]}
      BY <1>4, <2>1 DEF MarksAfter, Innermost, Last
    <3> QED
      BY <1>2, <1>3, <2>1, <3>1 DEF IInv, LoadingIsOpen, OpenFiles
  <2>2. CASE Len(calls) \notin OpenFiles
    BY <1>2, <1>3, <1>4, <2>2 DEF IInv, LoadingIsOpen, OpenFiles, MarksAfter
  <2> QED
    BY <2>1, <2>2
<1>6. \A i \in DOMAIN calls' : NameFits(calls'[i])
  BY <1>2 DEF IInv, ShapeInv
<1>7. loading' \subseteq Paths
  BY DEF IInv, TypeOK, MarksAfter
<1> QED
  BY <1>1, <1>2, <1>5, <1>6, <1>7

LEMMA InitIInv == Init => IInv
<1> SUFFICES ASSUME Init PROVE IInv
  OBVIOUS
<1>1. TypeOK
  <2>1. halted \in BOOLEAN
    BY DEF Init
  <2> QED
    BY <2>1, LoadAssumption, EmptySeq DEF Init, TypeOK
<1>2. OpenFiles = {}
  BY DEF Init, OpenFiles
<1>3. LoadingIsOpen
  BY <1>2 DEF Init, LoadingIsOpen
<1>4. ShapeInv /\ CrashInv
  BY LoadAssumption DEF Init, ShapeInv, CrashInv, NoError
<1> QED
  BY <1>1, <1>3, <1>4 DEF IInv

\* Steps that take an item of the running script, and load nothing.
LEMMA ItemStep ==
  ASSUME IInv, AtItem, calls' = ItemTaken, loading' = loading, registry' = registry,
         turn' \in {"running", "failing"}, halted' \in BOOLEAN,
         error' \in [kind : {"none", "evaluation", "cycle", "io", "directive"},
                     crash : 0 .. MaxCrashes],
         crashes' \in 0 .. MaxCrashes, CrashInv'
  PROVE  IInv'
<1>1. TypeOK'
  BY ItemTakenLemma DEF IInv, TypeOK, CrashInv, Call
<1>2. ShapeInv'
  <2>1. DOMAIN calls' = DOMAIN calls
    BY ItemTakenLemma DEF IInv, TypeOK
  <2>2. \A i \in DOMAIN calls' : NameFits(calls'[i])
    BY <2>1, ItemTakenLemma DEF IInv, ShapeInv, NameFits
  <2> QED
    BY <2>2, ItemTakenLemma DEF ShapeInv
<1> QED
  BY <1>1, <1>2, ItemKeepsMarks DEF IInv

LEMMA StepIInv == IInv /\ [Next]_vars => IInv'
<1> SUFFICES ASSUME IInv, [Next]_vars PROVE IInv'
  OBVIOUS
<1>0. /\ crash = 0 \/ turn # "running"
      /\ error.crash = 0 \/ turn # "running"
      /\ crash = error.crash /\ crashes \in 0 .. MaxCrashes
      /\ error \in [kind : {"none", "evaluation", "cycle", "io", "directive"},
                    crash : 0 .. MaxCrashes]
      /\ halted \in BOOLEAN /\ MaxCrashes \in Nat /\ MaxItems \in Nat
  BY LoadAssumption DEF IInv, TypeOK, ShapeInv, CrashInv
<1>1. CASE Line
  <2>1. PICK n \in 1 .. MaxItems : calls' = <<[kind |-> "line", name |-> NoName, left |-> n]>>
    BY <1>1 DEF Line
  <2>2. OpenFiles' = {} /\ OpenFiles = {} /\ loading' = {}
    BY <1>1, <2>1 DEF Line, OpenFiles, IInv, ShapeInv, LoadingIsOpen
  <2>3. calls' \in Seq(Call) /\ calls' # <<>>
    BY <1>0, <2>1 DEF Call
  <2>4. TypeOK'
    <3>1. halted' \in BOOLEAN
      BY <1>1 DEF Line
    <3> QED
      BY <1>0, <1>1, <2>2, <2>3, <3>1 DEF Line, TypeOK
  <2>5. LoadingIsOpen'
    BY <2>2 DEF LoadingIsOpen
  <2>6. \A i \in DOMAIN calls' : NameFits(calls'[i])
    BY <2>1 DEF NameFits
  <2>7. ShapeInv' /\ CrashInv'
    BY <1>0, <1>1, <2>3, <2>6 DEF Line, ShapeInv, CrashInv, NoError
  <2> QED
    BY <2>4, <2>5, <2>7 DEF IInv
<1>2. CASE Code
  BY <1>0, <1>2, ItemStep DEF Code, AtItem, CrashInv
<1>3. CASE Interrupted
  BY <1>0, <1>3, ItemStep DEF Interrupted, AtItem, CrashInv
<1>4. CASE CodeRejected
  BY <1>0, <1>4, ItemStep DEF CodeRejected, Fail, AtItem, CrashInv
<1>5. CASE CodeCrashes
  BY <1>0, <1>5, ItemStep DEF CodeCrashes, Fail, AtItem, CrashInv
<1>6. ASSUME NEW p \in Paths, LoadCycle(p) PROVE IInv'
  BY <1>0, <1>6, ItemStep DEF LoadCycle, AtDirective, Fail, AtItem, CrashInv
<1>7. ASSUME NEW p \in Paths, LoadUnreadable(p) PROVE IInv'
  BY <1>0, <1>7, ItemStep DEF LoadUnreadable, AtDirective, Fail, AtItem, CrashInv
<1>8. ASSUME NEW p \in Paths, LoadFile(p) PROVE IInv'
  <2>1. AtItem /\ File[p] \notin loading /\ turn = "running"
    BY <1>8 DEF LoadFile, AtDirective, AtItem
  <2>2. PICK n \in 0 .. MaxItems :
          calls' = Append(ItemTaken, [kind |-> "file", name |-> p, left |-> n]) /\ crash' = 0
    BY <1>8 DEF LoadFile, Enter
  <2> DEFINE c == [kind |-> "file", name |-> p, left |-> n]
  <2>3. c \in Call
    BY DEF Call
  <2>4. /\ calls' \in Seq(Call) /\ Len(calls') = Len(calls) + 1
        /\ calls'[Len(calls) + 1] = c
        /\ \A i \in DOMAIN calls : /\ calls'[i].kind = calls[i].kind
                                   /\ calls'[i].name = calls[i].name
    BY <2>1, <2>2, <2>3, EnterLemma
  <2>5. OpenFiles' = OpenFiles \cup {Len(calls) + 1}
    BY <2>4 DEF OpenFiles, IInv, TypeOK
  <2>6. Len(calls) + 1 \notin OpenFiles /\ \A i \in OpenFiles : calls'[i].name = calls[i].name
    BY <2>4 DEF OpenFiles, IInv, TypeOK
  <2>7. LoadingIsOpen'
    BY <1>8, <2>1, <2>4, <2>5, <2>6 DEF LoadFile, LoadingIsOpen, IInv
  <2>8. ShapeInv'
    <3>1. \A i \in DOMAIN calls : NameFits(calls'[i])
      BY <2>4 DEF IInv, ShapeInv, NameFits
    <3>2. NameFits(calls'[Len(calls) + 1])
      BY <2>4 DEF NameFits
    <3>3. \A i \in DOMAIN calls' : i \in DOMAIN calls \/ i = Len(calls) + 1
      BY <2>4 DEF IInv, TypeOK
    <3>4. calls' # <<>>
      BY <2>4 DEF IInv, TypeOK
    <3> QED
      BY <1>0, <1>8, <2>1, <3>1, <3>2, <3>3, <3>4 DEF LoadFile, ShapeInv
  <2>9. File[p] \in Paths
    BY LoadAssumption
  <2> QED
    BY <1>0, <1>8, <2>1, <2>2, <2>4, <2>7, <2>8, <2>9
       DEF LoadFile, IInv, TypeOK, CrashInv, Call
<1>9. ASSUME NEW e \in Embedded, SkipEmbedded(e) PROVE IInv'
  BY <1>0, <1>9, ItemStep DEF SkipEmbedded, AtDirective, AtItem, CrashInv
<1>10. ASSUME NEW e \in Embedded, LoadEmbedded(e) PROVE IInv'
  <2>1. AtItem /\ turn = "running"
    BY <1>10 DEF LoadEmbedded, AtDirective, AtItem
  <2>2. PICK n \in 0 .. MaxItems :
          calls' = Append(ItemTaken, [kind |-> "embedded", name |-> e, left |-> n]) /\ crash' = 0
    BY <1>10 DEF LoadEmbedded, Enter
  <2> DEFINE c == [kind |-> "embedded", name |-> e, left |-> n]
  <2>3. c \in Call
    BY DEF Call
  <2>4. /\ calls' \in Seq(Call) /\ Len(calls') = Len(calls) + 1
        /\ calls'[Len(calls) + 1] = c
        /\ \A i \in DOMAIN calls : /\ calls'[i].kind = calls[i].kind
                                   /\ calls'[i].name = calls[i].name
    BY <2>1, <2>2, <2>3, EnterLemma
  <2>5. OpenFiles' = OpenFiles /\ \A i \in OpenFiles : calls'[i].name = calls[i].name
    BY <2>4 DEF OpenFiles, IInv, TypeOK
  <2>6. LoadingIsOpen'
    BY <1>10, <2>5 DEF LoadEmbedded, LoadingIsOpen, IInv
  <2>7. ShapeInv'
    <3>1. \A i \in DOMAIN calls : NameFits(calls'[i])
      BY <2>4 DEF IInv, ShapeInv, NameFits
    <3>2. NameFits(calls'[Len(calls) + 1])
      BY <2>4 DEF NameFits
    <3>3. \A i \in DOMAIN calls' : i \in DOMAIN calls \/ i = Len(calls) + 1
      BY <2>4 DEF IInv, TypeOK
    <3>4. calls' # <<>>
      BY <2>4 DEF IInv, TypeOK
    <3> QED
      BY <1>0, <1>10, <2>1, <3>1, <3>2, <3>3, <3>4 DEF LoadEmbedded, ShapeInv
  <2> QED
    BY <1>0, <1>10, <2>1, <2>2, <2>4, <2>6, <2>7
       DEF LoadEmbedded, IInv, TypeOK, CrashInv, Call
<1>11. CASE UnknownDirective
  BY <1>0, <1>11, ItemStep DEF UnknownDirective, AtDirective, Fail, AtItem, CrashInv
<1>12. CASE Done
  <2>1. turn = "running" /\ turn # "prompt" /\ calls' = Front(calls) /\ loading' = MarksAfter(Innermost)
    BY <1>12 DEF Done
  <2>2. registry' \subseteq Embedded
    <3>1. Innermost.kind = "embedded" => Innermost.name \in Embedded
      <4>1. Len(calls) \in DOMAIN calls /\ Innermost = calls[Len(calls)]
        BY <2>1 DEF IInv, TypeOK, ShapeInv, Innermost, Last
      <4> QED
        BY <4>1 DEF IInv, ShapeInv, NameFits
    <3> QED
      BY <1>12, <3>1 DEF Done, IInv, TypeOK
  <2>3. /\ calls' \in Seq(Call) /\ (calls' = <<>> <=> Len(calls) = 1)
        /\ LoadingIsOpen' /\ loading' \subseteq Paths
        /\ \A i \in DOMAIN calls' : NameFits(calls'[i])
    BY ONLY <2>1, LeaveLemma, IInv
  <2>4. TypeOK'
    BY <1>0, <1>12, <2>2, <2>3 DEF Done, TypeOK, Call
  <2>5. ShapeInv' /\ CrashInv'
    BY <1>0, <1>12, <2>1, <2>3 DEF Done, ShapeInv, CrashInv
  <2> QED
    BY <2>3, <2>4, <2>5 DEF IInv
<1>13. CASE Unwind
  <2>1. turn = "failing" /\ turn # "prompt" /\ calls' = Front(calls) /\ loading' = MarksAfter(Innermost)
    BY <1>13 DEF Unwind
  <2>2. /\ calls' \in Seq(Call) /\ (calls' = <<>> <=> Len(calls) = 1)
        /\ LoadingIsOpen' /\ loading' \subseteq Paths
        /\ \A i \in DOMAIN calls' : NameFits(calls'[i])
    BY ONLY <2>1, LeaveLemma, IInv
  <2>3. crash' = error.crash
    BY <1>0, <1>13 DEF Unwind, Retained
  <2>4. TypeOK'
    BY <1>0, <1>13, <2>2, <2>3 DEF Unwind, TypeOK, IInv, Call
  <2>5. ShapeInv' /\ CrashInv'
    BY <1>0, <1>13, <2>1, <2>2, <2>3 DEF Unwind, ShapeInv, CrashInv
  <2> QED
    BY <2>2, <2>4, <2>5 DEF IInv
<1>14. CASE UNCHANGED vars
  BY <1>14 DEF vars, IInv, TypeOK, ShapeInv, LoadingIsOpen, CrashInv, OpenFiles
<1> QED
  BY <1>1, <1>2, <1>3, <1>4, <1>5, <1>6, <1>7, <1>8, <1>9, <1>10, <1>11, <1>12,
     <1>13, <1>14 DEF Next

\* A file is marked as being loaded exactly while an evaluation of it is open,
\* for any files and links between them.
THEOREM LoadingTheorem == Spec => []LoadingIsOpen
<1>1. IInv => LoadingIsOpen
  BY DEF IInv
<1> QED
  BY <1>1, InitIInv, StepIInv, PTL DEF Spec

\* Back at the prompt, the post-mortem is that of the error that ended the line.
THEOREM PostmortemTheorem == Spec => []PostmortemIsTheErrors
<1>1. IInv => PostmortemIsTheErrors
  BY DEF IInv, CrashInv, PostmortemIsTheErrors
<1> QED
  BY <1>1, InitIInv, StepIInv, PTL DEF Spec

\* The variables keep their types.
THEOREM TypeTheorem == Spec => []TypeOK
<1>1. IInv => TypeOK
  BY DEF IInv
<1> QED
  BY <1>1, InitIInv, StepIInv, PTL DEF Spec

----------------------------------------------------------------------------
(* Where fusion moves an address. *)

\* How many of the kept instructions are before an address grows with the address.
LEMMA BeforeLemma ==
  ASSUME NEW n \in Nat, NEW K \in SUBSET (1..n)
  PROVE  /\ IsFiniteSet(K) /\ Cardinality(K) \in Nat
         /\ \A p \in Nat :
               /\ Before(K, p) \in Nat /\ Before(K, p) <= Cardinality(K)
               /\ Before(K, p + 1) = IF p \in K THEN Before(K, p) + 1 ELSE Before(K, p)
               /\ p \in K => Before(K, p) < Cardinality(K)
         /\ \A p, q \in Nat : p <= q => Before(K, p) <= Before(K, q)
<1>0. \A i \in K : i \in Int
  OBVIOUS
<1>1. IsFiniteSet(K) /\ Cardinality(K) \in Nat
  BY FS_Interval, FS_Subset, FS_CardinalityType, 0 \in Int, 1 \in Int, n \in Int
<1>2. \A p \in Nat : /\ IsFiniteSet({i \in K : i < p}) /\ Before(K, p) \in Nat
                     /\ Before(K, p) <= Cardinality(K)
  <2> TAKE p \in Nat
  <2>1. {i \in K : i < p} \in SUBSET K
    OBVIOUS
  <2> QED
    BY <1>1, <2>1, FS_Subset, FS_CardinalityType DEF Before
<1>3. \A p \in Nat : Before(K, p + 1) = IF p \in K THEN Before(K, p) + 1 ELSE Before(K, p)
  <2> TAKE p \in Nat
  <2> DEFINE B == {i \in K : i < p}
  <2>0. \A i \in K : i < p + 1 <=> i < p \/ i = p
    <3> TAKE i \in K
    <3> QED
      BY <1>0, i \in Int
  <2>1. IsFiniteSet(B) /\ p \notin B /\ Before(K, p) = Cardinality(B)
    BY <1>2 DEF Before
  <2>2. CASE p \in K
    <3>1. {i \in K : i < p + 1} = B \cup {p}
      BY <2>0, <2>2, Zenon
    <3>2. Cardinality(B \cup {p}) = Cardinality(B) + 1
      BY <2>1, FS_AddElement
    <3> QED
      BY <2>1, <2>2, <3>1, <3>2 DEF Before
  <2>3. CASE p \notin K
    <3>1. {i \in K : i < p + 1} = B
      BY <2>0, <2>3, Zenon
    <3> QED
      BY <2>1, <2>3, <3>1 DEF Before
  <2> QED
    BY <2>2, <2>3
<1>4. \A p, q \in Nat : p <= q => Before(K, p) <= Before(K, q)
  <2> TAKE p, q \in Nat
  <2> HAVE p <= q
  <2>1. {i \in K : i < p} \in SUBSET {i \in K : i < q}
    <3>1. \A i \in K : i < p => i < q
      <4> TAKE i \in K
      <4> QED
        BY <1>0, i \in Int
    <3> QED
      BY <3>1
  <2>2. Cardinality({i \in K : i < p}) <= Cardinality({i \in K : i < q})
    BY <1>2, <2>1, FS_Subset
  <2> QED
    BY <2>2 DEF Before
<1>5. \A p \in Nat : p \in K => Before(K, p) < Cardinality(K)
  <2> TAKE p \in Nat
  <2> HAVE p \in K
  <2>1. Before(K, p + 1) = Before(K, p) + 1 /\ Before(K, p + 1) <= Cardinality(K)
    BY <1>2, <1>3, p + 1 \in Nat
  <2>2. Before(K, p) \in Nat /\ Before(K, p) + 1 <= Cardinality(K)
    BY <1>2, <2>1
  <2> QED
    BY <1>1, <2>2
<1> QED
  BY <1>1, <1>2, <1>3, <1>4, <1>5

\* The new addresses are in the fused code, in the order of the old ones, and
\* apart where an instruction is kept between them.
LEMMA MovesLemma ==
  ASSUME NEW c, WellFormed(c)
  PROVE  /\ Kept(c) \in SUBSET (1..Len(c)) /\ Len(c) \in Nat
         /\ \A p \in 1..(Len(c) + 1) : Moves(c)[p] \in 1..(Cardinality(Kept(c)) + 1)
         /\ \A p \in 1..Len(c) :
               /\ p \in Kept(c) => /\ Moves(c)[p + 1] = Moves(c)[p] + 1
                                   /\ Moves(c)[p] <= Cardinality(Kept(c))
               /\ p \notin Kept(c) => Moves(c)[p + 1] = Moves(c)[p]
         /\ \A p, q \in 1..(Len(c) + 1) :
               /\ p <= q => Moves(c)[p] <= Moves(c)[q]
               /\ p < q /\ p \in Kept(c) => Moves(c)[p] < Moves(c)[q]
               /\ \A k \in Kept(c) : p <= k /\ k < q => Moves(c)[p] < Moves(c)[q]
<1> DEFINE K == Kept(c)
           n == Len(c)
<1>1. n \in Nat /\ K \in SUBSET (1..n)
  BY DEF WellFormed, Kept
<1> HIDE DEF K, n
<1>2. \A p \in 1..(n + 1) : Moves(c)[p] = Before(K, p) + 1
  BY DEF Moves, K, n
<1>3. \A p \in 1..(n + 1) : /\ p \in Nat /\ Before(K, p) \in Nat
                            /\ Before(K, p) <= Cardinality(K) /\ Cardinality(K) \in Nat
  <2> TAKE p \in 1..(n + 1)
  <2>1. p \in Nat
    BY <1>1
  <2> QED
    BY <1>1, <2>1, BeforeLemma
<1>4. \A p \in 1..n :
         /\ p + 1 \in 1..(n + 1) /\ p \in 1..(n + 1)
         /\ p \in K => Before(K, p + 1) = Before(K, p) + 1 /\ Before(K, p) < Cardinality(K)
         /\ p \notin K => Before(K, p + 1) = Before(K, p)
  <2> TAKE p \in 1..n
  <2>1. p \in Nat /\ p + 1 \in 1..(n + 1) /\ p \in 1..(n + 1)
    BY <1>1
  <2> QED
    BY <1>1, <2>1, BeforeLemma
<1>5. \A p \in 1..n :
         /\ p \in K => Moves(c)[p + 1] = Moves(c)[p] + 1 /\ Moves(c)[p] <= Cardinality(K)
         /\ p \notin K => Moves(c)[p + 1] = Moves(c)[p]
  BY <1>2, <1>3, <1>4
<1>6. \A p, q \in 1..(n + 1) : p <= q => Moves(c)[p] <= Moves(c)[q]
  <2> TAKE p, q \in 1..(n + 1)
  <2> HAVE p <= q
  <2>1. Before(K, p) <= Before(K, q)
    BY <1>1, <1>3, BeforeLemma
  <2> QED
    BY <1>2, <1>3, <2>1
<1>7. \A p, q \in 1..(n + 1) : \A k \in K : p <= k /\ k < q => Moves(c)[p] < Moves(c)[q]
  <2> TAKE p, q \in 1..(n + 1)
  <2> TAKE k \in K
  <2> HAVE p <= k /\ k < q
  <2>1. k \in 1..n /\ k + 1 \in 1..(n + 1) /\ k \in 1..(n + 1) /\ k + 1 <= q
    BY <1>1
  <2>2. Moves(c)[p] <= Moves(c)[k] /\ Moves(c)[k + 1] = Moves(c)[k] + 1
           /\ Moves(c)[k + 1] <= Moves(c)[q]
    BY <1>5, <1>6, <2>1
  <2>3. Moves(c)[p] \in Nat /\ Moves(c)[k] \in Nat /\ Moves(c)[q] \in Nat
    BY <1>2, <1>3, <2>1
  <2> QED
    BY <2>2, <2>3
<1>8. \A p \in 1..(n + 1) : Moves(c)[p] \in 1..(Cardinality(K) + 1)
  BY <1>2, <1>3
<1>9. \A p, q \in 1..(n + 1) : p < q /\ p \in K => Moves(c)[p] < Moves(c)[q]
  BY <1>7
<1> QED
  BY <1>1, <1>5, <1>6, <1>7, <1>8, <1>9 DEF K, n

\* The instruction at the address a kept one is moved to.
LEMMA FusedLemma ==
  ASSUME NEW c, WellFormed(c), NEW i \in Kept(c)
  PROVE  Fused(c)[Moves(c)[i]] = Relocated(Moves(c), i, FusedInst(c, i))
<1> DEFINE K == Kept(c)
           M == Moves(c)
           Inst(k) == LET j == CHOOSE j \in K : M[j] = k IN Relocated(M, j, FusedInst(c, j))
<1>1. i \in 1..Len(c) /\ i \in 1..(Len(c) + 1) /\ M[i] \in 1..Cardinality(K)
  BY MovesLemma
<1>2. \A j \in K : M[j] = M[i] => j = i
  <2> TAKE j \in K
  <2> HAVE M[j] = M[i]
  <2>1. j \in 1..(Len(c) + 1) /\ M[j] \in Int /\ M[i] \in Int
    BY <1>1, MovesLemma
  <2>2. ~(j < i) /\ ~(i < j)
    BY <1>1, <2>1, MovesLemma
  <2> QED
    BY <1>1, <2>1, <2>2
<1>3. Fused(c) = [k \in 1..Cardinality(K) |-> Inst(k)]
  BY DEF Fused
<1>4. (CHOOSE j \in K : M[j] = M[i]) = i
  BY <1>2
<1> HIDE DEF K, M
<1>5. Inst(M[i]) = Relocated(M, i, FusedInst(c, i))
  BY <1>4
<1> HIDE DEF Inst
<1>6. Fused(c)[M[i]] = Inst(M[i])
  BY <1>1, <1>3
<1> QED
  BY <1>5, <1>6 DEF K, M

----------------------------------------------------------------------------
(* Machines as records: what the primitives of the interpreter make of them. *)

\* A sequence, of values of any kind.
IsSeq(s) == \E n \in Nat : s = [i \in 1..n |-> s[i]]

\* Sequences of any values, and a sequence with one more.
LEMMA SeqLemma ==
  ASSUME NEW s, IsSeq(s)
  PROVE  /\ Len(s) \in Nat /\ DOMAIN s = 1..Len(s)
         /\ \A v : /\ IsSeq(Append(s, v)) /\ Len(Append(s, v)) = Len(s) + 1
                   /\ Append(s, v)[Len(s) + 1] = v /\ Drop(Append(s, v), 1) = s
         /\ \A k \in Int : IsSeq(SubSeq(s, 1, k))
<1>1. PICK n \in Nat : s = [i \in 1..n |-> s[i]]
  BY DEF IsSeq
<1> DEFINE V == {s[i] : i \in 1..n}
<1>2. s \in Seq(V) /\ Len(s) = n /\ DOMAIN s = 1..n
  BY <1>1
<1>3. ASSUME NEW v
      PROVE  /\ IsSeq(Append(s, v)) /\ Len(Append(s, v)) = Len(s) + 1
             /\ Append(s, v)[Len(s) + 1] = v /\ Drop(Append(s, v), 1) = s
  <2> DEFINE W == V \cup {v}
             t == Append(s, v)
  <2>1. s \in Seq(W) /\ v \in W
    BY <1>2
  <2> HIDE DEF W
  <2>2. t \in Seq(W) /\ Len(t) = n + 1 /\ t[n + 1] = v
    BY <1>2, <2>1, AppendProperties
  <2>3. Drop(t, 1) = SubSeq(t, 1, n)
    BY <2>2 DEF Drop
  <2>4. SubSeq(t, 1, n) = s
    BY <1>2, <2>1, <2>2
  <2> HIDE DEF t
  <2>5. t \in [1..(n + 1) -> W]
    BY <2>2
  <2>6. t = [i \in 1..(n + 1) |-> t[i]] /\ n + 1 \in Nat
    BY <2>5
  <2>7. IsSeq(t)
    BY <2>6 DEF IsSeq
  <2> QED
    BY <1>2, <2>2, <2>3, <2>4, <2>7 DEF t
<1>4. ASSUME NEW k \in Int
      PROVE  IsSeq(SubSeq(s, 1, k))
  <2>1. CASE k < 1
    <3>1. SubSeq(s, 1, k) = <<>>
      BY <2>1
    <3> QED
      BY <3>1 DEF IsSeq
  <2>2. CASE k >= 1
    <3>1. SubSeq(s, 1, k) = [i \in 1..k |-> s[i]]
      BY <2>2
    <3> QED
      BY <2>2, <3>1 DEF IsSeq
  <2> QED
    BY <2>1, <2>2
<1> QED
  BY <1>2, <1>3, <1>4

\* The fields of a machine of Bytecode.
MachineOf(p, s, b, r, n, k, e) ==
  [pc |-> p, stack |-> s, vars |-> b, tries |-> r, calls |-> n, taken |-> k, end |-> e]

\* A machine has these fields and no others.
IsRecord(m) == m = MachineOf(m.pc, m.stack, m.vars, m.tries, m.calls, m.taken, m.end)

\* The fields of a machine.
LEMMA FieldsLemma ==
  ASSUME NEW p, NEW s, NEW b, NEW r, NEW n, NEW k, NEW e
  PROVE  LET m == MachineOf(p, s, b, r, n, k, e) IN
         /\ m.pc = p /\ m.stack = s /\ m.vars = b /\ m.tries = r
         /\ m.calls = n /\ m.taken = k /\ m.end = e /\ IsRecord(m)
BY DEF MachineOf, IsRecord

\* A machine with another value in one field.
LEMMA ExceptLemma ==
  ASSUME NEW m, IsRecord(m), NEW x
  PROVE  /\ [m EXCEPT !.pc = x] = MachineOf(x, m.stack, m.vars, m.tries, m.calls, m.taken, m.end)
         /\ [m EXCEPT !.stack = x] = MachineOf(m.pc, x, m.vars, m.tries, m.calls, m.taken, m.end)
         /\ [m EXCEPT !.vars = x] = MachineOf(m.pc, m.stack, x, m.tries, m.calls, m.taken, m.end)
         /\ [m EXCEPT !.tries = x] = MachineOf(m.pc, m.stack, m.vars, x, m.calls, m.taken, m.end)
         /\ [m EXCEPT !.calls = x] = MachineOf(m.pc, m.stack, m.vars, m.tries, x, m.taken, m.end)
         /\ [m EXCEPT !.taken = x] = MachineOf(m.pc, m.stack, m.vars, m.tries, m.calls, x, m.end)
         /\ [m EXCEPT !.end = x] = MachineOf(m.pc, m.stack, m.vars, m.tries, m.calls, m.taken, x)
<1>1. PICK p, s, b, r, n, k, e : m = MachineOf(p, s, b, r, n, k, e)
  BY DEF IsRecord
<1> QED
  BY <1>1 DEF MachineOf

\* Updates of several fields.
Thrown(m, x, y, z)  == [m EXCEPT !.tries = x, !.pc = y, !.stack = z]
Closed(m, x, z)     == [m EXCEPT !.tries = x, !.stack = z]
Moving(m, y, x)     == [m EXCEPT !.pc = y, !.tries = x]

\* A machine with other values in two fields or three.
LEMMA Except2Lemma ==
  ASSUME NEW m, IsRecord(m), NEW x, NEW y, NEW z
  PROVE  /\ Thrown(m, x, y, z)
               = MachineOf(y, z, m.vars, x, m.calls, m.taken, m.end)
         /\ Closed(m, x, z)
               = MachineOf(m.pc, z, m.vars, x, m.calls, m.taken, m.end)
         /\ Moving(m, y, x)
               = MachineOf(y, m.stack, m.vars, x, m.calls, m.taken, m.end)
<1> DEFINE m1 == MachineOf(m.pc, m.stack, m.vars, x, m.calls, m.taken, m.end)
           m2 == MachineOf(y, m.stack, m.vars, x, m.calls, m.taken, m.end)
           m3 == MachineOf(y, m.stack, m.vars, m.tries, m.calls, m.taken, m.end)
<1>1. [m EXCEPT !.tries = x] = m1 /\ [m EXCEPT !.pc = y] = m3
  BY ExceptLemma
<1>2. [m1 EXCEPT !.pc = y] = m2 /\ [m3 EXCEPT !.tries = x] = m2
  <2>1. [m1 EXCEPT !.pc = y] = m2
    BY DEF MachineOf
  <2>2. [m3 EXCEPT !.tries = x] = m2
    BY DEF MachineOf
  <2> QED
    BY <2>1, <2>2
<1>3. /\ [m2 EXCEPT !.stack = z] = MachineOf(y, z, m.vars, x, m.calls, m.taken, m.end)
      /\ [m1 EXCEPT !.stack = z] = MachineOf(m.pc, z, m.vars, x, m.calls, m.taken, m.end)
  <2>1. [m2 EXCEPT !.stack = z] = MachineOf(y, z, m.vars, x, m.calls, m.taken, m.end)
    BY DEF MachineOf
  <2>2. [m1 EXCEPT !.stack = z] = MachineOf(m.pc, z, m.vars, x, m.calls, m.taken, m.end)
    BY DEF MachineOf
  <2> QED
    BY <2>1, <2>2
<1> HIDE DEF m1, m2, m3
<1>4. [[[m EXCEPT !.tries = x] EXCEPT !.pc = y] EXCEPT !.stack = z]
               = MachineOf(y, z, m.vars, x, m.calls, m.taken, m.end)
  BY <1>1, <1>2, <1>3, Zenon
<1>5. [[m EXCEPT !.tries = x] EXCEPT !.stack = z]
               = MachineOf(m.pc, z, m.vars, x, m.calls, m.taken, m.end)
  BY <1>1, <1>3, Zenon
<1>6. [[m EXCEPT !.pc = y] EXCEPT !.tries = x]
               = MachineOf(y, m.stack, m.vars, x, m.calls, m.taken, m.end)
  BY <1>1, <1>2, Zenon DEF m2
<1> QED
  BY <1>4, <1>5, <1>6, Zenon DEF Thrown, Closed, Moving

\* The primitives of the interpreter, field by field.
LEMMA PrimitivesLemma ==
  ASSUME NEW m, IsRecord(m), NEW v, NEW x
  PROVE  /\ Push(m, v) = MachineOf(m.pc, Append(m.stack, v), m.vars, m.tries, m.calls, m.taken, m.end)
         /\ Popped(m) = MachineOf(m.pc, Drop(m.stack, 1), m.vars, m.tries, m.calls, m.taken, m.end)
         /\ Ends(m, x, v) = MachineOf(m.pc, m.stack, m.vars, m.tries, m.calls, m.taken, <<x, v>>)
         /\ Crash(m) = MachineOf(m.pc, m.stack, m.vars, m.tries, m.calls, m.taken, <<"crashes", Raised>>)
         /\ Set(m, x, v) = MachineOf(m.pc, m.stack, (x :> v) @@ m.vars, m.tries, m.calls, m.taken, m.end)
<1>1. Push(m, v) = MachineOf(m.pc, Append(m.stack, v), m.vars, m.tries, m.calls, m.taken, m.end)
  BY ExceptLemma, Zenon DEF Push
<1>2. Popped(m) = MachineOf(m.pc, Drop(m.stack, 1), m.vars, m.tries, m.calls, m.taken, m.end)
  BY ExceptLemma, Zenon DEF Popped
<1>3. \A w, y : Ends(m, y, w) = MachineOf(m.pc, m.stack, m.vars, m.tries, m.calls, m.taken, <<y, w>>)
  BY ExceptLemma, Zenon DEF Ends
<1>4. Crash(m) = MachineOf(m.pc, m.stack, m.vars, m.tries, m.calls, m.taken, <<"crashes", Raised>>)
  BY <1>3, Zenon DEF Crash
<1>5. Set(m, x, v) = MachineOf(m.pc, m.stack, (x :> v) @@ m.vars, m.tries, m.calls, m.taken, m.end)
  BY ExceptLemma, Zenon DEF Set
<1> QED
  BY <1>1, <1>2, <1>3, <1>4, <1>5, Zenon

\* Where an error leads.
Caught(m, r) ==
  MachineOf(r[Len(r)].end, Append(SubSeq(m.stack, 1, r[Len(r)].base), Raised), m.vars,
            Drop(r, 1), m.calls, m.taken, m.end)

\* What is left of a region at its end.
Finished(m, r, whole) ==
  LET base  == SubSeq(m.stack, 1, r[Len(r)].base)
      value == IF Len(m.stack) > r[Len(r)].base THEN Top(m) ELSE Unit
  IN  MachineOf(m.pc, IF whole THEN Append(base, Ok(value)) ELSE base, m.vars,
                Drop(r, 1), m.calls, m.taken, m.end)

\* An error ends the execution or the innermost region, as does its end.
LEMMA RegionsLemma ==
  ASSUME NEW m, IsRecord(m)
  PROVE  /\ m.tries = <<>> => Raise(m) = Ends(m, "raises", Raised)
         /\ m.tries # <<>> => Raise(m) = Caught(m, m.tries)
         /\ FinishTry(m) = Finished(m, m.tries, m.pc = m.tries[Len(m.tries)].end)
<1>1. m.tries = <<>> => Raise(m) = Ends(m, "raises", Raised)
  BY DEF Raise
<1>2. m.tries # <<>> => Raise(m) = Caught(m, m.tries)
  <2> HAVE m.tries # <<>>
  <2>1. Raise(m) = Thrown(m, Drop(m.tries, 1), m.tries[Len(m.tries)].end,
                      Append(SubSeq(m.stack, 1, m.tries[Len(m.tries)].base), Raised))
    BY Zenon DEF Raise, Thrown
  <2> QED
    BY <2>1, Except2Lemma DEF Caught
<1>3. FinishTry(m) = Finished(m, m.tries, m.pc = m.tries[Len(m.tries)].end)
  <2> DEFINE try == m.tries[Len(m.tries)]
             base == SubSeq(m.stack, 1, try.base)
             value == IF Len(m.stack) > try.base THEN Top(m) ELSE Unit
             left == IF m.pc = try.end THEN Append(base, Ok(value)) ELSE base
  <2>1. FinishTry(m) = Closed(m, Drop(m.tries, 1), left)
    BY Zenon DEF FinishTry, Closed
  <2>2. @ = MachineOf(m.pc, left, m.vars, Drop(m.tries, 1), m.calls, m.taken, m.end)
    BY Except2Lemma
  <2>3. @ = Finished(m, m.tries, m.pc = m.tries[Len(m.tries)].end)
    BY DEF Finished
  <2> QED
    BY <2>1, <2>2, <2>3
<1> QED
  BY <1>1, <1>2, <1>3

----------------------------------------------------------------------------
(* The machine at the new addresses. *)

\* Regions that are open, and where they are moved to.
Region == [end : Int, base : Int]

MovedTries(moves, r) == [k \in DOMAIN r |-> [end |-> moves[r[k].end], base |-> r[k].base]]

\* A machine that the interpreter can be in.
Sound(m) == IsRecord(m) /\ IsSeq(m.stack) /\ m.tries \in Seq(Region)

\* Of a machine, its address and those where its regions end are moved.
LEMMA ReaddressedLemma ==
  ASSUME NEW m, IsRecord(m), NEW moves
  PROVE  Readdressed(moves, m)
            = MachineOf(moves[m.pc], m.stack, m.vars, MovedTries(moves, m.tries), m.calls, m.taken, m.end)
<1>1. Readdressed(moves, m) = Moving(m, moves[m.pc], MovedTries(moves, m.tries))
  BY Zenon DEF Readdressed, MovedTries, Moving
<1> QED
  BY <1>1, Except2Lemma

\* The regions at the new addresses are opened and closed as those at the old.
LEMMA MovedTriesLemma ==
  ASSUME NEW moves, NEW r \in Seq(Region)
  PROVE  LET moved == MovedTries(moves, r) IN
         /\ Len(moved) = Len(r) /\ (moved = <<>> <=> r = <<>>)
         /\ r # <<>> => /\ moved[Len(moved)].end = moves[r[Len(r)].end]
                        /\ moved[Len(moved)].base = r[Len(r)].base
                        /\ Drop(moved, 1) = MovedTries(moves, Drop(r, 1))
         /\ \A e, b \in Int : MovedTries(moves, Append(r, [end |-> e, base |-> b]))
                                = Append(moved, [end |-> moves[e], base |-> b])
<1> DEFINE moved == MovedTries(moves, r)
           New == {[end |-> moves[t.end], base |-> t.base] : t \in Region}
           n == Len(r)
<1>1. n \in Nat /\ DOMAIN r = 1..n /\ \A k \in 1..n : r[k] \in Region
  OBVIOUS
<1>2. \A k \in 1..n : [end |-> moves[r[k].end], base |-> r[k].base] \in New
  BY <1>1
<1>3. moved = [k \in 1..n |-> [end |-> moves[r[k].end], base |-> r[k].base]]
  BY <1>1 DEF MovedTries
<1> HIDE DEF moved, New
<1>4. moved \in Seq(New) /\ Len(moved) = n /\ (moved = <<>> <=> r = <<>>)
  BY <1>1, <1>2, <1>3
<1>5. ASSUME r # <<>>
      PROVE  /\ moved[n].end = moves[r[n].end] /\ moved[n].base = r[n].base
             /\ Drop(moved, 1) = MovedTries(moves, Drop(r, 1))
  <2>1. n \in 1..n
    BY <1>1, <1>5
  <2>2. moved[n] = [end |-> moves[r[n].end], base |-> r[n].base]
    BY <1>3, <2>1
  <2>3. Drop(moved, 1) = [k \in 1..(n - 1) |-> moved[k]] /\ Drop(r, 1) = [k \in 1..(n - 1) |-> r[k]]
    BY <1>1, <1>4, <2>1 DEF Drop
  <2>4. MovedTries(moves, Drop(r, 1))
           = [k \in 1..(n - 1) |-> [end |-> moves[r[k].end], base |-> r[k].base]]
    BY <2>3 DEF MovedTries
  <2>5. \A k \in 1..(n - 1) : moved[k] = [end |-> moves[r[k].end], base |-> r[k].base]
    BY <1>1, <1>3
  <2>6. Drop(moved, 1) = MovedTries(moves, Drop(r, 1))
    BY <2>3, <2>4, <2>5
  <2> QED
    BY <2>2, <2>6
<1>6. ASSUME NEW e \in Int, NEW b \in Int
      PROVE  MovedTries(moves, Append(r, [end |-> e, base |-> b]))
                = Append(moved, [end |-> moves[e], base |-> b])
  <2> DEFINE t == [end |-> e, base |-> b]
             u == [end |-> moves[e], base |-> b]
             s == Append(r, t)
  <2>1. t \in Region /\ t.end = e /\ t.base = b
    BY DEF Region
  <2>2. u \in New
    BY <2>1 DEF New
  <2> HIDE DEF t, u
  <2>3. s \in Seq(Region) /\ DOMAIN s = 1..(n + 1) /\ s[n + 1] = t /\ \A k \in 1..n : s[k] = r[k]
    BY <2>1, AppendProperties
  <2> HIDE DEF s
  <2>4. MovedTries(moves, s) = [k \in 1..(n + 1) |-> [end |-> moves[s[k].end], base |-> s[k].base]]
    BY <2>3 DEF MovedTries
  <2>5. \A k \in 1..n : Append(moved, u)[k] = moved[k]
    BY <1>4, <2>2, AppendProperties
  <2>6. Append(moved, u) = [k \in 1..(n + 1) |-> Append(moved, u)[k]] /\ Append(moved, u)[n + 1] = u
    <3>1. Append(moved, u) \in Seq(New) /\ Len(Append(moved, u)) = n + 1 /\ Append(moved, u)[n + 1] = u
      BY <1>4, <2>2, AppendProperties
    <3> DEFINE z == Append(moved, u)
    <3> HIDE DEF z
    <3>2. z \in Seq(New) /\ Len(z) = n + 1 /\ n + 1 \in Nat
      BY <1>1, <3>1 DEF z
    <3>3. z = [k \in 1..(n + 1) |-> z[k]]
      BY <3>2
    <3> QED
      BY <3>1, <3>3 DEF z
  <2>7. \A k \in 1..(n + 1) : Append(moved, u)[k] = [end |-> moves[s[k].end], base |-> s[k].base]
    <3> TAKE k \in 1..(n + 1)
    <3>1. CASE k = n + 1
      BY <3>1, <2>1, <2>3, <2>6 DEF u
    <3>2. CASE k # n + 1
      <4>1. k \in 1..n
        BY <1>1, <3>2
      <4> QED
        BY <4>1, <1>3, <2>3, <2>5
    <3> QED
      BY <3>1, <3>2
  <2> QED
    BY <2>4, <2>6, <2>7 DEF s, t, u
<1> QED
  BY <1>4, <1>5, <1>6 DEF moved

----------------------------------------------------------------------------
(* Two machines that differ in their addresses only, and what the           *)
(* primitives do to both.                                                   *)

\* n is m at the new addresses.
Parallel(moves, m, n) == Sound(m) /\ n = Readdressed(moves, m)

\* Parallel machines differ in nothing but addresses.
LEMMA ParallelLemma ==
  ASSUME NEW moves, NEW m, NEW n, Parallel(moves, m, n)
  PROVE  /\ IsRecord(m) /\ IsSeq(m.stack) /\ m.tries \in Seq(Region) /\ IsRecord(n)
         /\ n.pc = moves[m.pc] /\ n.stack = m.stack /\ n.vars = m.vars
         /\ n.tries = MovedTries(moves, m.tries) /\ n.calls = m.calls
         /\ n.taken = m.taken /\ n.end = m.end /\ Top(n) = Top(m)
<1>1. IsRecord(m) /\ IsSeq(m.stack) /\ m.tries \in Seq(Region)
  BY DEF Parallel, Sound
<1>2. n = MachineOf(moves[m.pc], m.stack, m.vars, MovedTries(moves, m.tries), m.calls, m.taken, m.end)
  BY <1>1, ReaddressedLemma DEF Parallel
<1>3. /\ IsRecord(n)
      /\ n.pc = moves[m.pc] /\ n.stack = m.stack /\ n.vars = m.vars
      /\ n.tries = MovedTries(moves, m.tries) /\ n.calls = m.calls
      /\ n.taken = m.taken /\ n.end = m.end
  BY <1>2, FieldsLemma
<1> QED
  BY <1>1, <1>3 DEF Top

\* Two machines made with the same fields are parallel.
LEMMA MakesParallel ==
  ASSUME NEW moves, NEW p, NEW s, IsSeq(s), NEW b, NEW r \in Seq(Region), NEW u, NEW k, NEW e
  PROVE  Parallel(moves, MachineOf(p, s, b, r, u, k, e),
                  MachineOf(moves[p], s, b, MovedTries(moves, r), u, k, e))
<1> DEFINE m == MachineOf(p, s, b, r, u, k, e)
<1>1. /\ IsRecord(m) /\ m.pc = p /\ m.stack = s /\ m.vars = b /\ m.tries = r
      /\ m.calls = u /\ m.taken = k /\ m.end = e
  BY FieldsLemma
<1> HIDE DEF m
<1>2. Readdressed(moves, m) = MachineOf(moves[p], s, b, MovedTries(moves, r), u, k, e)
  BY <1>1, ReaddressedLemma
<1>3. Sound(m)
  BY <1>1 DEF Sound
<1> QED
  BY <1>2, <1>3 DEF Parallel, m

\* m has computed, but gone nowhere, since m0; n does the same.
Computes(moves, m0, m, n) ==
  /\ Parallel(moves, m, n)
  /\ m.pc = m0.pc /\ m.tries = m0.tries /\ m.end = <<>>

\* Where a turn leads that began at m0, to one of the targets or onwards.
LandsOn(m0, targets, m) ==
  \/ m.end # <<>>
  \/ m.pc \in {m0.pc} \cup targets /\ m.tries = m0.tries
  \/ /\ m0.tries # <<>>
     /\ m.pc = m0.tries[Len(m0.tries)].end /\ m.tries = Drop(m0.tries, 1)

Lands(moves, m0, targets, m, n) == Parallel(moves, m, n) /\ LandsOn(m0, targets, m)

\* A machine with another value in one field.
WithStack(m, x) == [m EXCEPT !.stack = x]
WithVars(m, x)  == [m EXCEPT !.vars = x]
WithCalls(m, x) == [m EXCEPT !.calls = x]
WithTaken(m, x) == [m EXCEPT !.taken = x]
WithPc(m, x)    == [m EXCEPT !.pc = x]

\* A machine with another value in a field is a machine.
LEMMA WithLemma ==
  ASSUME NEW m, IsRecord(m), NEW x
  PROVE  /\ WithStack(m, x) = MachineOf(m.pc, x, m.vars, m.tries, m.calls, m.taken, m.end)
         /\ WithVars(m, x) = MachineOf(m.pc, m.stack, x, m.tries, m.calls, m.taken, m.end)
         /\ WithCalls(m, x) = MachineOf(m.pc, m.stack, m.vars, m.tries, x, m.taken, m.end)
         /\ WithTaken(m, x) = MachineOf(m.pc, m.stack, m.vars, m.tries, m.calls, x, m.end)
         /\ WithPc(m, x) = MachineOf(x, m.stack, m.vars, m.tries, m.calls, m.taken, m.end)
BY ExceptLemma DEF WithStack, WithVars, WithCalls, WithTaken, WithPc

\* Parallel machines stay so when the same value is put in a field of both.
LEMMA ComputesLemma ==
  ASSUME NEW moves, NEW m0, NEW m, NEW n, Computes(moves, m0, m, n)
  PROVE  /\ \A s : IsSeq(s) => Computes(moves, m0, WithStack(m, s), WithStack(n, s))
         /\ \A b : Computes(moves, m0, WithVars(m, b), WithVars(n, b))
         /\ \A u : Computes(moves, m0, WithCalls(m, u), WithCalls(n, u))
         /\ \A k : Computes(moves, m0, WithTaken(m, k), WithTaken(n, k))
<1>1. /\ Parallel(moves, m, n) /\ m.pc = m0.pc /\ m.tries = m0.tries /\ m.end = <<>>
      /\ IsRecord(m) /\ IsSeq(m.stack) /\ m.tries \in Seq(Region) /\ IsRecord(n)
      /\ n.pc = moves[m.pc] /\ n.stack = m.stack /\ n.vars = m.vars
      /\ n.tries = MovedTries(moves, m.tries) /\ n.calls = m.calls
      /\ n.taken = m.taken /\ n.end = m.end
  BY ParallelLemma DEF Computes
<1>2. ASSUME NEW s, IsSeq(s), NEW b, NEW u, NEW k
      PROVE  Computes(moves, m0, MachineOf(m.pc, s, b, m.tries, u, k, m.end),
                      MachineOf(n.pc, s, b, n.tries, u, k, n.end))
  <2> DEFINE m1 == MachineOf(m.pc, s, b, m.tries, u, k, m.end)
  <2>1. Parallel(moves, m1, MachineOf(n.pc, s, b, n.tries, u, k, n.end))
    BY <1>1, <1>2, MakesParallel
  <2>2. m1.pc = m.pc /\ m1.tries = m.tries /\ m1.end = m.end
    BY FieldsLemma
  <2> HIDE DEF m1
  <2>3. Computes(moves, m0, m1, MachineOf(n.pc, s, b, n.tries, u, k, n.end))
    BY <1>1, <2>1, <2>2 DEF Computes
  <2> QED
    BY <2>3 DEF m1
<1>3. ASSUME NEW s, IsSeq(s)
      PROVE  Computes(moves, m0, WithStack(m, s), WithStack(n, s))
  <2>1. Computes(moves, m0, MachineOf(m.pc, s, m.vars, m.tries, m.calls, m.taken, m.end),
                      MachineOf(n.pc, s, m.vars, n.tries, m.calls, m.taken, n.end))
    BY <1>2, <1>3
  <2> QED
    BY <1>1, <2>1, WithLemma
<1>4. ASSUME NEW b
      PROVE  Computes(moves, m0, WithVars(m, b), WithVars(n, b))
  <2>1. Computes(moves, m0, MachineOf(m.pc, m.stack, b, m.tries, m.calls, m.taken, m.end),
                      MachineOf(n.pc, m.stack, b, n.tries, m.calls, m.taken, n.end))
    BY <1>1, <1>2
  <2> QED
    BY <1>1, <2>1, WithLemma
<1>5. ASSUME NEW u
      PROVE  Computes(moves, m0, WithCalls(m, u), WithCalls(n, u))
  <2>1. Computes(moves, m0, MachineOf(m.pc, m.stack, m.vars, m.tries, u, m.taken, m.end),
                      MachineOf(n.pc, m.stack, m.vars, n.tries, u, m.taken, n.end))
    BY <1>1, <1>2
  <2> QED
    BY <1>1, <2>1, WithLemma
<1>6. ASSUME NEW k
      PROVE  Computes(moves, m0, WithTaken(m, k), WithTaken(n, k))
  <2>1. Computes(moves, m0, MachineOf(m.pc, m.stack, m.vars, m.tries, m.calls, k, m.end),
                      MachineOf(n.pc, m.stack, m.vars, n.tries, m.calls, k, n.end))
    BY <1>1, <1>2
  <2> QED
    BY <1>1, <2>1, WithLemma
<1> QED
  BY <1>3, <1>4, <1>5, <1>6

\* What only computes: pushing, popping, binding.
LEMMA DataLemma ==
  ASSUME NEW moves, NEW m0, NEW m, NEW n, Computes(moves, m0, m, n)
  PROVE  /\ \A v : Computes(moves, m0, Push(m, v), Push(n, v))
         /\ Computes(moves, m0, Popped(m), Popped(n))
         /\ \A x, v : Computes(moves, m0, Set(m, x, v), Set(n, x, v))
<1>1. /\ IsRecord(m) /\ IsSeq(m.stack) /\ IsRecord(n) /\ n.stack = m.stack /\ n.vars = m.vars
      /\ Top(n) = Top(m) /\ n.calls = m.calls /\ n.taken = m.taken
  BY ParallelLemma DEF Computes
<1>2. \A v : Push(m, v) = WithStack(m, Append(m.stack, v)) /\ Push(n, v) = WithStack(n, Append(m.stack, v))
  BY <1>1 DEF Push, WithStack
<1>3. Popped(m) = WithStack(m, Drop(m.stack, 1)) /\ Popped(n) = WithStack(n, Drop(m.stack, 1))
  BY <1>1 DEF Popped, WithStack
<1>4. \A x, v : Set(m, x, v) = WithVars(m, (x :> v) @@ m.vars) /\ Set(n, x, v) = WithVars(n, (x :> v) @@ m.vars)
  BY <1>1 DEF Set, WithVars
<1>5. IsSeq(Drop(m.stack, 1)) /\ Len(m.stack) \in Nat /\ \A v : IsSeq(Append(m.stack, v))
  <2>0. Len(m.stack) \in Nat /\ \A v : IsSeq(Append(m.stack, v))
    BY <1>1, SeqLemma
  <2>1. Len(m.stack) - 1 \in Int
    BY <2>0
  <2>2. IsSeq(SubSeq(m.stack, 1, Len(m.stack) - 1))
    BY <1>1, <2>1, SeqLemma
  <2> QED
    BY <2>0, <2>1, <2>2 DEF Drop
<1> QED
  BY <1>1, <1>2, <1>3, <1>4, <1>5, ComputesLemma

\* What two such machines have in common.
LEMMA FactsLemma ==
  ASSUME NEW moves, NEW m0, NEW m, NEW n, Computes(moves, m0, m, n)
  PROVE  /\ IsSeq(m.stack) /\ Len(m.stack) \in Nat /\ n.stack = m.stack /\ n.vars = m.vars
         /\ Top(n) = Top(m) /\ n.calls = m.calls /\ n.taken = m.taken
<1>1. /\ IsSeq(m.stack) /\ n.stack = m.stack /\ n.vars = m.vars
      /\ Top(n) = Top(m) /\ n.calls = m.calls /\ n.taken = m.taken
  BY ParallelLemma DEF Computes
<1> QED
  BY <1>1, SeqLemma

\* What goes somewhere else, or ends.
LEMMA GoesLemma ==
  ASSUME NEW moves, NEW m0, NEW m, NEW n, Computes(moves, m0, m, n), NEW targets
  PROVE  /\ Lands(moves, m0, targets, m, n)
         /\ \A x, v : Lands(moves, m0, targets, Ends(m, x, v), Ends(n, x, v))
         /\ Lands(moves, m0, targets, Crash(m), Crash(n))
         /\ Lands(moves, m0, targets, Raise(m), Raise(n))
         /\ \A p \in targets : Lands(moves, m0, targets, WithPc(m, p), WithPc(n, moves[p]))
         /\ \A v : \A p \in targets : Lands(moves, m0, targets, BranchOn(m, v, p), BranchOn(n, v, moves[p]))
<1>1. /\ Parallel(moves, m, n) /\ m.pc = m0.pc /\ m.tries = m0.tries /\ m.end = <<>>
      /\ IsRecord(m) /\ IsSeq(m.stack) /\ m.tries \in Seq(Region) /\ IsRecord(n)
      /\ n.pc = moves[m.pc] /\ n.stack = m.stack /\ n.vars = m.vars
      /\ n.tries = MovedTries(moves, m.tries) /\ n.calls = m.calls
      /\ n.taken = m.taken /\ n.end = m.end
  BY ParallelLemma DEF Computes
<1>2. Lands(moves, m0, targets, m, n)
  BY <1>1 DEF Lands, LandsOn
<1>3. ASSUME NEW x, NEW v
      PROVE  Lands(moves, m0, targets, Ends(m, x, v), Ends(n, x, v))
  <2> DEFINE m1 == MachineOf(m.pc, m.stack, m.vars, m.tries, m.calls, m.taken, <<x, v>>)
             n1 == MachineOf(n.pc, n.stack, n.vars, n.tries, n.calls, n.taken, <<x, v>>)
  <2>1. Parallel(moves, m1, n1)
    BY <1>1, MakesParallel
  <2>2. m1.end = <<x, v>> /\ <<x, v>> # <<>>
    BY FieldsLemma
  <2>3. Ends(m, x, v) = m1 /\ Ends(n, x, v) = n1
    BY <1>1, PrimitivesLemma
  <2> HIDE DEF m1, n1
  <2> QED
    BY <2>1, <2>2, <2>3 DEF Lands, LandsOn
<1>4. Lands(moves, m0, targets, Crash(m), Crash(n))
  BY <1>3 DEF Crash
<1>5. Lands(moves, m0, targets, Raise(m), Raise(n))
  <2> DEFINE r == m.tries
             q == n.tries
  <2>1. r \in Seq(Region) /\ (q = <<>> <=> r = <<>>)
    BY <1>1, MovedTriesLemma
  <2>2. CASE r = <<>>
    <3>1. Raise(m) = Ends(m, "raises", Raised) /\ Raise(n) = Ends(n, "raises", Raised)
      BY <1>1, <2>1, <2>2, RegionsLemma
    <3> QED
      BY <3>1, <1>3
  <2>3. CASE r # <<>>
    <3> DEFINE e == r[Len(r)].end
               b == r[Len(r)].base
               s == Append(SubSeq(m.stack, 1, b), Raised)
               m1 == MachineOf(e, s, m.vars, Drop(r, 1), m.calls, m.taken, m.end)
               n1 == MachineOf(moves[e], s, m.vars, MovedTries(moves, Drop(r, 1)), m.calls, m.taken, m.end)
    <3>1. /\ q # <<>> /\ q[Len(q)].end = moves[e] /\ q[Len(q)].base = b
          /\ Drop(q, 1) = MovedTries(moves, Drop(r, 1))
      BY <1>1, <2>1, <2>3, MovedTriesLemma
    <3>2. r[Len(r)] \in Region /\ Drop(r, 1) \in Seq(Region)
      BY <2>1, <2>3 DEF Drop
    <3>3. e \in Int /\ b \in Int
      BY <3>2 DEF Region
    <3>4. IsSeq(s)
      BY <1>1, <3>3, SeqLemma
    <3>5. Raise(m) = m1
      BY <1>1, <2>3, RegionsLemma DEF Caught
    <3>6. Raise(n) = n1
      BY <1>1, <3>1, RegionsLemma DEF Caught
    <3>7. Parallel(moves, m1, n1)
      BY <3>2, <3>4, MakesParallel
    <3>8. m1.pc = e /\ m1.tries = Drop(r, 1)
      BY FieldsLemma
    <3> HIDE DEF m1, n1
    <3> QED
      BY <1>1, <2>3, <3>5, <3>6, <3>7, <3>8 DEF Lands, LandsOn
  <2> QED
    BY <2>2, <2>3
<1>6. ASSUME NEW p \in targets
      PROVE  Lands(moves, m0, targets, WithPc(m, p), WithPc(n, moves[p]))
  <2> DEFINE m1 == MachineOf(p, m.stack, m.vars, m.tries, m.calls, m.taken, m.end)
             n1 == MachineOf(moves[p], n.stack, n.vars, n.tries, n.calls, n.taken, n.end)
  <2>1. Parallel(moves, m1, n1)
    BY <1>1, MakesParallel
  <2>2. m1.pc = p /\ m1.tries = m.tries
    BY FieldsLemma
  <2>3. WithPc(m, p) = m1 /\ WithPc(n, moves[p]) = n1
    BY <1>1, WithLemma
  <2> HIDE DEF m1, n1
  <2> QED
    BY <1>1, <2>1, <2>2, <2>3 DEF Lands, LandsOn
<1>7. ASSUME NEW v, NEW p \in targets
      PROVE  Lands(moves, m0, targets, BranchOn(m, v, p), BranchOn(n, v, moves[p]))
  <2>1. /\ BranchOn(m, v, p) = IF v \notin Booleans THEN Raise(m) ELSE IF v = False THEN WithPc(m, p) ELSE m
        /\ BranchOn(n, v, moves[p]) = IF v \notin Booleans THEN Raise(n)
                                      ELSE IF v = False THEN WithPc(n, moves[p]) ELSE n
    BY Zenon DEF BranchOn, WithPc
  <2> QED
    BY <1>2, <1>5, <1>6, <2>1
<1> QED
  BY <1>2, <1>3, <1>4, <1>5, <1>6, <1>7

----------------------------------------------------------------------------
(* An instruction and its copy at the new addresses do the same. *)

\* b is a at the new addresses.
Copied(moves, a, b) ==
  /\ a.op \in Ops /\ DOMAIN a = Fields(a.op) /\ b.op = a.op
  /\ \A f \in DOMAIN a \ {"to"} : b[f] = a[f]
  /\ Jumps(a) => b.to = moves[a.to]
  /\ a.op = "makeList" => a.n \in Nat

\* Where an instruction may jump.
Targets(a) == IF Jumps(a) THEN {a.to} ELSE {}

JumpOps == {"jump", "jumpIfFalse", "jumpIfCmpFalse", "nLoopEnter", "nLoopNext", "lazy"}

\* The instructions that jump.
LEMMA JumpsLemma ==
  ASSUME NEW a, a.op \in Ops, DOMAIN a = Fields(a.op)
  PROVE  Jumps(a) <=> a.op \in JumpOps
BY DEF Jumps, Ops, Fields, JumpOps

\* An instruction and its copy have the same operands.
LEMMA CopiedLemma ==
  ASSUME NEW moves, NEW a, NEW b, Copied(moves, a, b)
  PROVE  /\ a.op \in {"const", "owned"} => b.val = a.val
         /\ a.op = "owned" => b.slot = a.slot
         /\ a.op \in {"load", "store", "storeKeep", "exists"} => b.name = a.name
         /\ a.op \in {"binary", "jumpIfCmpFalse"} =>
               b.fun = a.fun /\ b.left = a.left /\ b.right = a.right
         /\ a.op = "nLoopEnter" => b.count = a.count
         /\ a.op \in {"nLoopEnter", "nLoopNext"} => b.snapshot = a.snapshot
         /\ a.op \in {"lazy", "combine"} => b.stop = a.stop
         /\ a.op = "try" => b.len = a.len
         /\ a.op = "makeList" => b.n = a.n
         /\ a.op \in JumpOps => b.to = moves[a.to] /\ Targets(a) = {a.to}
<1>1. \A f \in Fields(a.op) \ {"to"} : b[f] = a[f]
  BY DEF Copied
<1>2. a.op \in {"const", "owned"} => b.val = a.val
  BY <1>1 DEF Fields
<1>3. a.op = "owned" => b.slot = a.slot
  BY <1>1 DEF Fields
<1>4. a.op \in {"load", "store", "storeKeep", "exists"} => b.name = a.name
  BY <1>1 DEF Fields
<1>5. a.op \in {"binary", "jumpIfCmpFalse"} =>
               b.fun = a.fun /\ b.left = a.left /\ b.right = a.right
  BY <1>1 DEF Fields
<1>6. a.op = "nLoopEnter" => b.count = a.count
  BY <1>1 DEF Fields
<1>7. a.op \in {"nLoopEnter", "nLoopNext"} => b.snapshot = a.snapshot
  BY <1>1 DEF Fields
<1>8. a.op \in {"lazy", "combine"} => b.stop = a.stop
  BY <1>1 DEF Fields
<1>9. a.op = "try" => b.len = a.len
  BY <1>1 DEF Fields
<1>10. a.op = "makeList" => b.n = a.n
  BY <1>1 DEF Fields
<1>11. a.op \in JumpOps => b.to = moves[a.to] /\ Targets(a) = {a.to}
  BY JumpsLemma DEF Copied, Targets
<1> QED
  BY <1>2, <1>3, <1>4, <1>5, <1>6, <1>7, <1>8, <1>9, <1>10, <1>11

\* The same operands are found, or missing, on both sides.
LEMMA OperandsLemma ==
  ASSUME NEW moves, NEW m0, NEW m, NEW n, Computes(moves, m0, m, n),
         NEW a, NEW b, b.left = a.left, b.right = a.right
  PROVE  \/ Operands(m, a) = <<>> /\ Operands(n, b) = <<>>
         \/ /\ Operands(m, a) # <<>> /\ Operands(n, b) # <<>>
            /\ Operands(n, b)[2] = Operands(m, a)[2] /\ Operands(n, b)[3] = Operands(m, a)[3]
            /\ Computes(moves, m0, Operands(m, a)[1], Operands(n, b)[1])
<1> DEFINE l == a.left
           r == a.right
           k == Len(m.stack)
           m1 == WithStack(m, Drop(m.stack, Depth(r)))
           n1 == WithStack(n, Drop(n.stack, Depth(r)))
           m2 == WithStack(m1, Drop(m1.stack, Depth(l)))
           n2 == WithStack(n1, Drop(n1.stack, Depth(l)))
<1>1. /\ IsSeq(m.stack) /\ k \in Nat /\ n.stack = m.stack /\ n.vars = m.vars /\ Top(n) = Top(m)
  BY FactsLemma
<1>2. \A o : Depth(o) \in {0, 1}
  BY DEF Depth
<1>3. ASSUME NEW m3, NEW n3, Computes(moves, m0, m3, n3), NEW o
      PROVE  Computes(moves, m0, WithStack(m3, Drop(m3.stack, Depth(o))),
                                 WithStack(n3, Drop(n3.stack, Depth(o))))
  <2>1. IsSeq(m3.stack) /\ Len(m3.stack) \in Nat /\ n3.stack = m3.stack
    BY <1>3, FactsLemma
  <2>2. Len(m3.stack) - Depth(o) \in Int
    BY <1>2, <2>1
  <2>3. IsSeq(Drop(m3.stack, Depth(o)))
    BY <2>1, <2>2, SeqLemma DEF Drop
  <2> QED
    BY <1>3, <2>1, <2>3, ComputesLemma
<1>4. Computes(moves, m0, m1, n1)
  BY <1>3
<1> HIDE DEF m1, n1
<1>5. Computes(moves, m0, m2, n2)
  BY <1>3, <1>4
<1>6. m1.vars = n1.vars /\ m1.stack = n1.stack /\ Top(n1) = Top(m1)
  BY <1>4, FactsLemma
<1>7. Operand(n, r) = Operand(m, r) /\ Operand(n1, l) = Operand(m1, l)
  BY <1>1, <1>6 DEF Operand
<1>8. /\ Operands(m, a) = IF k < Depth(l) + Depth(r) THEN <<>>
                          ELSE <<m2, Operand(m1, l), Operand(m, r)>>
      /\ Operands(n, b) = IF Len(n.stack) < Depth(l) + Depth(r) THEN <<>>
                          ELSE <<n2, Operand(n1, l), Operand(n, r)>>
  <2>1. Operands(m, a) = IF k < Depth(l) + Depth(r) THEN <<>>
                         ELSE <<m2, Operand(m1, l), Operand(m, r)>>
    BY Zenon DEF Operands, WithStack, m1
  <2>2. Operands(n, b) = IF Len(n.stack) < Depth(b.left) + Depth(b.right) THEN <<>>
                         ELSE LET n3 == WithStack(n, Drop(n.stack, Depth(b.right)))
                              IN  <<WithStack(n3, Drop(n3.stack, Depth(b.left))),
                                    Operand(n3, b.left), Operand(n, b.right)>>
    BY Zenon DEF Operands, WithStack
  <2> QED
    BY <2>1, <2>2, Zenon DEF n1
<1> HIDE DEF m2, n2
<1>9. /\ <<m2, Operand(m1, l), Operand(m, r)>> # <<>>
      /\ <<n2, Operand(n1, l), Operand(n, r)>> # <<>>
  OBVIOUS
<1> QED
  BY <1>1, <1>5, <1>7, <1>8, <1>9

\* A call, a tail call and a return do the same on both sides.
LEMMA CallLemma ==
  ASSUME NEW moves, NEW m, NEW n, Computes(moves, m, m, n), NEW t, NEW targets
  PROVE  /\ Lands(moves, m, targets, CallF(m, t), CallF(n, t))
         /\ Lands(moves, m, targets, TailCallF(m, t), TailCallF(n, t))
         /\ Lands(moves, m, targets, ReturnTop(m), ReturnTop(n))
<1> DEFINE v == Outcome(t, m.calls + 1)
           m1 == Popped(m)
           n1 == Popped(n)
           m2 == WithCalls(m1, m1.calls + 1)
           n2 == WithCalls(n1, n1.calls + 1)
           m3 == WithVars(m2, [m2.vars EXCEPT ![X] = v])
           n3 == WithVars(n2, [n2.vars EXCEPT ![X] = v])
<1>0. Computes(moves, m, m1, n1)
  BY DataLemma
<1>1. n.calls = m.calls /\ n.stack = m.stack /\ Top(n) = Top(m)
  BY FactsLemma
<1> HIDE DEF m1, n1
<1>2. n1.calls = m1.calls
  BY <1>0, FactsLemma
<1>3. Computes(moves, m, m2, n2)
  BY <1>0, <1>2, ComputesLemma
<1> HIDE DEF m2, n2
<1>4. n2.vars = m2.vars
  BY <1>3, FactsLemma
<1>5. Computes(moves, m, m3, n3)
  BY <1>3, <1>4, ComputesLemma
<1>6. Computes(moves, m, Push(m3, v), Push(n3, v))
  BY <1>5, DataLemma
<1> HIDE DEF m3, n3
<1>7. /\ CallF(m, t) = IF v = Raised THEN Raise(m2) ELSE Push(m3, v)
      /\ TailCallF(m, t) = IF v = Raised THEN Ends(m2, "raises", Raised) ELSE Ends(m3, "returns", v)
  <2>1. CallF(m, t) = IF v = Raised THEN Raise(m2) ELSE Push(m3, v)
    BY Zenon DEF CallF, WithCalls, WithVars, m1, m2, m3
  <2>2. TailCallF(m, t) = IF v = Raised THEN Ends(m2, "raises", Raised) ELSE Ends(m3, "returns", v)
    BY Zenon DEF TailCallF, WithCalls, WithVars, m1, m2, m3
  <2> QED
    BY <2>1, <2>2
<1>8. /\ CallF(n, t) = IF v = Raised THEN Raise(n2) ELSE Push(n3, v)
      /\ TailCallF(n, t) = IF v = Raised THEN Ends(n2, "raises", Raised) ELSE Ends(n3, "returns", v)
  <2> DEFINE u == Outcome(t, n.calls + 1)
             n4 == WithVars(n2, [n2.vars EXCEPT ![X] = u])
  <2>1. CallF(n, t) = IF u = Raised THEN Raise(n2) ELSE Push(n4, u)
    BY Zenon DEF CallF, WithCalls, WithVars, n1, n2
  <2>2. TailCallF(n, t) = IF u = Raised THEN Ends(n2, "raises", Raised) ELSE Ends(n4, "returns", u)
    BY Zenon DEF TailCallF, WithCalls, WithVars, n1, n2
  <2>3. u = v
    BY <1>1
  <2>4. n4 = n3
    BY <2>3, Zenon DEF n3
  <2> QED
    BY <2>1, <2>2, <2>3, <2>4, Zenon
<1> HIDE DEF v
<1>9. /\ Lands(moves, m, targets, CallF(m, t), CallF(n, t))
      /\ Lands(moves, m, targets, TailCallF(m, t), TailCallF(n, t))
  BY <1>3, <1>5, <1>6, <1>7, <1>8, GoesLemma
<1>10. Lands(moves, m, targets, ReturnTop(m), ReturnTop(n))
  <2>1. /\ ReturnTop(m) = IF m.stack = <<>> THEN Ends(m, "returns", Unit) ELSE Ends(m1, "returns", Top(m))
        /\ ReturnTop(n) = IF n.stack = <<>> THEN Ends(n, "returns", Unit) ELSE Ends(n1, "returns", Top(n))
    BY Zenon DEF ReturnTop, m1, n1
  <2> QED
    BY <1>0, <1>1, <2>1, GoesLemma
<1> QED
  BY <1>9, <1>10

\* A variable is bound wherever the machine is.
LEMMA SetLemma ==
  ASSUME NEW m, IsRecord(m), NEW x, NEW v, NEW p
  PROVE  Set(WithPc(m, p), x, v) = WithPc(Set(m, x, v), p)
<1> DEFINE m1 == MachineOf(p, m.stack, m.vars, m.tries, m.calls, m.taken, m.end)
           b == (x :> v) @@ m.vars
           m2 == MachineOf(m.pc, m.stack, b, m.tries, m.calls, m.taken, m.end)
<1> HIDE DEF b
<1>1. WithPc(m, p) = m1 /\ Set(m, x, v) = m2
  BY WithLemma, PrimitivesLemma DEF b
<1>2. /\ IsRecord(m1) /\ m1.pc = p /\ m1.stack = m.stack /\ m1.vars = m.vars /\ m1.tries = m.tries
      /\ m1.calls = m.calls /\ m1.taken = m.taken /\ m1.end = m.end
  BY FieldsLemma
<1>3. /\ IsRecord(m2) /\ m2.stack = m.stack /\ m2.vars = b /\ m2.tries = m.tries
      /\ m2.calls = m.calls /\ m2.taken = m.taken /\ m2.end = m.end
  BY FieldsLemma
<1> HIDE DEF m1, m2
<1>4. Set(m1, x, v) = MachineOf(p, m.stack, b, m.tries, m.calls, m.taken, m.end)
  BY <1>2, PrimitivesLemma DEF b
<1>5. WithPc(m2, p) = MachineOf(p, m.stack, b, m.tries, m.calls, m.taken, m.end)
  BY <1>3, WithLemma
<1> QED
  BY <1>1, <1>4, <1>5

\* An instruction and its copy do the same on both sides, and lead to the next
\* one, to the target of a jump or out of a region.
LEMMA OperateLemma ==
  ASSUME NEW moves, NEW m, NEW n, Computes(moves, m, m, n), NEW t,
         NEW a, NEW b, Copied(moves, a, b), a.op # "try"
  PROVE  Lands(moves, m, Targets(a), Operate(m, a, t), Operate(n, b, t))
<1> DEFINE T == Targets(a)
<1>0. /\ a.op \in Ops /\ b.op = a.op
      /\ IsSeq(m.stack) /\ Len(m.stack) \in Nat /\ n.stack = m.stack /\ n.vars = m.vars
      /\ Top(n) = Top(m) /\ n.calls = m.calls /\ n.taken = m.taken
  BY FactsLemma DEF Copied
<1>1. CASE a.op = "const"
  <2>1. Operate(m, a, t) = Push(m, a.val) /\ Operate(n, b, t) = Push(n, b.val)
    BY <1>0, <1>1, Zenon DEF Operate
  <2>2. b.val = a.val
    BY <1>1, CopiedLemma
  <2>3. Computes(moves, m, Push(m, a.val), Push(n, a.val))
    BY DataLemma
  <2> QED
    BY <2>1, <2>2, <2>3, GoesLemma
<1>2. CASE a.op = "owned"
  <2> DEFINE m1 == WithTaken(m, m.taken \cup {a.slot})
             n1 == WithTaken(n, n.taken \cup {b.slot})
  <2>1. /\ Operate(m, a, t) = IF a.slot \in m.taken THEN Crash(m) ELSE Push(m1, a.val)
        /\ Operate(n, b, t) = IF b.slot \in n.taken THEN Crash(n) ELSE Push(n1, b.val)
    BY <1>0, <1>2, Zenon DEF Operate, WithTaken
  <2>2. b.val = a.val /\ b.slot = a.slot
    BY <1>2, CopiedLemma
  <2>3. Computes(moves, m, m1, n1)
    BY <1>0, <2>2, ComputesLemma
  <2> HIDE DEF m1, n1
  <2>4. Computes(moves, m, Push(m1, a.val), Push(n1, a.val))
    BY <2>3, DataLemma
  <2> QED
    BY <1>0, <2>1, <2>2, <2>4, GoesLemma
<1>3. CASE a.op = "load"
  <2>1. /\ Operate(m, a, t) = IF a.name \in DOMAIN m.vars THEN Push(m, m.vars[a.name]) ELSE Raise(m)
        /\ Operate(n, b, t) = IF b.name \in DOMAIN n.vars THEN Push(n, n.vars[b.name]) ELSE Raise(n)
    BY <1>0, <1>3, Zenon DEF Operate, LoadName
  <2>2. b.name = a.name
    BY <1>3, CopiedLemma
  <2>3. Computes(moves, m, Push(m, m.vars[a.name]), Push(n, m.vars[a.name]))
    BY DataLemma
  <2> QED
    BY <1>0, <2>1, <2>2, <2>3, GoesLemma
<1>4. CASE a.op = "exists"
  <2> DEFINE v == Bool(a.name \in DOMAIN m.vars)
  <2>1. Operate(m, a, t) = Push(m, v) /\ Operate(n, b, t) = Push(n, Bool(b.name \in DOMAIN n.vars))
    BY <1>0, <1>4, Zenon DEF Operate
  <2>2. b.name = a.name
    BY <1>4, CopiedLemma
  <2>3. Computes(moves, m, Push(m, v), Push(n, v))
    BY DataLemma
  <2> QED
    BY <1>0, <2>1, <2>2, <2>3, GoesLemma
<1>5. CASE a.op = "storeKeep"
  <2>1. Operate(m, a, t) = Set(m, a.name, Top(m)) /\ Operate(n, b, t) = Set(n, b.name, Top(n))
    BY <1>0, <1>5, Zenon DEF Operate
  <2>2. b.name = a.name
    BY <1>5, CopiedLemma
  <2>3. Computes(moves, m, Set(m, a.name, Top(m)), Set(n, a.name, Top(m)))
    BY DataLemma
  <2> QED
    BY <1>0, <2>1, <2>2, <2>3, GoesLemma
<1>6. CASE a.op = "store"
  <2> DEFINE m1 == Popped(m)
             n1 == Popped(n)
  <2>1. Operate(m, a, t) = Set(m1, a.name, Top(m)) /\ Operate(n, b, t) = Set(n1, b.name, Top(n))
    BY <1>0, <1>6, Zenon DEF Operate
  <2>2. b.name = a.name
    BY <1>6, CopiedLemma
  <2>3. Computes(moves, m, m1, n1)
    BY DataLemma
  <2> HIDE DEF m1, n1
  <2>4. Computes(moves, m, Set(m1, a.name, Top(m)), Set(n1, a.name, Top(m)))
    BY <2>3, DataLemma
  <2> QED
    BY <1>0, <2>1, <2>2, <2>4, GoesLemma
<1>7. CASE a.op = "binary"
  <2> DEFINE p == Operands(m, a)
             q == Operands(n, b)
             v == Apply(a.fun, p[2], p[3])
  <2>1. /\ Operate(m, a, t) = IF p = <<>> THEN Crash(m) ELSE Push(p[1], Apply(a.fun, p[2], p[3]))
        /\ Operate(n, b, t) = IF q = <<>> THEN Crash(n) ELSE Push(q[1], Apply(b.fun, q[2], q[3]))
    BY <1>0, <1>7, Zenon DEF Operate
  <2>2. b.fun = a.fun /\ b.left = a.left /\ b.right = a.right
    BY <1>7, CopiedLemma
  <2>3. \/ p = <<>> /\ q = <<>>
        \/ p # <<>> /\ q # <<>> /\ q[2] = p[2] /\ q[3] = p[3] /\ Computes(moves, m, p[1], q[1])
    BY <2>2, OperandsLemma
  <2> HIDE DEF p, q
  <2>4. CASE p = <<>> /\ q = <<>>
    BY <2>1, <2>4, GoesLemma
  <2>5. CASE p # <<>> /\ q # <<>> /\ q[2] = p[2] /\ q[3] = p[3] /\ Computes(moves, m, p[1], q[1])
    <3>1. Computes(moves, m, Push(p[1], v), Push(q[1], v))
      BY <2>5, DataLemma
    <3>2. Operate(m, a, t) = Push(p[1], v) /\ Operate(n, b, t) = Push(q[1], v)
      BY <2>1, <2>2, <2>5
    <3> QED
      BY <3>1, <3>2, GoesLemma
  <2> QED
    BY <2>3, <2>4, <2>5
<1>8. CASE a.op = "jump"
  <2>1. Operate(m, a, t) = WithPc(m, a.to) /\ Operate(n, b, t) = WithPc(n, b.to)
    BY <1>0, <1>8, Zenon DEF Operate, WithPc
  <2>2. b.to = moves[a.to] /\ a.to \in T
    BY <1>8, CopiedLemma DEF JumpOps
  <2> QED
    BY <2>1, <2>2, GoesLemma
<1>9. CASE a.op = "jumpIfFalse"
  <2> DEFINE m1 == Popped(m)
             n1 == Popped(n)
  <2>1. Operate(m, a, t) = BranchOn(m1, Top(m), a.to) /\ Operate(n, b, t) = BranchOn(n1, Top(n), b.to)
    BY <1>0, <1>9, Zenon DEF Operate
  <2>2. b.to = moves[a.to] /\ a.to \in T
    BY <1>9, CopiedLemma DEF JumpOps
  <2>3. Computes(moves, m, m1, n1)
    BY DataLemma
  <2> HIDE DEF m1, n1
  <2> QED
    BY <1>0, <2>1, <2>2, <2>3, GoesLemma
<1>10. CASE a.op = "jumpIfCmpFalse"
  <2> DEFINE p == Operands(m, a)
             q == Operands(n, b)
             v == Apply(a.fun, p[2], p[3])
  <2>1. /\ Operate(m, a, t) = IF p = <<>> THEN Crash(m) ELSE BranchOn(p[1], Apply(a.fun, p[2], p[3]), a.to)
        /\ Operate(n, b, t) = IF q = <<>> THEN Crash(n) ELSE BranchOn(q[1], Apply(b.fun, q[2], q[3]), b.to)
    BY <1>0, <1>10, Zenon DEF Operate
  <2>2. /\ b.fun = a.fun /\ b.left = a.left /\ b.right = a.right
        /\ b.to = moves[a.to] /\ a.to \in T
    BY <1>10, CopiedLemma DEF JumpOps
  <2>3. \/ p = <<>> /\ q = <<>>
        \/ p # <<>> /\ q # <<>> /\ q[2] = p[2] /\ q[3] = p[3] /\ Computes(moves, m, p[1], q[1])
    BY <2>2, OperandsLemma
  <2> HIDE DEF p, q
  <2>4. CASE p = <<>> /\ q = <<>>
    BY <2>1, <2>4, GoesLemma
  <2>5. CASE p # <<>> /\ q # <<>> /\ q[2] = p[2] /\ q[3] = p[3] /\ Computes(moves, m, p[1], q[1])
    <3>1. Operate(m, a, t) = BranchOn(p[1], v, a.to) /\ Operate(n, b, t) = BranchOn(q[1], v, b.to)
      BY <2>1, <2>2, <2>5
    <3> QED
      BY <2>2, <2>5, <3>1, GoesLemma
  <2> QED
    BY <2>3, <2>4, <2>5
<1>11. CASE a.op = "nLoopEnter"
  <2> DEFINE enters == m.vars[Index][2] < m.vars[a.count][2]
             v == m.vars[Index]
  <2>1. /\ Operate(m, a, t) = IF m.vars[Index][2] < m.vars[a.count][2]
                              THEN Set(m, a.snapshot, m.vars[Index]) ELSE WithPc(m, a.to)
        /\ Operate(n, b, t) = IF n.vars[Index][2] < n.vars[b.count][2]
                              THEN Set(n, b.snapshot, n.vars[Index]) ELSE WithPc(n, b.to)
    BY <1>0, <1>11, Zenon DEF Operate, WithPc
  <2>2. /\ b.count = a.count /\ b.snapshot = a.snapshot
        /\ b.to = moves[a.to] /\ a.to \in T
    BY <1>11, CopiedLemma DEF JumpOps
  <2>3. Computes(moves, m, Set(m, a.snapshot, v), Set(n, a.snapshot, v))
    BY DataLemma
  <2>4. /\ Operate(m, a, t) = IF enters THEN Set(m, a.snapshot, v) ELSE WithPc(m, a.to)
        /\ Operate(n, b, t) = IF enters THEN Set(n, a.snapshot, v) ELSE WithPc(n, moves[a.to])
    BY <1>0, <2>1, <2>2, Zenon
  <2> HIDE DEF enters, v
  <2> QED
    BY <2>2, <2>3, <2>4, GoesLemma
<1>12. CASE a.op = "nLoopNext"
  <2> DEFINE v == Apply("+", m.vars[a.snapshot], Num(1))
             m1 == Set(m, Index, v)
             n1 == Set(n, Index, v)
  <2>1. /\ Operate(m, a, t) = Set(WithPc(m, a.to), Index, Apply("+", m.vars[a.snapshot], Num(1)))
        /\ Operate(n, b, t) = Set(WithPc(n, b.to), Index, Apply("+", n.vars[b.snapshot], Num(1)))
    BY <1>0, <1>12, Zenon DEF Operate, WithPc
  <2>2. b.snapshot = a.snapshot /\ b.to = moves[a.to] /\ a.to \in T
    BY <1>12, CopiedLemma DEF JumpOps
  <2>3. Operate(n, b, t) = Set(WithPc(n, moves[a.to]), Index, v)
    BY <1>0, <2>1, <2>2, Zenon
  <2>4. Operate(m, a, t) = Set(WithPc(m, a.to), Index, v)
    BY <2>1, Zenon
  <2> HIDE DEF v
  <2>5. IsRecord(m) /\ IsRecord(n)
    BY ParallelLemma DEF Computes
  <2>6. Operate(m, a, t) = WithPc(m1, a.to) /\ Operate(n, b, t) = WithPc(n1, moves[a.to])
    BY <2>3, <2>4, <2>5, SetLemma
  <2>7. Computes(moves, m, m1, n1)
    BY DataLemma
  <2> HIDE DEF m1, n1
  <2> QED
    BY <2>2, <2>6, <2>7, GoesLemma
<1>13. CASE a.op = "lazy"
  <2>1. /\ Operate(m, a, t) = IF m.stack # <<>> /\ Top(m) = a.stop THEN WithPc(m, a.to) ELSE m
        /\ Operate(n, b, t) = IF n.stack # <<>> /\ Top(n) = b.stop THEN WithPc(n, b.to) ELSE n
    BY <1>0, <1>13, Zenon DEF Operate, WithPc
  <2>2. b.stop = a.stop /\ b.to = moves[a.to] /\ a.to \in T
    BY <1>13, CopiedLemma DEF JumpOps
  <2> QED
    BY <1>0, <2>1, <2>2, GoesLemma
<1>14. CASE a.op = "combine"
  <2> DEFINE l == m.stack[Len(m.stack) - 1]
             r == Top(m)
             s == Drop(m.stack, 2)
             v == IF a.stop \in {l, r} THEN a.stop ELSE r
             m1 == WithStack(m, s)
             n1 == WithStack(n, s)
  <2>1. /\ Operate(m, a, t) = IF {l, r} \subseteq Booleans THEN Push(m1, v) ELSE Raise(m1)
        /\ Operate(n, b, t) =
              LET l1 == n.stack[Len(n.stack) - 1]
                  r1 == Top(n)
                  n2 == WithStack(n, Drop(n.stack, 2))
              IN  IF {l1, r1} \subseteq Booleans
                  THEN Push(n2, IF b.stop \in {l1, r1} THEN b.stop ELSE r1) ELSE Raise(n2)
    BY <1>0, <1>14, Zenon DEF Operate, WithStack
  <2>2. b.stop = a.stop
    BY <1>14, CopiedLemma
  <2>3. Operate(n, b, t) = IF {l, r} \subseteq Booleans THEN Push(n1, v) ELSE Raise(n1)
    BY <1>0, <2>1, <2>2, Zenon
  <2>4. IsSeq(s)
    <3>1. Len(m.stack) - 2 \in Int
      BY <1>0
    <3> QED
      BY <1>0, <3>1, SeqLemma DEF Drop
  <2>5. Computes(moves, m, m1, n1)
    BY <2>4, ComputesLemma
  <2> HIDE DEF m1, n1, v, s, l, r
  <2>6. Computes(moves, m, Push(m1, v), Push(n1, v))
    BY <2>5, DataLemma
  <2> QED
    BY <2>1, <2>3, <2>5, <2>6, GoesLemma
<1>15. CASE a.op = "makeList"
  <2> DEFINE s == Drop(m.stack, a.n)
             v == ListOf(SubSeq(m.stack, Len(m.stack) - a.n + 1, Len(m.stack)))
             m1 == WithStack(m, s)
             n1 == WithStack(n, s)
  <2>1. /\ Operate(m, a, t) = Push(m1, v)
        /\ Operate(n, b, t) = Push(WithStack(n, Drop(n.stack, b.n)),
                                   ListOf(SubSeq(n.stack, Len(n.stack) - b.n + 1, Len(n.stack))))
    BY <1>0, <1>15, Zenon DEF Operate, WithStack
  <2>2. b.n = a.n /\ a.n \in Nat
    BY <1>15, CopiedLemma DEF Copied
  <2>3. Operate(n, b, t) = Push(n1, v)
    BY <1>0, <2>1, <2>2, Zenon
  <2>4. IsSeq(s)
    <3>1. Len(m.stack) - a.n \in Int
      BY <1>0, <2>2
    <3> QED
      BY <1>0, <3>1, SeqLemma DEF Drop
  <2>5. Computes(moves, m, m1, n1)
    BY <2>4, ComputesLemma
  <2> HIDE DEF m1, n1, v, s
  <2>6. Computes(moves, m, Push(m1, v), Push(n1, v))
    BY <2>5, DataLemma
  <2> QED
    BY <2>1, <2>3, <2>6, GoesLemma
<1>16. CASE a.op = "pop"
  <2>1. /\ Operate(m, a, t) = IF m.stack = <<>> THEN m ELSE Popped(m)
        /\ Operate(n, b, t) = IF n.stack = <<>> THEN n ELSE Popped(n)
    BY <1>0, <1>16, Zenon DEF Operate
  <2>2. Computes(moves, m, Popped(m), Popped(n))
    BY DataLemma
  <2> QED
    BY <1>0, <2>1, <2>2, GoesLemma
<1>17. CASE a.op = "loadCallTarget"
  <2>1. Operate(m, a, t) = Push(m, Callee) /\ Operate(n, b, t) = Push(n, Callee)
    BY <1>0, <1>17, Zenon DEF Operate
  <2>2. Computes(moves, m, Push(m, Callee), Push(n, Callee))
    BY DataLemma
  <2> QED
    BY <2>1, <2>2, GoesLemma
<1>18. CASE a.op \in {"postfix", "tailPostfix"}
  <2> DEFINE m1 == Popped(m)
             n1 == Popped(n)
  <2>1. /\ Operate(m, a, t) = IF Top(m) = Callee
                              THEN IF a.op = "postfix" THEN CallF(m, t) ELSE TailCallF(m, t)
                              ELSE Raise(m1)
        /\ Operate(n, b, t) = IF Top(n) = Callee
                              THEN IF a.op = "postfix" THEN CallF(n, t) ELSE TailCallF(n, t)
                              ELSE Raise(n1)
    <3>1. CASE a.op = "postfix"
      BY <1>0, <3>1, Zenon DEF Operate
    <3>2. CASE a.op = "tailPostfix"
      BY <1>0, <3>2, Zenon DEF Operate
    <3> QED
      BY <1>18, <3>1, <3>2
  <2>2. Computes(moves, m, m1, n1)
    BY DataLemma
  <2> HIDE DEF m1, n1
  <2>3. Lands(moves, m, T, Raise(m1), Raise(n1))
    BY <2>2, GoesLemma
  <2>4. /\ Lands(moves, m, T, CallF(m, t), CallF(n, t))
        /\ Lands(moves, m, T, TailCallF(m, t), TailCallF(n, t))
    BY CallLemma
  <2> QED
    BY <1>0, <2>1, <2>3, <2>4
<1>19. CASE a.op = "return"
  <2>1. Operate(m, a, t) = ReturnTop(m) /\ Operate(n, b, t) = ReturnTop(n)
    BY <1>0, <1>19, Zenon DEF Operate
  <2> QED
    BY <2>1, CallLemma
<1>20. CASE a.op = "pause"
  <2>1. Operate(m, a, t) = m /\ Operate(n, b, t) = n
    BY <1>0, <1>20, Zenon DEF Operate
  <2> QED
    BY <2>1, GoesLemma
<1> HIDE DEF T
<1> QED
  BY <1>0, <1>1, <1>2, <1>3, <1>4, <1>5, <1>6, <1>7, <1>8, <1>9, <1>10, <1>11, <1>12,
     <1>13, <1>14, <1>15, <1>16, <1>17, <1>18, <1>19, <1>20 DEF Ops

----------------------------------------------------------------------------
(* The regions a machine is in. *)

\* The region of the code from which tries[k] comes: the machine has not left
\* it but forwards, and the regions above it are in it.
Covers(c, p, tries, k, r) ==
  /\ tries[k].end = RegionEnd(c, r) /\ r < p
  /\ p <= RegionEnd(c, r) \/ \E j \in Kept(c) : RegionEnd(c, r) <= j /\ j < p
  /\ \A l \in (k + 1)..Len(tries) : r < tries[l].end /\ tries[l].end <= RegionEnd(c, r)

InRegions(c, p, tries) == \A k \in 1..Len(tries) : \E r \in Regions(c) : Covers(c, p, tries, k, r)

\* A region begins before it ends, and ends in the code.
LEMMA RegionLemma ==
  ASSUME NEW c, WellFormed(c), NEW r \in Regions(c)
  PROVE  /\ r \in Int /\ 1 <= r /\ c[r].len \in Nat /\ r < RegionEnd(c, r)
         /\ RegionEnd(c, r) \in 1..Len(c) /\ TryEnds(c, RegionEnd(c, r))
<1>1. r \in DOMAIN c /\ c[r].op = "try" /\ DOMAIN c = 1..Len(c) /\ Len(c) \in Nat
  BY DEF Regions, WellFormed
<1>2. c[r].len \in Nat /\ r + 1 + c[r].len \in DOMAIN c
  BY <1>1 DEF WellFormed, Fits
<1>3. r \in 1..(RegionEnd(c, r) - 1)
  BY <1>1, <1>2 DEF RegionEnd
<1>4. TryEnds(c, RegionEnd(c, r))
  BY <1>1, <1>3 DEF TryEnds, RegionEnd
<1> QED
  BY <1>1, <1>2, <1>3, <1>4 DEF RegionEnd

\* Where a machine goes, it is in its regions still.
LEMMA OpenLemma ==
  ASSUME NEW c, WellFormed(c), NEW p \in 1..Len(c),
         NEW tries \in Seq(Region), InRegions(c, p, tries)
  PROVE  /\ tries # <<>> =>
               /\ tries[Len(tries)].end \in 1..Len(c) /\ TryEnds(c, tries[Len(tries)].end)
               /\ InRegions(c, tries[Len(tries)].end, Drop(tries, 1))
               /\ InRegions(c, p, Drop(tries, 1))
               /\ p >= tries[Len(tries)].end =>
                     \/ p = tries[Len(tries)].end
                     \/ \E j \in Kept(c) : tries[Len(tries)].end <= j /\ j < p
         /\ (tries # <<>> => p < tries[Len(tries)].end) =>
               /\ InRegions(c, p + 1, tries)
               /\ Jumps(c[p]) => InRegions(c, c[p].to, tries)
               /\ p \in Regions(c) => \A b \in Int :
                     InRegions(c, p + 1, Append(tries, [end |-> RegionEnd(c, p), base |-> b]))
               /\ tries # <<>> => InTry(c, p)
<1> DEFINE n == Len(tries)
<1>1. /\ n \in Nat /\ p \in Int /\ 1 <= p /\ p <= Len(c) /\ Len(c) \in Nat /\ DOMAIN c = 1..Len(c)
      /\ \A k \in 1..n : tries[k].end \in Int
  <2>1. n \in Nat /\ \A k \in 1..n : tries[k] \in Region
    OBVIOUS
  <2>2. \A x \in Region : x.end \in Int
    BY DEF Region
  <2>3. Len(c) \in Nat /\ DOMAIN c = 1..Len(c)
    BY DEF WellFormed
  <2> HIDE DEF n
  <2> QED
    BY <2>1, <2>2, <2>3
<1>2. tries # <<>> => n \in 1..n
  BY <1>1
<1>3. \A k \in 1..n : \E r \in Regions(c) : Covers(c, p, tries, k, r)
  BY DEF InRegions
<1>4. ASSUME tries # <<>>
      PROVE  /\ tries[n].end \in 1..Len(c) /\ TryEnds(c, tries[n].end)
             /\ InRegions(c, tries[n].end, Drop(tries, 1)) /\ InRegions(c, p, Drop(tries, 1))
             /\ p >= tries[n].end => \/ p = tries[n].end
                                     \/ \E j \in Kept(c) : tries[n].end <= j /\ j < p
  <2>1. PICK r \in Regions(c) : Covers(c, p, tries, n, r)
    BY <1>2, <1>3, <1>4
  <2>2. tries[n].end = RegionEnd(c, r) /\ tries[n].end \in 1..Len(c) /\ TryEnds(c, tries[n].end)
    BY <2>1, RegionLemma DEF Covers
  <2>3. p >= tries[n].end => \/ p = tries[n].end
                             \/ \E j \in Kept(c) : tries[n].end <= j /\ j < p
    <3> HAVE p >= tries[n].end
    <3>1. p <= RegionEnd(c, r) \/ \E j \in Kept(c) : RegionEnd(c, r) <= j /\ j < p
      BY <2>1 DEF Covers
    <3>2. p <= tries[n].end => p = tries[n].end
      BY <1>1, <2>2
    <3> QED
      BY <2>2, <3>1, <3>2
  <2> DEFINE d == Drop(tries, 1)
  <2>4. Len(d) = n - 1 /\ \A k \in 1..(n - 1) : d[k] = tries[k]
    <3>1. d = [k \in 1..(n - 1) |-> tries[k]]
      BY <1>1, <1>2, <1>4 DEF Drop
    <3>2. n - 1 \in Nat
      BY <1>2, <1>4
    <3> HIDE DEF d, n
    <3> QED
      BY <3>1, <3>2
  <2> HIDE DEF d
  <2>5. ASSUME NEW k \in 1..(n - 1)
        PROVE  \E q \in Regions(c) : Covers(c, tries[n].end, d, k, q) /\ Covers(c, p, d, k, q)
    <3>1. k \in 1..n /\ k \in Int /\ n \in (k + 1)..n
      BY <1>1, <1>2, <1>4
    <3>2. PICK q \in Regions(c) : Covers(c, p, tries, k, q)
      BY <1>3, <3>1
    <3>3. q < tries[n].end /\ tries[n].end <= RegionEnd(c, q)
      BY <3>1, <3>2 DEF Covers
    <3>4. \A l \in (k + 1)..(n - 1) : d[l] = tries[l] /\ l \in (k + 1)..n
      BY <1>1, <2>4, <3>1
    <3> QED
      BY <2>4, <3>2, <3>3, <3>4 DEF Covers
  <2> QED
    BY <2>2, <2>3, <2>4, <2>5 DEF InRegions, d
<1>5. ASSUME tries # <<>> => p < tries[n].end, NEW k \in 1..n
      PROVE  \E r \in Regions(c) :
                /\ tries[k].end = RegionEnd(c, r) /\ p \in Inside(c, r)
                /\ r \in Int /\ r < p /\ p < RegionEnd(c, r) /\ RegionEnd(c, r) \in Int
                /\ \A l \in (k + 1)..n : r < tries[l].end /\ tries[l].end <= RegionEnd(c, r)
  <2>1. PICK r \in Regions(c) : Covers(c, p, tries, k, r)
    BY <1>3
  <2>2. r \in Int /\ RegionEnd(c, r) \in Int
    BY <1>1, RegionLemma
  <2>3. tries # <<>> /\ p < tries[n].end /\ tries[n].end \in Int
    BY <1>1, <1>5
  <2>4. tries[n].end <= RegionEnd(c, r)
    <3>1. CASE k = n
      BY <2>1, <2>2, <3>1 DEF Covers
    <3>2. CASE k # n
      <4>1. n \in (k + 1)..n
        BY <1>1, <3>2
      <4> QED
        BY <2>1, <4>1 DEF Covers
    <3> QED
      BY <3>1, <3>2
  <2>5. r < p /\ p < RegionEnd(c, r)
    BY <1>1, <2>1, <2>2, <2>3, <2>4 DEF Covers
  <2>6. p \in Inside(c, r)
    BY <1>1, <2>2, <2>5 DEF Inside
  <2> QED
    BY <2>1, <2>2, <2>5, <2>6 DEF Covers
<1>6. ASSUME tries # <<>> => p < tries[n].end
      PROVE  /\ InRegions(c, p + 1, tries)
             /\ Jumps(c[p]) => InRegions(c, c[p].to, tries)
             /\ p \in Regions(c) => \A b \in Int :
                   InRegions(c, p + 1, Append(tries, [end |-> RegionEnd(c, p), base |-> b]))
             /\ tries # <<>> => InTry(c, p)
  <2>1. InRegions(c, p + 1, tries)
    <3> SUFFICES ASSUME NEW k \in 1..n
                 PROVE  \E r \in Regions(c) : Covers(c, p + 1, tries, k, r)
      BY DEF InRegions
    <3>1. PICK r \in Regions(c) :
                /\ tries[k].end = RegionEnd(c, r) /\ r \in Int /\ r < p /\ p < RegionEnd(c, r)
                /\ RegionEnd(c, r) \in Int
                /\ \A l \in (k + 1)..n : r < tries[l].end /\ tries[l].end <= RegionEnd(c, r)
      BY <1>5, <1>6
    <3>2. r < p + 1 /\ p + 1 <= RegionEnd(c, r)
      BY <1>1, <3>1
    <3> QED
      BY <3>1, <3>2 DEF Covers
  <2>2. Jumps(c[p]) => InRegions(c, c[p].to, tries)
    <3> SUFFICES ASSUME Jumps(c[p]), NEW k \in 1..n
                 PROVE  \E r \in Regions(c) : Covers(c, c[p].to, tries, k, r)
      BY DEF InRegions
    <3> DEFINE to == c[p].to
    <3>1. PICK r \in Regions(c) :
                /\ tries[k].end = RegionEnd(c, r) /\ p \in Inside(c, r) /\ r \in Int
                /\ RegionEnd(c, r) \in Int /\ r < RegionEnd(c, r)
                /\ \A l \in (k + 1)..n : r < tries[l].end /\ tries[l].end <= RegionEnd(c, r)
      BY <1>5, <1>6, RegionLemma
    <3>2. to \in Int
      BY <1>1 DEF WellFormed, Fits
    <3>3. \/ to \in (r + 1)..RegionEnd(c, r)
          \/ \E j \in Kept(c) : RegionEnd(c, r) <= j /\ j < to
      BY <3>1 DEF WellFormed, RegionsNest
    <3>4. CASE to \in (r + 1)..RegionEnd(c, r)
      <4>1. r < to /\ to <= RegionEnd(c, r)
        BY <3>1, <3>2, <3>4
      <4> QED
        BY <3>1, <4>1 DEF Covers
    <3>5. CASE \E j \in Kept(c) : RegionEnd(c, r) <= j /\ j < to
      <4>1. PICK j \in Kept(c) : RegionEnd(c, r) <= j /\ j < to
        BY <3>5
      <4>2. j \in Int
        BY <1>1 DEF Kept
      <4>3. r < to
        BY <3>1, <3>2, <4>1, <4>2
      <4> QED
        BY <3>1, <4>1, <4>3 DEF Covers
    <3> QED
      BY <3>3, <3>4, <3>5
  <2>3. ASSUME p \in Regions(c), NEW b \in Int
        PROVE  InRegions(c, p + 1, Append(tries, [end |-> RegionEnd(c, p), base |-> b]))
    <3> DEFINE s == Append(tries, [end |-> RegionEnd(c, p), base |-> b])
               e == RegionEnd(c, p)
    <3>1. e \in Int /\ p < e
      BY <2>3, RegionLemma
    <3>2. [end |-> e, base |-> b] \in Region
      BY <2>3, <3>1 DEF Region
    <3>3. Len(s) = n + 1 /\ s[n + 1] = [end |-> e, base |-> b] /\ \A k \in 1..n : s[k] = tries[k]
      BY <3>2, AppendProperties
    <3>4. s[n + 1].end = e
      BY <3>3
    <3> HIDE DEF s, e
    <3> SUFFICES ASSUME NEW k \in 1..(n + 1)
                 PROVE  \E r \in Regions(c) : Covers(c, p + 1, s, k, r)
      BY <3>3 DEF InRegions, s, e
    <3>5. CASE k = n + 1
      <4>1. s[k].end = RegionEnd(c, p) /\ p < p + 1 /\ p + 1 <= RegionEnd(c, p)
        BY <1>1, <3>1, <3>4, <3>5 DEF e
      <4>2. (k + 1)..Len(s) = {}
        BY <1>1, <3>3, <3>5
      <4> QED
        BY <2>3, <4>1, <4>2 DEF Covers
    <3>6. CASE k # n + 1
      <4>1. k \in 1..n
        BY <1>1, <3>6
      <4>2. PICK r \in Regions(c) :
                /\ tries[k].end = RegionEnd(c, r) /\ p \in Inside(c, r) /\ r \in Int
                /\ r < p /\ p < RegionEnd(c, r) /\ RegionEnd(c, r) \in Int
                /\ \A l \in (k + 1)..n : r < tries[l].end /\ tries[l].end <= RegionEnd(c, r)
        BY <1>5, <1>6, <4>1
      <4>3. e <= RegionEnd(c, r)
        BY <2>3, <4>2 DEF WellFormed, RegionsNest, e
      <4>4. r < e /\ r < p + 1 /\ p + 1 <= RegionEnd(c, r)
        BY <1>1, <3>1, <4>2
      <4>5. \A l \in (k + 1)..(n + 1) : r < s[l].end /\ s[l].end <= RegionEnd(c, r)
        <5> TAKE l \in (k + 1)..(n + 1)
        <5>1. CASE l = n + 1
          BY <3>4, <4>3, <4>4, <5>1
        <5>2. CASE l # n + 1
          <6>0. n \in Nat /\ k \in 1..n
            BY <1>1, <4>1
          <6> HIDE DEF n
          <6>1. l \in (k + 1)..n /\ l \in 1..n
            BY <5>2, <6>0
          <6> QED
            BY <3>3, <4>2, <6>1
        <5> QED
          BY <5>1, <5>2
      <4> QED
        BY <3>3, <4>1, <4>2, <4>4, <4>5 DEF Covers
    <3> QED
      BY <3>5, <3>6
  <2>4. ASSUME tries # <<>>
        PROVE  InTry(c, p)
    <3>1. PICK r \in Regions(c) : r \in Int /\ r < p /\ p < RegionEnd(c, r)
      BY <1>2, <1>5, <1>6, <2>4
    <3>2. r \in 1..(p - 1) /\ c[r].op = "try" /\ c[r].len \in Nat
      BY <1>1, <3>1, RegionLemma DEF Regions
    <3>3. p <= r + c[r].len
      BY <1>1, <3>1, <3>2 DEF RegionEnd
    <3> QED
      BY <3>2, <3>3 DEF InTry
  <2> QED
    BY <2>1, <2>2, <2>3, <2>4
<1> QED
  BY <1>4, <1>6

----------------------------------------------------------------------------
(* A turn of the interpreter's loop. *)

\* An execution of c that has not ended.
Runs(c, m) ==
  /\ Sound(m) /\ m.end = <<>> /\ m.pc \in 1..Len(c) /\ InRegions(c, m.pc, m.tries)

\* A machine at another address.
LEMMA WithPcLemma ==
  ASSUME NEW m, Sound(m), NEW p
  PROVE  LET n == WithPc(m, p) IN
         /\ Sound(n) /\ n.pc = p /\ n.stack = m.stack /\ n.vars = m.vars /\ n.tries = m.tries
         /\ n.calls = m.calls /\ n.taken = m.taken /\ n.end = m.end
<1> DEFINE n == WithPc(m, p)
<1>1. n = MachineOf(p, m.stack, m.vars, m.tries, m.calls, m.taken, m.end)
  BY WithLemma DEF Sound
<1> HIDE DEF n
<1>2. /\ IsRecord(n) /\ n.pc = p /\ n.stack = m.stack /\ n.vars = m.vars /\ n.tries = m.tries
      /\ n.calls = m.calls /\ n.taken = m.taken /\ n.end = m.end
  BY <1>1, FieldsLemma
<1>3. Sound(n)
  BY <1>2 DEF Sound
<1> QED
  BY <1>2, <1>3 DEF n

\* The instructions of well-formed code have the fields of their kind, jump into
\* the code and are followed by one, unless they return.
LEMMA CodeLemma ==
  ASSUME NEW c, WellFormed(c), NEW i \in 1..Len(c)
  PROVE  /\ Fits(c, i) /\ c[i].op \in Ops /\ DOMAIN c[i] = Fields(c[i].op)
         /\ Jumps(c[i]) => c[i].to \in 1..Len(c)
         /\ c[i].op = "makeList" => c[i].n \in Nat
         /\ c[i].op # "return" => i + 1 \in 1..Len(c)
         /\ (i \in Regions(c) <=> c[i].op = "try")
         /\ Len(c) \in Nat /\ DOMAIN c = 1..Len(c) /\ i \in Int /\ i + 1 \in 1..(Len(c) + 1)
<1>1. Fits(c, i) /\ DOMAIN c = 1..Len(c) /\ Len(c) \in Nat \ {0} /\ c[Len(c)].op = "return"
  BY DEF WellFormed
<1>2. c[i].op # "return" => i # Len(c)
  BY <1>1
<1>3. /\ c[i].op \in Ops /\ DOMAIN c[i] = Fields(c[i].op)
      /\ Jumps(c[i]) => c[i].to \in 1..Len(c)
      /\ c[i].op = "makeList" => c[i].n \in Nat
  BY <1>1 DEF Fits
<1>4. i \in Int /\ i + 1 \in 1..(Len(c) + 1) /\ (c[i].op # "return" => i + 1 \in 1..Len(c))
  <2> DEFINE n == Len(c)
  <2>1. n \in Nat /\ i \in 1..n
    BY <1>1
  <2> HIDE DEF n
  <2>2. i \in Int /\ i + 1 \in 1..(n + 1) /\ (i # n => i + 1 \in 1..n)
    BY <2>1
  <2> QED
    BY <1>2, <2>2 DEF n
<1>5. i \in Regions(c) <=> c[i].op = "try"
  BY <1>1 DEF Regions
<1> QED
  BY <1>1, <1>3, <1>4, <1>5

\* An execution that ends has ended.
LEMMA EndsLemma ==
  ASSUME NEW m, IsRecord(m), NEW x, NEW v
  PROVE  Ends(m, x, v).end # <<>>
<1> DEFINE e == <<x, v>>
<1>1. e # <<>>
  OBVIOUS
<1>2. Ends(m, x, v) = MachineOf(m.pc, m.stack, m.vars, m.tries, m.calls, m.taken, e)
  BY PrimitivesLemma
<1> HIDE DEF e
<1> QED
  BY <1>1, <1>2, FieldsLemma

\* What is not the start of a region leads to the next instruction, to the
\* target of a jump or out of a region.
LEMMA OperatedLemma ==
  ASSUME NEW c, WellFormed(c), NEW i \in 1..Len(c), c[i].op # "try",
         NEW m, Sound(m), m.end = <<>>, NEW t
  PROVE  /\ Sound(Operate(m, c[i], t))
         /\ LandsOn(m, Targets(c[i]), Operate(m, c[i], t))
<1> DEFINE same == [p \in 1..Len(c) |-> p]
           n == Readdressed(same, m)
<1>1. Computes(same, m, m, n)
  BY DEF Computes, Parallel
<1>2. Copied(same, c[i], c[i])
  BY CodeLemma DEF Copied
<1>3. Lands(same, m, Targets(c[i]), Operate(m, c[i], t), Operate(n, c[i], t))
  BY <1>1, <1>2, OperateLemma
<1> QED
  BY <1>3 DEF Lands, Parallel

\* The start of a region opens it.
LEMMA TryLemma ==
  ASSUME NEW m, IsRecord(m), NEW a, a.op = "try", NEW t
  PROVE  Operate(m, a, t)
            = MachineOf(m.pc, m.stack, m.vars,
                        Append(m.tries, [end |-> m.pc + a.len, base |-> Len(m.stack)]),
                        m.calls, m.taken, m.end)
<1>1. Operate(m, a, t)
         = [m EXCEPT !.tries = Append(m.tries, [end |-> m.pc + a.len, base |-> Len(m.stack)])]
  BY Zenon DEF Operate
<1> QED
  BY <1>1, ExceptLemma

\* Where a turn leads, and which regions are then open.
LEMMA TurnLemma ==
  ASSUME NEW c, WellFormed(c), NEW m, Runs(c, m), ~AtBoundary(m), NEW t
  PROVE  LET n == Turn(c, t, m) IN
         /\ Sound(n)
         /\ \/ n.end # <<>>
            \/ /\ n.pc \in {m.pc + 1} \cup Targets(c[m.pc]) /\ n.tries = m.tries
               /\ m.pc + 1 \in 1..Len(c)
            \/ /\ m.tries # <<>> /\ n.pc = m.tries[Len(m.tries)].end
               /\ n.tries = Drop(m.tries, 1)
            \/ /\ m.pc \in Regions(c) /\ n.pc = m.pc + 1
               /\ n.tries = Append(m.tries, [end |-> RegionEnd(c, m.pc), base |-> Len(m.stack)])
<1> DEFINE a == c[m.pc]
           m1 == WithPc(m, m.pc + 1)
           n == Turn(c, t, m)
           o == Operate(m1, a, t)
<1>1. m.pc \in 1..Len(c) /\ Sound(m) /\ m.end = <<>>
  BY DEF Runs
<1>2. n = IF Len(m.stack) < Needs(a) THEN Crash(m) ELSE o
  BY Zenon DEF Turn, WithPc
<1>3. Sound(m1) /\ m1.pc = m.pc + 1 /\ m1.stack = m.stack /\ m1.tries = m.tries /\ m1.end = <<>>
  BY <1>1, WithPcLemma
<1> HIDE DEF m1
<1>4. Sound(Crash(m)) /\ Crash(m).end # <<>>
  <2> DEFINE m2 == MachineOf(m.pc, m.stack, m.vars, m.tries, m.calls, m.taken, <<"crashes", Raised>>)
  <2>1. Crash(m) = m2
    BY <1>1, PrimitivesLemma DEF Sound
  <2>2. IsRecord(m2) /\ m2.stack = m.stack /\ m2.tries = m.tries /\ m2.end = <<"crashes", Raised>>
    BY FieldsLemma
  <2>3. <<"crashes", Raised>> # <<>>
    OBVIOUS
  <2> HIDE DEF m2
  <2> QED
    BY <1>1, <2>1, <2>2, <2>3 DEF Sound
<1>5. CASE a.op = "try"
  <2> DEFINE x == [end |-> RegionEnd(c, m.pc), base |-> Len(m.stack)]
             w == Append(m1.tries, x)
             m2 == MachineOf(m1.pc, m1.stack, m1.vars, w, m1.calls, m1.taken, m1.end)
  <2>1. m.pc \in Regions(c) /\ a.len \in Nat /\ m.pc \in Int /\ RegionEnd(c, m.pc) \in Int
    BY <1>1, <1>5, CodeLemma, RegionLemma
  <2>2. Len(m.stack) \in Nat
    BY <1>1, SeqLemma DEF Sound
  <2>3. ~(Len(m.stack) < Needs(a))
    BY <1>5, <2>2 DEF Needs
  <2>4. m1.pc + a.len = RegionEnd(c, m.pc)
    BY <1>3, <2>1 DEF RegionEnd
  <2>5. n = m2
    BY <1>2, <1>3, <1>5, <2>1, <2>3, <2>4, TryLemma DEF Sound
  <2> HIDE DEF w
  <2>6. IsRecord(m2) /\ m2.stack = m1.stack /\ m2.tries = w /\ m2.pc = m1.pc
    BY FieldsLemma
  <2>7. Append(m.tries, x) \in Seq(Region)
    <3>1. x \in Region
      BY <2>1, <2>2 DEF Region
    <3> QED
      BY <1>1, <3>1 DEF Sound
  <2> HIDE DEF m2, x, n
  <2>8. Sound(n) /\ n.pc = m.pc + 1 /\ n.tries = Append(m.tries, x)
    BY <1>3, <2>5, <2>6, <2>7 DEF Sound, w
  <2> QED
    BY <2>1, <2>8 DEF n, x
<1>6. CASE a.op # "try"
  <2>1. Sound(o) /\ LandsOn(m1, Targets(a), o)
    BY <1>1, <1>3, <1>6, OperatedLemma
  <2>2. a.op = "return" => o.end # <<>>
    <3> HAVE a.op = "return"
    <3>1. o = IF m1.stack = <<>> THEN Ends(m1, "returns", Unit) ELSE Ends(Popped(m1), "returns", Top(m1))
      BY Zenon DEF Operate, ReturnTop
    <3>2. IsRecord(m1) /\ IsRecord(Popped(m1))
      <4>1. IsRecord(m1)
        BY <1>3 DEF Sound
      <4> QED
        BY <4>1, PrimitivesLemma, FieldsLemma
    <3>3. Ends(m1, "returns", Unit).end # <<>> /\ Ends(Popped(m1), "returns", Top(m1)).end # <<>>
      BY <3>2, EndsLemma
    <3> HIDE DEF o
    <3> QED
      BY <3>1, <3>3
  <2>3. a.op # "return" => m.pc + 1 \in 1..Len(c)
    BY <1>1, CodeLemma
  <2> HIDE DEF o, n
  <2> QED
    BY <1>2, <1>3, <1>4, <2>1, <2>2, <2>3 DEF LandsOn, n
<1> QED
  BY <1>5, <1>6

\* A turn at the end of a region closes it and goes nowhere.
LEMMA FinishLemma ==
  ASSUME NEW c, WellFormed(c), NEW m, Runs(c, m), AtBoundary(m), NEW t
  PROVE  LET n == Turn(c, t, m) IN
         Runs(c, n) /\ n.pc = m.pc /\ n.tries = Drop(m.tries, 1)
<1> DEFINE n == Turn(c, t, m)
           r == m.tries
           b == r[Len(r)].base
           whole == m.pc = r[Len(r)].end
           base == SubSeq(m.stack, 1, b)
           value == IF Len(m.stack) > b THEN Top(m) ELSE Unit
           s == IF whole THEN Append(base, Ok(value)) ELSE base
           m1 == MachineOf(m.pc, s, m.vars, Drop(r, 1), m.calls, m.taken, m.end)
<1>1. Sound(m) /\ m.end = <<>> /\ m.pc \in 1..Len(c) /\ InRegions(c, m.pc, r) /\ r # <<>>
  BY DEF Runs, AtBoundary
<1>2. n = m1
  BY <1>1, RegionsLemma DEF Turn, Sound, Finished
<1>3. /\ IsRecord(m1) /\ m1.pc = m.pc /\ m1.stack = s /\ m1.tries = Drop(r, 1) /\ m1.end = m.end
  BY FieldsLemma
<1>4. r \in Seq(Region) /\ IsSeq(m.stack)
  BY <1>1 DEF Sound
<1>5. r[Len(r)] \in Region /\ Drop(r, 1) \in Seq(Region)
  BY <1>1, <1>4 DEF Drop
<1>6. b \in Int
  BY <1>5 DEF Region
<1>7. IsSeq(base)
  BY <1>4, <1>6, SeqLemma
<1> HIDE DEF base
<1>8. IsSeq(s)
  BY <1>7, SeqLemma
<1>9. InRegions(c, m.pc, Drop(r, 1))
  BY <1>1, <1>4, OpenLemma
<1> HIDE DEF m1, n, s
<1> QED
  BY <1>1, <1>2, <1>3, <1>5, <1>8, <1>9 DEF Runs, Sound, n

\* A turn keeps an execution of well-formed code in its code and its regions.
LEMMA RunsLemma ==
  ASSUME NEW c, WellFormed(c), NEW m, Runs(c, m), NEW t
  PROVE  LET n == Turn(c, t, m) IN Sound(n) /\ (n.end = <<>> => Runs(c, n))
<1> DEFINE n == Turn(c, t, m)
<1>1. CASE AtBoundary(m)
  BY <1>1, FinishLemma DEF Runs
<1>2. CASE ~AtBoundary(m)
  <2>1. /\ m.pc \in 1..Len(c) /\ m.tries \in Seq(Region) /\ InRegions(c, m.pc, m.tries)
        /\ Sound(m) /\ IsSeq(m.stack)
    BY DEF Runs, Sound
  <2>2. Len(m.stack) \in Int
    BY <2>1, SeqLemma
  <2>3. m.tries # <<>> => /\ m.pc < m.tries[Len(m.tries)].end
                          /\ m.tries[Len(m.tries)].end \in 1..Len(c)
                          /\ InRegions(c, m.tries[Len(m.tries)].end, Drop(m.tries, 1))
    <3> HAVE m.tries # <<>>
    <3>1. /\ m.tries[Len(m.tries)].end \in 1..Len(c)
          /\ InRegions(c, m.tries[Len(m.tries)].end, Drop(m.tries, 1))
      BY <2>1, OpenLemma
    <3> QED
      BY <1>2, <2>1, <3>1, CodeLemma DEF AtBoundary
  <2>4. /\ InRegions(c, m.pc + 1, m.tries)
        /\ Jumps(c[m.pc]) => InRegions(c, c[m.pc].to, m.tries)
        /\ m.pc \in Regions(c) =>
              InRegions(c, m.pc + 1, Append(m.tries, [end |-> RegionEnd(c, m.pc), base |-> Len(m.stack)]))
    BY <2>1, <2>2, <2>3, OpenLemma
  <2>5. ASSUME n.end = <<>>
        PROVE  n.pc \in 1..Len(c) /\ InRegions(c, n.pc, n.tries)
    <3>1. CASE /\ n.pc \in {m.pc + 1} \cup Targets(c[m.pc]) /\ n.tries = m.tries
               /\ m.pc + 1 \in 1..Len(c)
      <4>1. Jumps(c[m.pc]) => c[m.pc].to \in 1..Len(c)
        BY <2>1, CodeLemma
      <4> QED
        BY <2>4, <3>1, <4>1 DEF Targets
    <3>2. CASE /\ m.tries # <<>> /\ n.pc = m.tries[Len(m.tries)].end
               /\ n.tries = Drop(m.tries, 1)
      BY <2>3, <3>2
    <3>3. CASE /\ m.pc \in Regions(c) /\ n.pc = m.pc + 1
               /\ n.tries = Append(m.tries, [end |-> RegionEnd(c, m.pc), base |-> Len(m.stack)])
      <4>1. c[m.pc].op = "try"
        BY <3>3 DEF Regions
      <4>2. m.pc + 1 \in 1..Len(c)
        BY <2>1, <4>1, CodeLemma
      <4> QED
        BY <2>4, <3>3, <4>2
    <3> HIDE DEF n
    <3> QED
      BY <1>2, <2>5, <3>1, <3>2, <3>3, TurnLemma DEF n
  <2>6. Sound(n)
    BY <1>2, TurnLemma
  <2> HIDE DEF n
  <2> QED
    BY <2>5, <2>6 DEF Runs, n
<1> QED
  BY <1>1, <1>2

----------------------------------------------------------------------------
(* What fusion makes of an instruction. *)

\* What a pair is made of: of two overlapping pairs there are none.
LEMMA PairLemma ==
  ASSUME NEW c, WellFormed(c), NEW i \in 1..Len(c), IsPair(c, i)
  PROVE  /\ i + 1 \in 1..Len(c) /\ i + 2 \in 1..(Len(c) + 1) /\ ~TryEnds(c, i + 1)
         /\ \/ c[i].op = "const" /\ c[i + 1].op = "pop" /\ i \notin Kept(c)
            \/ c[i].op = "storeKeep" /\ c[i + 1].op = "pop"
            \/ c[i].op = "binary" /\ c[i + 1].op = "jumpIfFalse"
         /\ i + 1 \notin Kept(c) /\ ~IsPair(c, i + 1)
         /\ Moves(c)[i + 2] = Moves(c)[i + 1]
<1>1. i \in Int /\ i >= 1 /\ DOMAIN c = 1..Len(c) /\ Len(c) \in Nat
  BY CodeLemma
<1>2. /\ i < Len(c) /\ ~TryEnds(c, i + 1)
      /\ \/ c[i].op = "const" /\ c[i + 1].op = "pop"
         \/ c[i].op = "storeKeep" /\ c[i + 1].op = "pop"
         \/ c[i].op = "binary" /\ c[i + 1].op = "jumpIfFalse"
  BY DEF IsPair, Pairs
<1>3. i + 1 \in 1..Len(c) /\ i + 2 \in 1..(Len(c) + 1) /\ i + 1 > 1 /\ (i + 1) - 1 = i /\ (i + 1) + 1 = i + 2
  <2> DEFINE n == Len(c)
  <2>1. i < n /\ n \in Nat
    BY <1>1, <1>2
  <2> HIDE DEF n
  <2>2. i + 1 \in 1..n /\ i + 2 \in 1..(n + 1) /\ i + 1 > 1 /\ (i + 1) - 1 = i /\ (i + 1) + 1 = i + 2
    BY <1>1, <2>1
  <2> QED
    BY <2>2 DEF n
<1>4. i + 1 \notin Kept(c)
  BY <1>1, <1>3 DEF Kept
<1>5. c[i].op = "const" => i \notin Kept(c)
  BY DEF Kept
<1>6. ~IsPair(c, i + 1)
  <2>1. IsPair(c, i + 1) => c[i + 1].op \in {"const", "storeKeep", "binary"}
    BY DEF IsPair, Pairs
  <2> QED
    BY <1>2, <2>1
<1>7. Moves(c)[i + 2] = Moves(c)[i + 1]
  BY <1>3, <1>4, MovesLemma
<1> QED
  BY <1>2, <1>3, <1>4, <1>5, <1>6, <1>7

\* An instruction that is kept becomes a copy of itself, or of its pair.
LEMMA InstLemma ==
  ASSUME NEW c, WellFormed(c), NEW i \in Kept(c)
  PROVE  LET a == c[i]
             b == Fused(c)[Moves(c)[i]]
         IN  /\ ~IsPair(c, i) /\ a.op # "try" => Copied(Moves(c), a, b) /\ Needs(b) = Needs(a)
             /\ a.op = "try" => /\ b.op = "try" /\ Needs(b) = 0
                                /\ b.len = Moves(c)[RegionEnd(c, i)] - Moves(c)[i] - 1
             /\ IsPair(c, i) /\ a.op = "storeKeep" => b.op = "store" /\ b.name = a.name
             /\ IsPair(c, i) /\ a.op = "binary" =>
                   /\ b.op = "jumpIfCmpFalse" /\ b.fun = a.fun
                   /\ b.left = a.left /\ b.right = a.right /\ b.to = Moves(c)[c[i + 1].to]
<1> DEFINE a == c[i]
           M == Moves(c)
           b == Fused(c)[M[i]]
<1>1. b = Relocated(M, i, FusedInst(c, i))
  BY FusedLemma
<1> HIDE DEF M, b
<1>2. i \in 1..Len(c)
  BY MovesLemma
<1>3. Fits(c, i) /\ a.op \in Ops /\ DOMAIN a = Fields(a.op)
      /\ (Jumps(a) => a.to \in 1..Len(c)) /\ (a.op = "makeList" => a.n \in Nat)
  BY <1>2, CodeLemma
<1>4. a = [f \in DOMAIN a |-> a[f]]
  BY <1>3 DEF Fits
<1>5. Jumps(a) <=> a.op \in JumpOps
  BY <1>3, JumpsLemma
<1>6. ~IsPair(c, i) => FusedInst(c, i) = a
  <2>1. ~(a.op = "jumpIfFalse" /\ ToNext(c, i))
    <3>1. a.op = "jumpIfFalse" /\ ToNext(c, i) => i > 1 /\ IsPair(c, i - 1)
      BY <1>2 DEF WellFormed, BranchesSomewhere
    <3> QED
      BY <3>1 DEF Kept
  <2> QED
    BY <2>1, Zenon DEF FusedInst
<1>7. ASSUME ~IsPair(c, i), a.op # "try"
      PROVE  Copied(M, a, b) /\ Needs(b) = Needs(a)
  <2>1. b = IF Jumps(a) THEN [a EXCEPT !.to = M[a.to]] ELSE a
    BY <1>1, <1>6, <1>7, Zenon DEF Relocated
  <2>2. Jumps(a) => "to" \in DOMAIN a
    BY DEF Jumps
  <2>3. /\ \A f \in DOMAIN a \ {"to"} : b[f] = a[f]
        /\ Jumps(a) => b.to = M[a.to]
    BY <1>4, <2>1, <2>2
  <2>4. "op" \in DOMAIN a \ {"to"} /\ (a.op = "makeList" => "n" \in DOMAIN a \ {"to"})
    BY <1>3 DEF Fields, Ops
  <2>5. b.op = a.op /\ (a.op = "makeList" => b.n = a.n)
    BY <2>3, <2>4
  <2>6. Copied(M, a, b)
    BY <1>3, <2>3, <2>5 DEF Copied
  <2>7. Needs(b) = Needs(a)
    BY <2>5, Zenon DEF Needs
  <2> QED
    BY <2>6, <2>7
<1>8. ASSUME a.op = "try"
      PROVE  b.op = "try" /\ b.len = M[RegionEnd(c, i)] - M[i] - 1 /\ Needs(b) = 0
  <2>1. ~IsPair(c, i)
    BY <1>8 DEF IsPair, Pairs
  <2>2. ~Jumps(a)
    BY <1>5, <1>8 DEF JumpOps
  <2>3. b = Try(M[i + 1 + a.len] - M[i] - 1)
    BY <1>1, <1>6, <1>8, <2>1, <2>2, Zenon DEF Relocated
  <2>4. b.op = "try" /\ b.len = M[RegionEnd(c, i)] - M[i] - 1
    BY <2>3 DEF Try, RegionEnd
  <2> QED
    BY <2>4 DEF Needs
<1>9. ASSUME IsPair(c, i), a.op = "storeKeep"
      PROVE  b.op = "store" /\ b.name = a.name
  <2>1. FusedInst(c, i) = Store(a.name)
    BY <1>9, Zenon DEF FusedInst
  <2>2. b = Store(a.name)
    BY <1>1, <2>1 DEF Relocated, Store, Jumps
  <2> QED
    BY <2>2 DEF Store
<1>10. ASSUME IsPair(c, i), a.op = "binary"
       PROVE  /\ b.op = "jumpIfCmpFalse" /\ b.fun = a.fun
              /\ b.left = a.left /\ b.right = a.right /\ b.to = M[c[i + 1].to]
  <2> DEFINE to == c[i + 1].to
             x == JumpIfCmpFalse(a.fun, a.left, a.right, to)
  <2>1. FusedInst(c, i) = x
    BY <1>10, Zenon DEF FusedInst
  <2>2. Jumps(x) /\ x.to = to /\ x.op # "try"
    BY DEF JumpIfCmpFalse, Jumps
  <2> HIDE DEF x
  <2>3. b = [x EXCEPT !.to = M[x.to]]
    <3>1. b = Relocated(M, i, x) /\ Jumps(x) /\ x.op # "try"
      BY <1>1, <2>1, <2>2
    <3>2. Jumps(x) /\ x.op # "try" => Relocated(M, i, x) = [x EXCEPT !.to = M[x.to]]
      BY Zenon DEF Relocated
    <3> QED
      BY <3>1, <3>2
  <2>4. b = JumpIfCmpFalse(a.fun, a.left, a.right, M[to])
    BY <2>2, <2>3 DEF JumpIfCmpFalse, x
  <2> QED
    BY <2>4 DEF JumpIfCmpFalse
<1> QED
  BY <1>7, <1>8, <1>9, <1>10 DEF M, b

----------------------------------------------------------------------------
(* A turn of the code before fusion is one of the code after it, or none. *)

\* One is half way through a pair only after its first half.
LEMMA HalfWayLemma ==
  ASSUME NEW c, WellFormed(c), ~JumpsIntoPair(c), NEW m, Runs(c, m), ~AtBoundary(m), NEW t
  PROVE  LET n == Turn(c, t, m) IN
         HalfWay(c, n) => IsPair(c, m.pc) /\ n.pc = m.pc + 1 /\ ~AtBoundary(n)
<1> DEFINE n == Turn(c, t, m)
           p == m.pc
           r == m.tries
<1>1. p \in 1..Len(c) /\ r \in Seq(Region) /\ InRegions(c, p, r)
  BY DEF Runs, Sound
<1>2. r # <<>> => r[Len(r)].end \in 1..Len(c) /\ TryEnds(c, r[Len(r)].end)
  BY <1>1, OpenLemma
<1>3. p \in Int /\ DOMAIN c = 1..Len(c) /\ Len(c) \in Nat
  BY <1>1, CodeLemma
<1>4. \/ n.end # <<>>
      \/ n.pc = p + 1 /\ n.tries = r
      \/ Jumps(c[p]) /\ n.pc = c[p].to /\ c[p].to \in 1..Len(c)
      \/ r # <<>> /\ n.pc = r[Len(r)].end
      \/ p \in Regions(c) /\ n.pc = p + 1
  <2>1. Jumps(c[p]) => c[p].to \in 1..Len(c)
    BY <1>1, CodeLemma
  <2> HIDE DEF n
  <2> QED
    BY <2>1, TurnLemma DEF Targets, n
<1> HIDE DEF n
<1>5. ASSUME HalfWay(c, n)
      PROVE  IsPair(c, p) /\ n.pc = p + 1 /\ ~AtBoundary(n)
  <2>1. n.end = <<>> /\ n.pc > 1 /\ IsPair(c, n.pc - 1)
    BY <1>5 DEF HalfWay
  <2>2. \A i : IsPair(c, i) => /\ i < Len(c) /\ ~TryEnds(c, i + 1) /\ c[i].op # "try"
    BY DEF IsPair, Pairs
  <2>3. CASE n.pc = p + 1 /\ n.tries = r
    <3>1. IsPair(c, p) /\ ~TryEnds(c, p + 1)
      <4>1. n.pc - 1 = p
        BY <1>3, <2>3
      <4> QED
        BY <2>1, <2>2, <4>1
    <3>2. ~AtBoundary(n)
      <4> SUFFICES ASSUME r # <<>>
                   PROVE  ~(p + 1 >= r[Len(r)].end)
        BY <2>3 DEF AtBoundary
      <4>1. r[Len(r)].end # p + 1 /\ r[Len(r)].end \in Int
        BY <1>2, <3>1
      <4>2. ~(p >= r[Len(r)].end)
        BY DEF AtBoundary
      <4> QED
        BY <1>3, <4>1, <4>2
    <3> QED
      BY <2>3, <3>1, <3>2
  <2>4. CASE Jumps(c[p]) /\ n.pc = c[p].to /\ c[p].to \in 1..Len(c)
    <3> DEFINE i == n.pc - 1
    <3>1. n.pc \in Int /\ i \in 1..Len(c) /\ n.pc = i + 1
      <4>1. n.pc \in 1..Len(c)
        BY <2>4
      <4> QED
        BY <1>3, <2>1, <4>1
    <3>2. IsPair(c, i) /\ Jumps(c[p]) /\ c[p].to = i + 1
      BY <2>1, <2>4, <3>1
    <3> QED
      BY <1>1, <1>3, <3>1, <3>2 DEF JumpsIntoPair
  <2>5. CASE r # <<>> /\ n.pc = r[Len(r)].end
    <3>1. n.pc \in Int /\ TryEnds(c, n.pc)
      BY <1>2, <2>5
    <3>2. (n.pc - 1) + 1 = n.pc
      BY <3>1
    <3> QED
      BY <2>1, <2>2, <3>1, <3>2
  <2>6. CASE p \in Regions(c) /\ n.pc = p + 1
    <3>1. n.pc - 1 = p /\ c[p].op = "try"
      BY <1>3, <2>6 DEF Regions
    <3> QED
      BY <2>1, <2>2, <3>1
  <2> QED
    BY <1>4, <2>1, <2>3, <2>4, <2>5, <2>6
<1> QED
  BY <1>5 DEF n

\* A region ends at the new addresses when it ends at the old ones.
LEMMA BoundaryLemma ==
  ASSUME NEW c, WellFormed(c), NEW m, Runs(c, m), NEW t
  PROVE  LET k == Readdressed(Moves(c), m) IN
         /\ AtBoundary(m) => /\ AtBoundary(k)
                             /\ Readdressed(Moves(c), Turn(c, t, m)) = FinishTry(k)
         /\ ~AtBoundary(m) /\ m.pc \in Kept(c) => ~AtBoundary(k)
<1> DEFINE M == Moves(c)
           k == Readdressed(M, m)
           r == m.tries
           q == k.tries
           e == r[Len(r)].end
           b == r[Len(r)].base
<1>1. Sound(m) /\ m.pc \in 1..Len(c) /\ InRegions(c, m.pc, r) /\ r \in Seq(Region) /\ IsSeq(m.stack) /\ IsRecord(m)
  BY DEF Runs, Sound
<1>2. Parallel(M, m, k)
  BY <1>1 DEF Parallel
<1> HIDE DEF k, M
<1>3. /\ IsRecord(k) /\ k.pc = M[m.pc] /\ k.stack = m.stack /\ k.vars = m.vars /\ q = MovedTries(M, r)
      /\ k.calls = m.calls /\ k.taken = m.taken /\ k.end = m.end /\ Top(k) = Top(m)
  BY <1>2, ParallelLemma
<1>4. /\ (q = <<>> <=> r = <<>>)
      /\ r # <<>> => /\ q[Len(q)].end = M[e] /\ q[Len(q)].base = b
                     /\ Drop(q, 1) = MovedTries(M, Drop(r, 1))
  BY <1>1, <1>3, MovedTriesLemma
<1>5. r # <<>> => /\ e \in 1..Len(c) /\ e \in Int
                  /\ m.pc >= e => m.pc = e \/ \E j \in Kept(c) : e <= j /\ j < m.pc
  BY <1>1, OpenLemma
<1>6. /\ m.pc \in Int /\ m.pc \in 1..(Len(c) + 1) /\ M[m.pc] \in Int
      /\ r # <<>> => e \in 1..(Len(c) + 1) /\ M[e] \in Int
  <2>1. m.pc \in Int /\ m.pc \in 1..(Len(c) + 1) /\ Len(c) \in Nat
    BY <1>1, CodeLemma
  <2>2. \A p \in 1..Len(c) : p \in 1..(Len(c) + 1)
    BY <2>1
  <2>3. \A p \in 1..(Len(c) + 1) : M[p] \in 1..(Cardinality(Kept(c)) + 1)
    BY MovesLemma DEF M
  <2>4. \A p \in 1..(Len(c) + 1) : M[p] \in Int
    BY <2>3
  <2> QED
    BY <1>5, <2>1, <2>2, <2>4
<1>7. ASSUME ~AtBoundary(m), m.pc \in Kept(c)
      PROVE  ~AtBoundary(k)
  <2>1. r # <<>> => m.pc < e
    BY <1>5, <1>6, <1>7 DEF AtBoundary
  <2>2. r # <<>> => M[m.pc] < M[e]
    BY <1>6, <1>7, <2>1, MovesLemma DEF M
  <2> QED
    BY <1>3, <1>4, <1>6, <2>2 DEF AtBoundary
<1>8. ASSUME AtBoundary(m)
      PROVE  AtBoundary(k) /\ Readdressed(M, Turn(c, t, m)) = FinishTry(k)
  <2>1. r # <<>> /\ m.pc >= e
    BY <1>8 DEF AtBoundary
  <2>2. M[e] <= M[m.pc]
    BY <1>5, <1>6, <2>1, MovesLemma DEF M
  <2>3. m.pc = e <=> M[m.pc] = M[e]
    <3>1. CASE m.pc = e
      BY <3>1
    <3>2. CASE m.pc # e
      <4>1. PICK j \in Kept(c) : e <= j /\ j < m.pc
        BY <1>5, <2>1, <3>2
      <4>2. M[e] < M[m.pc]
        BY <1>6, <2>1, <4>1, MovesLemma DEF M
      <4> QED
        BY <1>6, <2>1, <3>2, <4>2
    <3> QED
      BY <3>1, <3>2
  <2>4. AtBoundary(k)
    BY <1>3, <1>4, <1>6, <2>1, <2>2 DEF AtBoundary
  <2> DEFINE whole == m.pc = e
             base == SubSeq(m.stack, 1, b)
             value == IF Len(m.stack) > b THEN Top(m) ELSE Unit
             s == IF whole THEN Append(base, Ok(value)) ELSE base
             m1 == MachineOf(m.pc, s, m.vars, Drop(r, 1), m.calls, m.taken, m.end)
  <2>5. Turn(c, t, m) = m1
    BY <1>1, <1>8, RegionsLemma DEF Turn, Finished
  <2>6. FinishTry(k) = MachineOf(M[m.pc], s, m.vars, MovedTries(M, Drop(r, 1)), m.calls, m.taken, m.end)
    <3>1. FinishTry(k) = Finished(k, q, k.pc = q[Len(q)].end)
      BY <1>3, RegionsLemma
    <3>2. (k.pc = q[Len(q)].end) = whole
      BY <1>3, <1>4, <2>1, <2>3
    <3>3. /\ q[Len(q)].base = b /\ Drop(q, 1) = MovedTries(M, Drop(r, 1))
      BY <1>4, <2>1
    <3> HIDE DEF whole
    <3>4. Finished(k, q, whole)
             = MachineOf(M[m.pc], s, m.vars, MovedTries(M, Drop(r, 1)), m.calls, m.taken, m.end)
      BY <1>3, <3>3, Zenon DEF Finished
    <3> QED
      BY <3>1, <3>2, <3>4
  <2>7. IsRecord(m1) /\ m1.pc = m.pc /\ m1.stack = s /\ m1.vars = m.vars /\ m1.tries = Drop(r, 1)
        /\ m1.calls = m.calls /\ m1.taken = m.taken /\ m1.end = m.end
    <3> HIDE DEF s
    <3> QED
      BY FieldsLemma
  <2> HIDE DEF m1, s
  <2>8. Readdressed(M, m1) = MachineOf(M[m.pc], s, m.vars, MovedTries(M, Drop(r, 1)), m.calls, m.taken, m.end)
    BY <2>7, ReaddressedLemma
  <2> QED
    BY <2>4, <2>5, <2>6, <2>8
<1> QED
  BY <1>7, <1>8 DEF k, M

\* A comparison does not look at the address.
LEMMA ElsewhereLemma ==
  ASSUME NEW m, Sound(m), NEW p, NEW a
  PROVE  LET o == Operands(m, a)
             u == Operands(WithPc(m, p), a)
         IN  \/ o = <<>> /\ u = <<>>
             \/ /\ o # <<>> /\ u # <<>> /\ u[2] = o[2] /\ u[3] = o[3] /\ u[1] = WithPc(o[1], p)
                /\ Sound(o[1]) /\ o[1].pc = m.pc /\ o[1].tries = m.tries /\ o[1].end = m.end
<1> DEFINE l == a.left
           r == a.right
           n == WithPc(m, p)
           s1 == Drop(m.stack, Depth(r))
           s2 == Drop(s1, Depth(l))
           m1 == WithStack(m, s1)
           n1 == WithStack(n, s1)
           m2 == WithStack(m1, s2)
           n2 == WithStack(n1, s2)
<1>1. /\ IsRecord(m) /\ IsRecord(n) /\ n.pc = p /\ n.stack = m.stack /\ n.vars = m.vars /\ n.tries = m.tries
      /\ n.calls = m.calls /\ n.taken = m.taken /\ n.end = m.end /\ IsSeq(m.stack)
  BY WithPcLemma DEF Sound
<1> HIDE DEF n
<1>2. /\ m1 = MachineOf(m.pc, s1, m.vars, m.tries, m.calls, m.taken, m.end)
      /\ n1 = MachineOf(p, s1, m.vars, m.tries, m.calls, m.taken, m.end)
  BY <1>1, WithLemma
<1> HIDE DEF s1, m1, n1
<1>3. /\ IsRecord(m1) /\ m1.pc = m.pc /\ m1.stack = s1 /\ m1.vars = m.vars /\ m1.tries = m.tries
      /\ m1.calls = m.calls /\ m1.taken = m.taken /\ m1.end = m.end
  BY <1>2, FieldsLemma
<1>4. /\ IsRecord(n1) /\ n1.pc = p /\ n1.stack = s1 /\ n1.vars = m.vars /\ n1.tries = m.tries
      /\ n1.calls = m.calls /\ n1.taken = m.taken /\ n1.end = m.end
  BY <1>2, FieldsLemma
<1>5. /\ Operand(n, r) = Operand(m, r) /\ Operand(n1, l) = Operand(m1, l)
  BY <1>1, <1>3, <1>4 DEF Operand, Top
<1>6. /\ Operands(m, a) = IF Len(m.stack) < Depth(l) + Depth(r) THEN <<>>
                          ELSE <<WithStack(m1, Drop(m1.stack, Depth(l))), Operand(m1, l), Operand(m, r)>>
      /\ Operands(n, a) = IF Len(n.stack) < Depth(l) + Depth(r) THEN <<>>
                          ELSE LET n3 == WithStack(n, Drop(n.stack, Depth(r)))
                               IN  <<WithStack(n3, Drop(n3.stack, Depth(l))), Operand(n3, l), Operand(n, r)>>
  <2>1. Operands(m, a) = IF Len(m.stack) < Depth(l) + Depth(r) THEN <<>>
                          ELSE <<WithStack(m1, Drop(m1.stack, Depth(l))), Operand(m1, l), Operand(m, r)>>
    BY Zenon DEF Operands, WithStack, m1, s1
  <2>2. Operands(n, a) = IF Len(n.stack) < Depth(l) + Depth(r) THEN <<>>
                          ELSE LET n3 == WithStack(n, Drop(n.stack, Depth(r)))
                               IN  <<WithStack(n3, Drop(n3.stack, Depth(l))), Operand(n3, l), Operand(n, r)>>
    BY Zenon DEF Operands, WithStack
  <2> QED
    BY <2>1, <2>2
<1>7. n1 = WithStack(n, Drop(n.stack, Depth(r)))
  BY <1>1, Zenon DEF n1, s1
<1>8. /\ Operands(m, a) = IF Len(m.stack) < Depth(l) + Depth(r) THEN <<>>
                          ELSE <<m2, Operand(m1, l), Operand(m, r)>>
      /\ Operands(n, a) = IF Len(m.stack) < Depth(l) + Depth(r) THEN <<>>
                          ELSE <<n2, Operand(m1, l), Operand(m, r)>>
  BY <1>1, <1>3, <1>4, <1>5, <1>6, <1>7, Zenon
<1>9. IsSeq(s2)
  <2>1. \A x, d : IsSeq(x) /\ d \in {0, 1} => IsSeq(Drop(x, d))
    <3> SUFFICES ASSUME NEW x, NEW d, IsSeq(x), d \in {0, 1}
                 PROVE  IsSeq(Drop(x, d))
      OBVIOUS
    <3>1. Len(x) - d \in Int
      BY SeqLemma
    <3> QED
      BY <3>1, SeqLemma DEF Drop
  <2>2. Depth(l) \in {0, 1} /\ Depth(r) \in {0, 1}
    BY DEF Depth
  <2> QED
    BY <1>1, <2>1, <2>2 DEF s1
<1> HIDE DEF s2
<1>10. /\ m2 = MachineOf(m.pc, s2, m.vars, m.tries, m.calls, m.taken, m.end)
       /\ n2 = MachineOf(p, s2, m.vars, m.tries, m.calls, m.taken, m.end)
  BY <1>3, <1>4, WithLemma
<1> HIDE DEF m2, n2
<1>11. /\ IsRecord(m2) /\ m2.pc = m.pc /\ m2.stack = s2 /\ m2.vars = m.vars /\ m2.tries = m.tries
       /\ m2.calls = m.calls /\ m2.taken = m.taken /\ m2.end = m.end
  BY <1>10, FieldsLemma
<1>12. n2 = WithPc(m2, p) /\ Sound(m2)
  <2>1. n2 = WithPc(m2, p)
    BY <1>10, <1>11, WithLemma
  <2> QED
    BY <1>9, <1>11, <2>1 DEF Sound
<1>13. \A x, y, z : <<x, y, z>> # <<>>
  OBVIOUS
<1> QED
  BY <1>8, <1>11, <1>12, <1>13 DEF n

\* A turn that executes an instruction.
LEMMA ExecutesLemma ==
  ASSUME NEW c, NEW m, ~AtBoundary(m), NEW t
  PROVE  Turn(c, t, m) = IF Len(m.stack) < Needs(c[m.pc]) THEN Crash(m)
                         ELSE Operate(WithPc(m, m.pc + 1), c[m.pc], t)
BY Zenon DEF Turn, WithPc

\* The second half of a pair that is a pop.
LEMMA PopLemma ==
  ASSUME NEW c, NEW m, Sound(m), m.pc \in Int, ~AtBoundary(m), c[m.pc].op = "pop", m.stack # <<>>, NEW t
  PROVE  Turn(c, t, m)
            = MachineOf(m.pc + 1, Drop(m.stack, 1), m.vars, m.tries, m.calls, m.taken, m.end)
<1> DEFINE m1 == WithPc(m, m.pc + 1)
<1>1. /\ IsRecord(m1) /\ m1.pc = m.pc + 1 /\ m1.stack = m.stack /\ m1.vars = m.vars
      /\ m1.tries = m.tries /\ m1.calls = m.calls /\ m1.taken = m.taken /\ m1.end = m.end
  BY WithPcLemma DEF Sound
<1> HIDE DEF m1
<1>2. Operate(m1, c[m.pc], t) = IF m1.stack = <<>> THEN m1 ELSE Popped(m1)
  BY Zenon DEF Operate
<1>3. ~(Len(m.stack) < Needs(c[m.pc]))
  <2>1. Needs(c[m.pc]) = 0
    BY DEF Needs
  <2>2. Len(m.stack) \in Nat
    BY SeqLemma DEF Sound
  <2> QED
    BY <2>1, <2>2
<1>4. Turn(c, t, m) = Popped(m1)
  BY <1>1, <1>2, <1>3, ExecutesLemma DEF m1
<1> QED
  BY <1>1, <1>4, PrimitivesLemma

\* Something was pushed.
LEMMA PushedLemma ==
  ASSUME NEW s, IsSeq(s), NEW v
  PROVE  Append(s, v) # <<>> /\ Len(Append(s, v)) \in Nat /\ Len(Append(s, v)) >= 1
<1>1. Len(s) \in Nat /\ Len(Append(s, v)) = Len(s) + 1
  BY SeqLemma
<1>2. Len(<<>>) = 0
  OBVIOUS
<1> HIDE DEF IsSeq
<1> QED
  BY <1>1, <1>2

\* What fusion removes, the code before it does for nothing: a jump to the next
\* instruction, or a constant that is popped.
LEMMA RemovedLemma ==
  ASSUME NEW c, WellFormed(c), ~JumpsIntoPair(c), NEW m, Runs(c, m), ~HalfWay(c, m),
         ~AtBoundary(m), m.pc \notin Kept(c), NEW t
  PROVE  AfterFusion(c, t, Turn(c, t, m)) = Readdressed(Moves(c), m)
<1> DEFINE p == m.pc
           a == c[p]
           M == Moves(c)
           n == Turn(c, t, m)
           m1 == WithPc(m, p + 1)
           same == MachineOf(M[p], m.stack, m.vars, MovedTries(M, m.tries), m.calls, m.taken, m.end)
<1>1. Sound(m) /\ m.end = <<>> /\ p \in 1..Len(c) /\ IsRecord(m) /\ IsSeq(m.stack)
  BY DEF Runs, Sound
<1>2. p \in Int /\ p >= 1 /\ DOMAIN c = 1..Len(c) /\ M[p + 1] = M[p]
  BY <1>1, CodeLemma, MovesLemma
<1>3. Readdressed(M, m) = same
  BY <1>1, ReaddressedLemma
<1>4. (IsPair(c, p) /\ a.op = "const") \/ (a.op = "jump" /\ ToNext(c, p))
  BY <1>1, <1>2 DEF Kept, HalfWay
<1>5. /\ Sound(m1) /\ IsRecord(m1) /\ m1.pc = p + 1 /\ m1.stack = m.stack /\ m1.vars = m.vars
      /\ m1.tries = m.tries /\ m1.calls = m.calls /\ m1.taken = m.taken /\ m1.end = m.end
  BY <1>1, WithPcLemma DEF Sound
<1> HIDE DEF same, m1
<1>6. n = Operate(m1, a, t)
  <2>1. Needs(a) = 0
    BY <1>4 DEF Needs
  <2>2. Len(m.stack) \in Nat
    BY <1>1, SeqLemma
  <2>3. ~(Len(m.stack) < Needs(a))
    BY <2>1, <2>2
  <2> QED
    BY <2>3, ExecutesLemma DEF m1
<1>7. CASE a.op = "jump" /\ ToNext(c, p)
  <2>1. n = WithPc(m1, p + 1)
    <3>1. Operate(m1, a, t) = WithPc(m1, a.to)
      BY <1>7, Zenon DEF Operate, WithPc
    <3>2. a.to = p + 1
      BY <1>7 DEF ToNext
    <3> QED
      BY <1>6, <3>1, <3>2
  <2>2. ~HalfWay(c, n)
    <3>1. ~IsPair(c, p)
      BY <1>7 DEF IsPair, Pairs
    <3> QED
      BY <3>1, HalfWayLemma
  <2>3. AfterFusion(c, t, n) = Readdressed(M, n)
    BY <2>2 DEF AfterFusion
  <2> HIDE DEF n
  <2>4. /\ IsRecord(n) /\ n.pc = p + 1 /\ n.stack = m.stack /\ n.vars = m.vars
        /\ n.tries = m.tries /\ n.calls = m.calls /\ n.taken = m.taken /\ n.end = m.end
    BY <1>5, <2>1, WithPcLemma DEF Sound
  <2>5. Readdressed(M, n) = same
    BY <1>2, <2>4, ReaddressedLemma DEF same
  <2> QED
    BY <1>3, <2>3, <2>5 DEF n
<1>8. CASE IsPair(c, p) /\ a.op = "const"
  <2> DEFINE s == Append(m.stack, a.val)
             z == Turn(c, t, n)
  <2>1. n = MachineOf(p + 1, s, m.vars, m.tries, m.calls, m.taken, m.end)
    <3>1. Operate(m1, a, t) = Push(m1, a.val)
      BY <1>8, Zenon DEF Operate
    <3> QED
      BY <1>5, <1>6, <3>1, PrimitivesLemma
  <2>2. s # <<>> /\ IsSeq(s) /\ Drop(s, 1) = m.stack
    BY <1>1, SeqLemma, PushedLemma
  <2>3. c[p + 1].op = "pop" /\ M[p + 2] = M[p + 1]
    BY <1>1, <1>8, PairLemma
  <2>4. HalfWay(c, n) => ~AtBoundary(n)
    BY HalfWayLemma
  <2>5. AfterFusion(c, t, n) = Readdressed(M, IF HalfWay(c, n) THEN z ELSE n)
    BY Zenon DEF AfterFusion
  <2> HIDE DEF n, s
  <2>6. /\ IsRecord(n) /\ n.pc = p + 1 /\ n.stack = s /\ n.vars = m.vars
        /\ n.tries = m.tries /\ n.calls = m.calls /\ n.taken = m.taken /\ n.end = m.end
    BY <2>1, FieldsLemma
  <2>7. HalfWay(c, n)
    <3>1. p + 1 > 1 /\ (p + 1) - 1 = p
      BY <1>2
    <3> QED
      BY <1>1, <1>8, <2>6, <3>1 DEF HalfWay
  <2>8. Sound(n) /\ n.pc \in Int
    BY <1>1, <1>2, <2>2, <2>6 DEF Sound
  <2>9. z = MachineOf(n.pc + 1, Drop(n.stack, 1), n.vars, n.tries, n.calls, n.taken, n.end)
    BY <2>2, <2>3, <2>4, <2>6, <2>7, <2>8, PopLemma
  <2>10. (p + 1) + 1 = p + 2
    BY <1>2
  <2>11. z = MachineOf(p + 2, m.stack, m.vars, m.tries, m.calls, m.taken, m.end)
    BY <2>2, <2>6, <2>9, <2>10
  <2> HIDE DEF z
  <2>12. /\ IsRecord(z) /\ z.pc = p + 2 /\ z.stack = m.stack /\ z.vars = m.vars
         /\ z.tries = m.tries /\ z.calls = m.calls /\ z.taken = m.taken /\ z.end = m.end
    BY <2>11, FieldsLemma
  <2>13. Readdressed(M, z) = same
    BY <1>2, <2>3, <2>12, ReaddressedLemma DEF same
  <2> QED
    BY <1>3, <2>5, <2>7, <2>13 DEF n
<1> QED
  BY <1>4, <1>7, <1>8

\* A turn at an instruction that is kept, with the second half of a pair, is one
\* turn of the fused code.
LEMMA KeptLemma ==
  ASSUME NEW c, WellFormed(c), ~JumpsIntoPair(c), NEW m, Runs(c, m), ~HalfWay(c, m),
         ~AtBoundary(m), m.pc \in Kept(c), NEW t
  PROVE  AfterFusion(c, t, Turn(c, t, m)) = Turn(Fused(c), t, Readdressed(Moves(c), m))
<1> DEFINE p == m.pc
           a == c[p]
           M == Moves(c)
           k == Readdressed(M, m)
           f == Fused(c)
           b == f[k.pc]
           n == Turn(c, t, m)
           o == Turn(f, t, k)
           m1 == WithPc(m, p + 1)
           k1 == WithPc(k, k.pc + 1)
<1>1. Sound(m) /\ m.end = <<>> /\ p \in 1..Len(c) /\ IsRecord(m) /\ IsSeq(m.stack) /\ m.tries \in Seq(Region)
  BY DEF Runs, Sound
<1>2. p \in Int /\ p >= 1 /\ DOMAIN c = 1..Len(c) /\ Len(c) \in Nat /\ p + 1 > 1 /\ (p + 1) - 1 = p /\ (p + 1) + 1 = p + 2
  <2>1. p \in Int /\ p >= 1 /\ DOMAIN c = 1..Len(c) /\ Len(c) \in Nat
    BY <1>1, CodeLemma
  <2> QED
    BY <2>1
<1>3. M[p + 1] = M[p] + 1
  BY <1>1, MovesLemma
<1>4. Computes(M, m, m, k)
  BY <1>1 DEF Computes, Parallel
<1>5. AtBoundary(k) = FALSE
  BY BoundaryLemma
<1> HIDE DEF M, k
<1>6. /\ k.pc = M[p] /\ k.stack = m.stack /\ IsRecord(k) /\ k.vars = m.vars
      /\ k.tries = MovedTries(M, m.tries) /\ k.calls = m.calls /\ k.taken = m.taken /\ k.end = m.end
  BY <1>4, ParallelLemma DEF Computes
\* From an address that moves where the next instruction of the fused code is.
<1>7. ASSUME NEW q, M[q] = M[p] + 1
      PROVE  /\ Computes(M, WithPc(m, q), WithPc(m, q), k1)
             /\ Sound(WithPc(m, q))
  <2>1. /\ Sound(WithPc(m, q)) /\ WithPc(m, q).end = m.end
    BY <1>1, WithPcLemma
  <2>2. WithPc(m, q) = MachineOf(q, m.stack, m.vars, m.tries, m.calls, m.taken, m.end)
    BY <1>1, WithLemma
  <2>3. k1 = MachineOf(M[q], m.stack, m.vars, MovedTries(M, m.tries), m.calls, m.taken, m.end)
    BY <1>6, <1>7, WithLemma
  <2>4. Parallel(M, WithPc(m, q), k1)
    BY <1>1, <2>2, <2>3, MakesParallel
  <2> QED
    BY <1>1, <2>1, <2>4 DEF Computes
<1>8. Computes(M, m1, m1, k1) /\ Sound(m1)
  BY <1>3, <1>7
<1>9. /\ Sound(m1) /\ IsRecord(m1) /\ m1.pc = p + 1 /\ m1.stack = m.stack /\ m1.vars = m.vars
      /\ m1.tries = m.tries /\ m1.calls = m.calls /\ m1.taken = m.taken /\ m1.end = m.end
  BY <1>1, WithPcLemma DEF Sound
<1>10. /\ n = IF Len(m.stack) < Needs(a) THEN Crash(m) ELSE Operate(m1, a, t)
       /\ o = IF Len(m.stack) < Needs(b) THEN Crash(k) ELSE Operate(k1, b, t)
  BY <1>5, <1>6, ExecutesLemma
<1> HIDE DEF m1, k1
<1>11. ASSUME NEW q
       PROVE  AfterFusion(c, t, q) = Readdressed(M, IF HalfWay(c, q) THEN Turn(c, t, q) ELSE q)
  BY Zenon DEF AfterFusion, M
<1>12. ASSUME NEW q, NEW v, Parallel(M, q, v), q.end # <<>>
       PROVE  AfterFusion(c, t, q) = v
  BY <1>11, <1>12 DEF Parallel, HalfWay
<1>13. \A i, x : Computes(M, i, i, x) => Parallel(M, Crash(i), Crash(x)) /\ Crash(i).end # <<>>
  <2> SUFFICES ASSUME NEW i, NEW x, Computes(M, i, i, x)
               PROVE  Parallel(M, Crash(i), Crash(x)) /\ Crash(i).end # <<>>
    OBVIOUS
  <2>1. Parallel(M, Crash(i), Crash(x))
    BY GoesLemma DEF Lands
  <2>2. IsRecord(i)
    BY ParallelLemma DEF Computes
  <2> QED
    BY <2>1, <2>2, EndsLemma DEF Crash
<1>14. b = Fused(c)[Moves(c)[p]]
  BY <1>6 DEF M
<1>15. CASE ~IsPair(c, p) /\ a.op # "try"
  <2>1. Copied(M, a, b) /\ Needs(b) = Needs(a)
    BY <1>14, <1>15, InstLemma DEF M
  <2>2. Parallel(M, Operate(m1, a, t), Operate(k1, b, t))
    BY <1>8, <1>15, <2>1, OperateLemma DEF Lands
  <2>3. Parallel(M, Crash(m), Crash(k))
    BY <1>4, <1>13
  <2>4. Parallel(M, n, o)
    BY <1>10, <2>1, <2>2, <2>3
  <2>5. ~HalfWay(c, n)
    BY <1>15, HalfWayLemma
  <2> HIDE DEF n, o
  <2>6. AfterFusion(c, t, n) = o
    BY <1>11, <2>4, <2>5 DEF Parallel
  <2> QED
    BY <2>6 DEF n, o, f, k, M
<1>16. CASE a.op = "try"
  <2> DEFINE e == RegionEnd(c, p)
             x == Append(m.tries, [end |-> e, base |-> Len(m.stack)])
             d == b.len
  <2>1. b.op = "try" /\ Needs(b) = 0 /\ d = M[e] - M[p] - 1
    BY <1>14, <1>16, InstLemma DEF M
  <2>2. p \in Regions(c)
    BY <1>1, <1>16, CodeLemma
  <2>3. e \in Int /\ a.len \in Nat /\ p + 1 + a.len = e
    BY <2>2, RegionLemma DEF RegionEnd
  <2>4. M[e] \in Int /\ M[p] \in Int
    <3>1. e \in 1..(Len(c) + 1) /\ p \in 1..(Len(c) + 1)
      <4>1. e \in 1..Len(c)
        BY <2>2, RegionLemma
      <4> QED
        BY <1>1, <1>2, <4>1
    <3>2. \A q \in 1..(Len(c) + 1) : M[q] \in 1..(Cardinality(Kept(c)) + 1)
      BY MovesLemma DEF M
    <3> QED
      BY <3>1, <3>2
  <2>5. Len(m.stack) \in Nat /\ Needs(a) = 0
    BY <1>1, <1>16, SeqLemma DEF Needs
  <2>6. n = Operate(m1, a, t) /\ o = Operate(k1, b, t)
    BY <1>10, <2>1, <2>5
  <2>7. /\ IsRecord(k1) /\ k1.pc = M[p] + 1 /\ k1.stack = m.stack /\ k1.vars = m.vars
        /\ k1.tries = MovedTries(M, m.tries) /\ k1.calls = m.calls /\ k1.taken = m.taken /\ k1.end = m.end
    BY <1>3, <1>8, <1>9, ParallelLemma DEF Computes
  <2>8. m1.pc + a.len = e
    BY <1>2, <1>9, <2>3
  <2>9. k1.pc + d = M[e]
    BY <2>1, <2>4, <2>7
  <2> HIDE DEF n, o, d, e
  <2>10. n = MachineOf(p + 1, m.stack, m.vars, x, m.calls, m.taken, m.end)
    BY <1>9, <1>16, <2>6, <2>8, TryLemma
  <2>11. o = MachineOf(M[p] + 1, m.stack, m.vars,
                       Append(MovedTries(M, m.tries), [end |-> M[e], base |-> Len(m.stack)]),
                       m.calls, m.taken, m.end)
    BY <2>1, <2>6, <2>7, <2>9, TryLemma DEF d
  <2>12. /\ MovedTries(M, x) = Append(MovedTries(M, m.tries), [end |-> M[e], base |-> Len(m.stack)])
         /\ x \in Seq(Region)
    <3>1. Len(m.stack) \in Int /\ [end |-> e, base |-> Len(m.stack)] \in Region
      BY <2>3, <2>5 DEF Region, e
    <3>2. MovedTries(M, x) = Append(MovedTries(M, m.tries), [end |-> M[e], base |-> Len(m.stack)])
      BY <1>1, <2>3, <3>1, MovedTriesLemma DEF e
    <3> QED
      BY <1>1, <3>1, <3>2
  <2> HIDE DEF x
  <2>13. o = MachineOf(M[p + 1], m.stack, m.vars, MovedTries(M, x), m.calls, m.taken, m.end)
    BY <1>3, <2>11, <2>12
  <2>14. Parallel(M, n, o)
    BY <1>1, <2>10, <2>12, <2>13, MakesParallel
  <2>15. ~HalfWay(c, n)
    <3>1. ~IsPair(c, p)
      BY <1>16 DEF IsPair, Pairs
    <3> QED
      BY <3>1, HalfWayLemma DEF n
  <2>16. AfterFusion(c, t, n) = o
    BY <1>11, <2>14, <2>15 DEF Parallel
  <2> QED
    BY <2>16 DEF n, o, f, k, M
<1>17. ASSUME IsPair(c, p)
       PROVE  /\ M[p + 2] = M[p] + 1
              /\ n.end = <<>> /\ n.pc = p + 1 => HalfWay(c, n)
              /\ HalfWay(c, n) => ~AtBoundary(n)
  <2>1. M[p + 2] = M[p] + 1
    BY <1>1, <1>3, <1>17, PairLemma DEF M
  <2>2. n.end = <<>> /\ n.pc = p + 1 => HalfWay(c, n)
    BY <1>2, <1>17 DEF HalfWay
  <2>3. HalfWay(c, n) => ~AtBoundary(n)
    BY HalfWayLemma
  <2> QED
    BY <2>1, <2>2, <2>3
<1>18. CASE IsPair(c, p) /\ a.op = "storeKeep"
  <2> DEFINE v == Top(m)
             w == (a.name :> v) @@ m.vars
             z == Turn(c, t, n)
             s == Drop(m.stack, 1)
  <2>1. b.op = "store" /\ b.name = a.name
    BY <1>14, <1>18, InstLemma
  <2>2. Needs(a) = 1 /\ Needs(b) = 1
    BY <1>18, <2>1 DEF Needs
  <2>3. CASE Len(m.stack) < 1
    <3>1. n = Crash(m) /\ o = Crash(k)
      BY <1>10, <2>2, <2>3
    <3> HIDE DEF n, o
    <3>2. AfterFusion(c, t, n) = o
      BY <1>4, <1>12, <1>13, <3>1
    <3> QED
      BY <3>2 DEF n, o, f, k, M
  <2>4. CASE ~(Len(m.stack) < 1)
    <3>1. n = Set(m1, a.name, Top(m1)) /\ o = Set(Popped(k1), b.name, Top(k1))
      <4>1. Operate(m1, a, t) = Set(m1, a.name, Top(m1))
        BY <1>18, Zenon DEF Operate
      <4>2. Operate(k1, b, t) = Set(Popped(k1), b.name, Top(k1))
        BY <2>1, Zenon DEF Operate
      <4> QED
        BY <1>10, <2>2, <2>4, <4>1, <4>2
    <3>2. Top(m1) = v
      BY <1>9 DEF Top
    <3>3. /\ IsRecord(k1) /\ k1.pc = M[p] + 1 /\ k1.stack = m.stack /\ k1.vars = m.vars /\ Top(k1) = v
          /\ k1.tries = MovedTries(M, m.tries) /\ k1.calls = m.calls /\ k1.taken = m.taken /\ k1.end = m.end
      BY <1>3, <1>8, <1>9, <3>2, ParallelLemma DEF Computes
    <3> HIDE DEF n, o, v
    <3>4. n = MachineOf(p + 1, m.stack, w, m.tries, m.calls, m.taken, m.end)
      BY <1>9, <3>1, <3>2, PrimitivesLemma
    <3>5. o = MachineOf(M[p] + 1, s, w, MovedTries(M, m.tries), m.calls, m.taken, m.end)
      <4> DEFINE k2 == MachineOf(k1.pc, Drop(k1.stack, 1), k1.vars, k1.tries, k1.calls, k1.taken, k1.end)
      <4>1. Popped(k1) = k2
        BY <3>3, PrimitivesLemma
      <4>2. /\ IsRecord(k2) /\ k2.pc = k1.pc /\ k2.stack = Drop(k1.stack, 1) /\ k2.vars = k1.vars
            /\ k2.tries = k1.tries /\ k2.calls = k1.calls /\ k2.taken = k1.taken /\ k2.end = k1.end
        BY FieldsLemma
      <4> HIDE DEF k2
      <4>3. Set(k2, a.name, v) = MachineOf(k2.pc, k2.stack, (a.name :> v) @@ k2.vars, k2.tries, k2.calls, k2.taken, k2.end)
        BY <4>2, PrimitivesLemma
      <4>4. Set(k2, a.name, v) = MachineOf(M[p] + 1, s, w, MovedTries(M, m.tries), m.calls, m.taken, m.end)
        BY <3>3, <4>2, <4>3
      <4> QED
        BY <2>1, <3>1, <3>3, <4>1, <4>4
    <3> HIDE DEF w
    <3>6. /\ IsRecord(n) /\ n.pc = p + 1 /\ n.stack = m.stack /\ n.vars = w
          /\ n.tries = m.tries /\ n.calls = m.calls /\ n.taken = m.taken /\ n.end = m.end
      BY <3>4, FieldsLemma
    <3>7. HalfWay(c, n) /\ ~AtBoundary(n) /\ M[p + 2] = M[p] + 1
      BY <1>1, <1>17, <1>18, <3>6 DEF n
    <3>8. Sound(n) /\ n.pc \in Int /\ c[n.pc].op = "pop" /\ n.stack # <<>>
      <4>1. c[p + 1].op = "pop"
        BY <1>1, <1>18, PairLemma
      <4>2. m.stack # <<>>
        BY <2>4
      <4> QED
        BY <1>1, <1>2, <3>6, <4>1, <4>2 DEF Sound
    <3>9. z = MachineOf(p + 2, s, w, m.tries, m.calls, m.taken, m.end)
      <4>1. z = MachineOf(n.pc + 1, Drop(n.stack, 1), n.vars, n.tries, n.calls, n.taken, n.end)
        BY <3>7, <3>8, PopLemma
      <4> QED
        BY <1>2, <3>6, <4>1
    <3> HIDE DEF z
    <3>10. IsSeq(s)
      <4>1. Len(m.stack) - 1 \in Int
        BY <1>1, SeqLemma
      <4> QED
        BY <1>1, <4>1, SeqLemma DEF Drop
    <3> HIDE DEF s
    <3>11. Parallel(M, z, o)
      <4>1. o = MachineOf(M[p + 2], s, w, MovedTries(M, m.tries), m.calls, m.taken, m.end)
        BY <3>5, <3>7
      <4> QED
        BY <1>1, <3>9, <3>10, <4>1, MakesParallel
    <3>12. AfterFusion(c, t, n) = Readdressed(M, z)
      BY <1>11, <3>7 DEF z
    <3> QED
      BY <3>11, <3>12 DEF Parallel, n, o, f, k, M
  <2> QED
    BY <2>3, <2>4
<1>19. CASE IsPair(c, p) /\ a.op = "binary"
  <2> DEFINE m2 == WithPc(m, p + 2)
             g == Operands(m1, a)
             h == Operands(m2, a)
             j == Operands(k1, b)
             v == Apply(a.fun, g[2], g[3])
             to == c[p + 1].to
             z == Turn(c, t, n)
  <2>1. /\ b.op = "jumpIfCmpFalse" /\ b.fun = a.fun /\ b.left = a.left /\ b.right = a.right
        /\ b.to = M[to]
    BY <1>14, <1>19, InstLemma DEF M
  <2>2. n = IF g = <<>> THEN Crash(m1) ELSE Push(g[1], Apply(a.fun, g[2], g[3]))
    <3>1. Operate(m1, a, t) = IF g = <<>> THEN Crash(m1) ELSE Push(g[1], Apply(a.fun, g[2], g[3]))
      BY <1>19, Zenon DEF Operate
    <3>2. Len(m.stack) \in Nat /\ Needs(a) = 0
      BY <1>1, <1>19, SeqLemma DEF Needs
    <3>3. n = Operate(m1, a, t)
      BY <1>10, <3>2
    <3> QED
      BY <3>1, <3>3
  <2>3. o = IF j = <<>> THEN Crash(k1) ELSE BranchOn(j[1], Apply(b.fun, j[2], j[3]), b.to)
    <3>1. Operate(k1, b, t) = IF j = <<>> THEN Crash(k1) ELSE BranchOn(j[1], Apply(b.fun, j[2], j[3]), b.to)
      BY <2>1, Zenon DEF Operate
    <3>2. Len(m.stack) \in Nat /\ Needs(b) = 0
      BY <1>1, <2>1, SeqLemma DEF Needs
    <3>3. o = Operate(k1, b, t)
      BY <1>10, <3>2
    <3> QED
      BY <3>1, <3>3
  <2>4. Computes(M, m2, m2, k1) /\ M[p + 2] = M[p] + 1
    BY <1>7, <1>17, <1>19
  <2>5. m2 = WithPc(m1, p + 2)
    <3>1. WithPc(m1, p + 2) = MachineOf(p + 2, m1.stack, m1.vars, m1.tries, m1.calls, m1.taken, m1.end)
      BY <1>9, WithLemma
    <3>2. m2 = MachineOf(p + 2, m.stack, m.vars, m.tries, m.calls, m.taken, m.end)
      BY <1>1, WithLemma
    <3> QED
      BY <1>9, <3>1, <3>2
  <2> HIDE DEF m2
  <2>6. \/ h = <<>> /\ j = <<>>
        \/ h # <<>> /\ j # <<>> /\ j[2] = h[2] /\ j[3] = h[3] /\ Computes(M, m2, h[1], j[1])
    BY <2>1, <2>4, OperandsLemma
  <2>7. \/ g = <<>> /\ h = <<>>
        \/ /\ g # <<>> /\ h # <<>> /\ h[2] = g[2] /\ h[3] = g[3] /\ h[1] = WithPc(g[1], p + 2)
           /\ Sound(g[1]) /\ g[1].pc = m1.pc /\ g[1].tries = m1.tries /\ g[1].end = m1.end
    BY <1>9, <2>5, ElsewhereLemma
  <2> HIDE DEF g, h, j, n, o
  <2>8. CASE g = <<>>
    <3>1. n = Crash(m1) /\ o = Crash(k1)
      BY <2>2, <2>3, <2>6, <2>7, <2>8
    <3>2. AfterFusion(c, t, n) = o
      BY <1>8, <1>12, <1>13, <3>1
    <3> QED
      BY <3>2 DEF n, o, f, k, M
  <2>9. CASE g # <<>>
    <3> DEFINE w == g[1]
               s == Append(w.stack, v)
    <3>1. /\ Sound(w) /\ w.pc = p + 1 /\ w.end = m.end
          /\ h[1] = WithPc(w, p + 2) /\ Computes(M, m2, h[1], j[1])
          /\ Apply(b.fun, j[2], j[3]) = v /\ j # <<>>
      BY <1>9, <2>1, <2>6, <2>7, <2>9
    <3>2. n = Push(w, v) /\ o = BranchOn(j[1], v, M[to])
      BY <2>1, <2>2, <2>3, <2>9, <3>1
    <3> HIDE DEF v, w
    <3>3. IsRecord(w) /\ IsSeq(w.stack)
      BY <3>1 DEF Sound
    <3>4. s # <<>> /\ Len(s) >= 1 /\ Len(s) \in Nat /\ s[Len(s)] = v /\ Drop(s, 1) = w.stack
      <4>1. Len(s) = Len(w.stack) + 1
        BY <3>3, SeqLemma
      <4> QED
        BY <3>3, <4>1, SeqLemma, PushedLemma
    <3>5. n = MachineOf(p + 1, s, w.vars, w.tries, w.calls, w.taken, w.end)
      BY <3>1, <3>2, <3>3, PrimitivesLemma
    <3> HIDE DEF s
    <3>6. /\ IsRecord(n) /\ n.pc = p + 1 /\ n.stack = s /\ n.vars = w.vars
          /\ n.tries = w.tries /\ n.calls = w.calls /\ n.taken = w.taken /\ n.end = w.end
      BY <3>5, FieldsLemma
    <3>7. HalfWay(c, n) /\ ~AtBoundary(n)
      BY <1>1, <1>17, <1>19, <3>1, <3>6 DEF n
    <3> DEFINE n1 == WithPc(n, n.pc + 1)
               i == c[p + 1]
    <3>8. n1 = MachineOf(p + 2, s, w.vars, w.tries, w.calls, w.taken, w.end)
      BY <1>2, <3>6, WithLemma
    <3>9. z = BranchOn(Popped(n1), Top(n1), to)
      <4>1. i.op = "jumpIfFalse"
        BY <1>1, <1>19, PairLemma
      <4>2. Needs(i) = 1
        BY <4>1 DEF Needs
      <4> HIDE DEF n1
      <4>3. Operate(n1, i, t) = BranchOn(Popped(n1), Top(n1), i.to)
        BY <4>1, Zenon DEF Operate
      <4>4. z = IF Len(n.stack) < Needs(i) THEN Crash(n) ELSE Operate(n1, i, t)
        BY <3>6, <3>7, ExecutesLemma DEF n1
      <4>5. ~(Len(n.stack) < Needs(i))
        BY <3>4, <3>6, <4>2
      <4> QED
        BY <4>3, <4>4, <4>5
    <3> HIDE DEF n1, z
    <3>10. /\ IsRecord(n1) /\ n1.pc = p + 2 /\ n1.stack = s /\ n1.vars = w.vars
           /\ n1.tries = w.tries /\ n1.calls = w.calls /\ n1.taken = w.taken /\ n1.end = w.end
      BY <3>8, FieldsLemma
    <3>11. Popped(n1) = h[1]
      <4>1. Popped(n1) = MachineOf(n1.pc, Drop(n1.stack, 1), n1.vars, n1.tries, n1.calls, n1.taken, n1.end)
        BY <3>10, PrimitivesLemma
      <4>2. h[1] = MachineOf(p + 2, w.stack, w.vars, w.tries, w.calls, w.taken, w.end)
        BY <3>1, <3>3, WithLemma
      <4> QED
        BY <3>4, <3>10, <4>1, <4>2
    <3>12. Top(n1) = v
      BY <3>4, <3>10 DEF Top
    <3>13. z = BranchOn(h[1], v, to)
      BY <3>9, <3>11, <3>12
    <3>14. Lands(M, m2, {to}, BranchOn(h[1], v, to), BranchOn(j[1], v, M[to]))
      <4>1. to \in {to}
        OBVIOUS
      <4> QED
        BY <3>1, <4>1, GoesLemma
    <3>15. Parallel(M, z, o)
      BY <3>2, <3>13, <3>14 DEF Lands
    <3>16. AfterFusion(c, t, n) = Readdressed(M, z)
      BY <1>11, <3>7 DEF z
    <3> QED
      BY <3>15, <3>16 DEF Parallel, n, o, f, k, M
  <2> QED
    BY <2>8, <2>9
<1> QED
  <2>1. IsPair(c, p) => a.op \in {"storeKeep", "binary"}
    BY <1>1, PairLemma
  <2> QED
    BY <1>15, <1>16, <1>18, <1>19, <2>1

\* A turn of the code before fusion is a turn of the fused code, or none.
LEMMA FusionStep ==
  ASSUME NEW c, WellFormed(c), ~JumpsIntoPair(c), NEW m, Runs(c, m),
         HalfWay(c, m) => ~AtBoundary(m), NEW t
  PROVE  LET n == Turn(c, t, m)
             k == AfterFusion(c, t, m)
             l == AfterFusion(c, t, n)
         IN  /\ l = k \/ (k.end = <<>> /\ l = Turn(Fused(c), t, k))
             /\ HalfWay(c, n) => ~AtBoundary(n)
<1> DEFINE n == Turn(c, t, m)
           k == AfterFusion(c, t, m)
           l == AfterFusion(c, t, n)
           M == Moves(c)
           r == Readdressed(M, m)
<1>1. Sound(m) /\ m.end = <<>> /\ m.pc \in 1..Len(c) /\ m.pc \in Int
  BY CodeLemma DEF Runs
<1>2. r.end = <<>>
  <2>1. Parallel(M, m, r)
    BY <1>1 DEF Parallel
  <2> HIDE DEF r, M
  <2> QED
    BY <1>1, <2>1, ParallelLemma
<1>3. \A q : AfterFusion(c, t, q) = Readdressed(M, IF HalfWay(c, q) THEN Turn(c, t, q) ELSE q)
  BY Zenon DEF AfterFusion
<1>4. ~AtBoundary(m) /\ HalfWay(c, n) => IsPair(c, m.pc) /\ ~AtBoundary(n)
  BY HalfWayLemma
<1>5. CASE HalfWay(c, m)
  <2>1. m.pc > 1 /\ IsPair(c, m.pc - 1)
    BY <1>5 DEF HalfWay
  <2>2. ~IsPair(c, m.pc)
    <3>1. m.pc - 1 \in 1..Len(c) /\ (m.pc - 1) + 1 = m.pc
      <4> DEFINE i == m.pc - 1
                 z == Len(c)
      <4>1. m.pc \in 1..z /\ z \in Nat
        BY <1>1, CodeLemma
      <4> HIDE DEF z
      <4>2. m.pc - 1 \in 1..z /\ (m.pc - 1) + 1 = m.pc
        BY <2>1, <4>1
      <4> QED
        BY <4>2 DEF z
    <3> QED
      BY <2>1, <3>1, PairLemma
  <2>3. ~HalfWay(c, n)
    BY <1>4, <1>5, <2>2
  <2> HIDE DEF n
  <2> QED
    BY <1>3, <1>5, <2>3 DEF n
<1>6. CASE ~HalfWay(c, m) /\ AtBoundary(m)
  <2>1. AtBoundary(r) /\ Readdressed(M, n) = FinishTry(r)
    BY <1>6, BoundaryLemma
  <2>2. n.pc = m.pc
    BY <1>6, FinishLemma
  <2>3. ~HalfWay(c, n)
    BY <1>1, <1>6, <2>2 DEF HalfWay
  <2>4. Turn(Fused(c), t, r) = FinishTry(r)
    BY <2>1 DEF Turn
  <2> HIDE DEF n, r
  <2>5. k = r /\ l = Readdressed(M, n)
    BY <1>3, <1>6, <2>3 DEF r
  <2> QED
    BY <1>2, <2>1, <2>3, <2>4, <2>5 DEF n
<1>7. CASE ~HalfWay(c, m) /\ ~AtBoundary(m)
  <2>1. k = r
    BY <1>3, <1>7
  <2>2. m.pc \notin Kept(c) => l = r
    BY <1>7, RemovedLemma
  <2>3. m.pc \in Kept(c) => l = Turn(Fused(c), t, r)
    BY <1>7, KeptLemma
  <2> HIDE DEF n, r, k, l
  <2> QED
    BY <1>2, <1>4, <1>7, <2>1, <2>2, <2>3 DEF n, k, l
<1> QED
  BY <1>5, <1>6, <1>7

\* Both begin at the first instruction.
LEMMA StartLemma ==
  ASSUME NEW c, WellFormed(c), NEW b, NEW t
  PROVE  Runs(c, Start(b)) /\ ~HalfWay(c, Start(b)) /\ AfterFusion(c, t, Start(b)) = Start(b)
<1> DEFINE m == Start(b)
           M == Moves(c)
<1>1. m = MachineOf(1, <<>>, b, <<>>, 0, {}, <<>>)
  BY DEF Start, MachineOf
<1> HIDE DEF m
<1>2. /\ IsRecord(m) /\ m.pc = 1 /\ m.stack = <<>> /\ m.vars = b /\ m.tries = <<>>
      /\ m.calls = 0 /\ m.taken = {} /\ m.end = <<>>
  BY <1>1, FieldsLemma
<1>3. Len(c) \in Nat /\ 1 \in 1..Len(c)
  BY DEF WellFormed
<1>4. Sound(m) /\ InRegions(c, m.pc, m.tries)
  <2>1. IsSeq(<<>>) /\ <<>> \in Seq(Region) /\ Len(<<>>) = 0
    BY DEF IsSeq
  <2>2. InRegions(c, 1, <<>>)
    BY <2>1 DEF InRegions
  <2> QED
    BY <1>2, <2>1, <2>2 DEF Sound
<1>5. ~HalfWay(c, m)
  BY <1>2 DEF HalfWay
<1>6. M[1] = 1
  <2> DEFINE K == Kept(c)
  <2>1. \A i \in K : i \in 1..Len(c)
    BY MovesLemma
  <2>2. {i \in K : i < 1} = {}
    <3>1. \A i \in K : ~(i < 1)
      BY <1>3, <2>1
    <3> QED
      BY <3>1
  <2>3. Before(K, 1) = 0
    BY <2>2, FS_EmptySet DEF Before
  <2> HIDE DEF K
  <2>4. 1 \in 1..(Len(c) + 1)
    BY <1>3
  <2>5. M = [pc \in 1..(Len(c) + 1) |-> Before(K, pc) + 1]
    BY Zenon DEF Moves, K
  <2> QED
    BY <2>3, <2>4, <2>5
<1> HIDE DEF M
<1>7. MovedTries(M, <<>>) = <<>>
  <2>1. <<>> \in Seq(Region)
    OBVIOUS
  <2> QED
    BY <2>1, MovedTriesLemma
<1>8. Readdressed(M, m) = m
  BY <1>1, <1>2, <1>6, <1>7, ReaddressedLemma
<1>9. AfterFusion(c, t, m) = m
  BY <1>5, <1>8 DEF AfterFusion, M
<1> QED
  BY <1>2, <1>3, <1>4, <1>5, <1>9 DEF Runs, m

\* Code before fusion runs in its code and its regions, and a pair does not end a
\* region half way.
FusionInv ==
  /\ code \in Codes
  /\ machine.end = <<>> => /\ Runs(code, machine)
                           /\ HalfWay(code, machine) => ~AtBoundary(machine)

\* Fused code does what the code before it did, whatever calls do (fuse.rs:116-480):
\* for any well-formed codes that do not jump into a pair, an execution of the
\* code before a pass of fusion is one of the fused code, with the same calls,
\* the same variables, the same stack between instructions and the same end.
THEOREM FusionTheorem ==
  ASSUME \A c \in Codes : WellFormed(c) /\ ~JumpsIntoPair(c)
  PROVE  Original!Spec => FusionImplements
<1>1. Original!Init => FusionInv /\ FusedCode!Init
  <2> SUFFICES ASSUME Original!Init
               PROVE  FusionInv /\ FusedCode!Init
    OBVIOUS
  <2>1. PICK b \in Bindings : machine = Start(b)
    BY DEF Original!Init
  <2>2. code \in Codes /\ tape \in Tapes /\ WellFormed(code)
    BY DEF Original!Init
  <2>3. Runs(code, machine) /\ ~HalfWay(code, machine) /\ AfterFusion(code, tape, machine) = Start(b)
    BY <2>1, <2>2, StartLemma
  <2>4. Fused(code) \in {Fused(c) : c \in Codes}
    BY <2>2
  <2> QED
    BY <2>2, <2>3, <2>4 DEF FusionInv, FusedCode!Init
<1>2. FusionInv /\ [Original!Next]_(Original!state) => FusionInv' /\ [FusedCode!Next]_(FusedCode!state)
  <2> SUFFICES ASSUME FusionInv, [Original!Next]_(Original!state)
               PROVE  FusionInv' /\ [FusedCode!Next]_(FusedCode!state)
    OBVIOUS
  <2>1. CASE UNCHANGED Original!state
    BY <2>1 DEF FusionInv, Original!state, FusedCode!state
  <2>2. CASE Original!Next
    <3>1. /\ machine.end = <<>> /\ machine' = Turn(code, tape, machine)
          /\ code' = code /\ tape' = tape
      BY <2>2 DEF Original!Next
    <3>2. /\ WellFormed(code) /\ ~JumpsIntoPair(code) /\ code \in Codes /\ Runs(code, machine)
          /\ HalfWay(code, machine) => ~AtBoundary(machine)
      BY <3>1 DEF FusionInv
    <3> DEFINE k == AfterFusion(code, tape, machine)
               l == AfterFusion(code, tape, Turn(code, tape, machine))
    <3>3. /\ l = k \/ (k.end = <<>> /\ l = Turn(Fused(code), tape, k))
          /\ HalfWay(code, Turn(code, tape, machine)) => ~AtBoundary(Turn(code, tape, machine))
      BY <3>2, FusionStep
    <3>4. machine'.end = <<>> => Runs(code, machine')
      BY <3>1, <3>2, RunsLemma
    <3>5. FusionInv'
      BY <3>1, <3>2, <3>3, <3>4 DEF FusionInv
    <3>6. AfterFusion(code, tape, machine)' = l
      BY <3>1
    <3> HIDE DEF k, l
    <3>7. FusedCode!Next \/ UNCHANGED FusedCode!state
      BY <3>1, <3>3, <3>6 DEF FusedCode!Next, FusedCode!state, k
    <3> QED
      BY <3>5, <3>7
  <2> QED
    BY <2>1, <2>2
<1> QED
  BY <1>1, <1>2, PTL DEF Original!Spec, FusionImplements, FusedCode!Spec

----------------------------------------------------------------------------
(* A turn of the code without tail calls is one of the code with them, or   *)
(* the return of a call that was one.                                       *)

\* A tail call was a call before a return, outside every region.
LEMMA RewrittenLemma ==
  ASSUME NEW c, WellFormed(c), NEW p \in 1..Len(c)
  PROVE  \/ TailsRewritten(c)[p] = c[p]
         \/ /\ TailsRewritten(c)[p] = TailPostfix /\ TailsRewritten(c)[p] # c[p]
            /\ c[p] = Postfix /\ p + 1 \in 1..Len(c) /\ c[p + 1] = Return /\ ~InTry(c, p)
<1>1. p \in DOMAIN c /\ DOMAIN c = 1..Len(c) /\ Len(c) \in Nat
  BY CodeLemma
<1>2. TailsRewritten(c)[p] = IF p < Len(c) /\ c[p] = Postfix /\ c[p + 1] = Return /\ ~InTry(c, p)
                             THEN TailPostfix ELSE c[p]
  BY <1>1 DEF TailsRewritten
<1>3. Postfix # TailPostfix
  <2>1. Postfix.op = "postfix" /\ TailPostfix.op = "tailPostfix"
    BY DEF Postfix, TailPostfix, Plain
  <2> QED
    BY <2>1
<1>4. p < Len(c) => p + 1 \in 1..Len(c)
  BY <1>1
<1> QED
  BY <1>2, <1>3, <1>4

\* A return from outside the regions of the code.
LEMMA ReturnLemma ==
  ASSUME NEW c, NEW m, Sound(m), m.pc \in Int, m.tries = <<>>, c[m.pc] = Return, NEW t
  PROVE  LET n == Turn(c, t, m) IN
         n.end # <<>> /\ [n EXCEPT !.pc = @ - 1] = ReturnTop(m)
<1>0. \A p : LET q == WithPc(m, p) IN
             /\ IsRecord(q) /\ q.pc = p /\ q.stack = m.stack /\ q.vars = m.vars
             /\ q.tries = m.tries /\ q.calls = m.calls /\ q.taken = m.taken /\ q.end = m.end
  <2> SUFFICES ASSUME NEW p
               PROVE  LET q == WithPc(m, p) IN
                      /\ IsRecord(q) /\ q.pc = p /\ q.stack = m.stack /\ q.vars = m.vars
                      /\ q.tries = m.tries /\ q.calls = m.calls /\ q.taken = m.taken /\ q.end = m.end
    OBVIOUS
  <2> DEFINE q == WithPc(m, p)
  <2>1. /\ Sound(q) /\ q.pc = p /\ q.stack = m.stack /\ q.vars = m.vars
        /\ q.tries = m.tries /\ q.calls = m.calls /\ q.taken = m.taken /\ q.end = m.end
    BY WithPcLemma
  <2> HIDE DEF q
  <2> QED
    BY <2>1, Zenon DEF Sound, q
<1> DEFINE n == Turn(c, t, m)
           m1 == WithPc(m, m.pc + 1)
           s == Drop(m.stack, 1)
           v == IF m.stack = <<>> THEN Unit ELSE Top(m)
           u == IF m.stack = <<>> THEN m.stack ELSE s
           e == <<"returns", v>>
<1>1. IsRecord(m) /\ IsSeq(m.stack) /\ c[m.pc].op = "return"
  BY DEF Sound, Return, Plain
<1>2. /\ IsRecord(m1) /\ m1.pc = m.pc + 1 /\ m1.stack = m.stack /\ m1.vars = m.vars
      /\ m1.tries = m.tries /\ m1.calls = m.calls /\ m1.taken = m.taken /\ m1.end = m.end
  BY <1>0
<1>3. n = ReturnTop(m1)
  <2>1. ~AtBoundary(m)
    BY DEF AtBoundary
  <2>2. Operate(m1, c[m.pc], t) = ReturnTop(m1)
    BY <1>1, Zenon DEF Operate
  <2>3. Len(m.stack) \in Nat /\ Needs(c[m.pc]) = 0
    BY <1>1, SeqLemma DEF Needs
  <2>4. ~(Len(m.stack) < Needs(c[m.pc]))
    BY <2>3
  <2> QED
    BY <2>1, <2>2, <2>4, ExecutesLemma
<1> HIDE DEF m1, n
<1>4. ASSUME NEW i, IsRecord(i), i.stack = m.stack
      PROVE  ReturnTop(i) = MachineOf(i.pc, u, i.vars, i.tries, i.calls, i.taken, e)
  <2>1. ReturnTop(i) = IF i.stack = <<>> THEN Ends(i, "returns", Unit) ELSE Ends(Popped(i), "returns", Top(i))
    BY Zenon DEF ReturnTop
  <2>2. Top(i) = Top(m)
    BY <1>4 DEF Top
  <2>3. CASE m.stack = <<>>
    BY <1>4, <2>1, <2>3, PrimitivesLemma
  <2>4. CASE m.stack # <<>>
    <3> DEFINE j == MachineOf(i.pc, s, i.vars, i.tries, i.calls, i.taken, i.end)
    <3>1. Popped(i) = j
      BY <1>4, PrimitivesLemma
    <3>2. /\ IsRecord(j) /\ j.pc = i.pc /\ j.stack = s /\ j.vars = i.vars
          /\ j.tries = i.tries /\ j.calls = i.calls /\ j.taken = i.taken
      BY FieldsLemma
    <3> HIDE DEF j
    <3>3. Ends(j, "returns", Top(m)) = MachineOf(j.pc, j.stack, j.vars, j.tries, j.calls, j.taken, <<"returns", Top(m)>>)
      BY <3>2, PrimitivesLemma
    <3> QED
      BY <1>4, <2>1, <2>2, <2>4, <3>1, <3>2, <3>3
  <2> QED
    BY <2>3, <2>4
<1>5. e # <<>>
  OBVIOUS
<1> HIDE DEF s, u, v, e
<1>6. /\ ReturnTop(m) = MachineOf(m.pc, u, m.vars, m.tries, m.calls, m.taken, e)
      /\ n = MachineOf(m.pc + 1, u, m.vars, m.tries, m.calls, m.taken, e)
  BY <1>1, <1>2, <1>3, <1>4
<1>7. /\ IsRecord(n) /\ n.pc = m.pc + 1 /\ n.stack = u /\ n.vars = m.vars
      /\ n.tries = m.tries /\ n.calls = m.calls /\ n.taken = m.taken /\ n.end = e
  BY <1>6, FieldsLemma
<1>8. n.pc - 1 = m.pc
  BY <1>7
<1>9. [n EXCEPT !.pc = n.pc - 1] = MachineOf(n.pc - 1, n.stack, n.vars, n.tries, n.calls, n.taken, n.end)
  BY <1>7, ExceptLemma
<1>10. [n EXCEPT !.pc = @ - 1] = ReturnTop(m)
  BY <1>6, <1>7, <1>8, <1>9
<1> QED
  BY <1>5, <1>7, <1>10 DEF n

\* A turn is the same on both sides, or it is a call that comes back before a
\* return, and then the tail call has returned.
LEMMA TailLemma ==
  ASSUME NEW c, WellFormed(c), NEW m, Runs(c, m), NEW t
  PROVE  LET n == Turn(c, t, m)
             o == Turn(TailsRewritten(c), t, m)
         IN  /\ ~MakesTailCall(c, t, m) => o = n
             /\ MakesTailCall(c, t, m) =>
                   /\ n.end = <<>> /\ n.tries = <<>> /\ c[n.pc] = Return
                   /\ ReturnTop(n) = o
<1> DEFINE p == m.pc
           x == TailsRewritten(c)
           n == Turn(c, t, m)
           o == Turn(x, t, m)
           m1 == WithPc(m, p + 1)
           tail == c[p] = Postfix /\ x[p] = TailPostfix /\ x[p] # c[p] /\ p + 1 \in 1..Len(c)
                   /\ c[p + 1] = Return /\ ~InTry(c, p)
<1>1. Sound(m) /\ m.end = <<>> /\ p \in 1..Len(c) /\ IsRecord(m) /\ IsSeq(m.stack)
      /\ m.tries \in Seq(Region) /\ InRegions(c, p, m.tries)
  BY DEF Runs, Sound
<1>2. p \in Int /\ Len(m.stack) \in Nat
  BY <1>1, CodeLemma, SeqLemma
<1>3. x[p] = c[p] \/ tail
  BY <1>1, RewrittenLemma
<1> HIDE DEF x
<1>4. AtBoundary(m) \/ x[p] = c[p] => o = n
  BY DEF Turn
<1>5. ASSUME ~AtBoundary(m), tail
      PROVE  /\ ~MakesTailCall(c, t, m) => o = n
             /\ MakesTailCall(c, t, m) =>
                   /\ n.end = <<>> /\ n.tries = <<>> /\ c[n.pc] = Return
                   /\ ReturnTop(n) = o
  <2>1. m.tries = <<>>
    <3>1. m.tries # <<>> => p < m.tries[Len(m.tries)].end
      <4>1. m.tries # <<>> => m.tries[Len(m.tries)].end \in 1..Len(c)
        BY <1>1, OpenLemma
      <4>2. \A q \in 1..Len(c) : q \in Int
        OBVIOUS
      <4> QED
        BY <1>2, <1>5, <4>1, <4>2 DEF AtBoundary
    <3>2. m.tries # <<>> => InTry(c, p)
      BY <1>1, <3>1, OpenLemma
    <3> QED
      BY <1>5, <3>2
  <2>2. /\ Sound(m1) /\ IsRecord(m1) /\ m1.pc = p + 1 /\ m1.stack = m.stack /\ m1.vars = m.vars
        /\ m1.tries = <<>> /\ m1.calls = m.calls /\ m1.taken = m.taken /\ m1.end = <<>>
    <3>1. /\ Sound(m1) /\ m1.pc = p + 1 /\ m1.stack = m.stack /\ m1.vars = m.vars
          /\ m1.tries = m.tries /\ m1.calls = m.calls /\ m1.taken = m.taken /\ m1.end = m.end
      BY <1>1, WithPcLemma
    <3> HIDE DEF m1
    <3> QED
      BY <1>1, <2>1, <3>1 DEF Sound
  <2>3. Top(m1) = Top(m)
    BY <2>2 DEF Top
  <2>4. c[p].op = "postfix" /\ x[p].op = "tailPostfix"
    BY <1>5 DEF Postfix, TailPostfix, Plain
  <2>5. Needs(c[p]) = 1 /\ Needs(x[p]) = 1
    BY <2>4 DEF Needs
  <2> HIDE DEF m1
  <2>6. /\ Operate(m1, c[p], t) = IF Top(m1) = Callee THEN CallF(m1, t) ELSE Raise(Popped(m1))
        /\ Operate(m1, x[p], t) = IF Top(m1) = Callee THEN TailCallF(m1, t) ELSE Raise(Popped(m1))
    BY <2>4, Zenon DEF Operate
  <2>7. /\ n = IF Len(m.stack) < 1 THEN Crash(m) ELSE Operate(m1, c[p], t)
        /\ o = IF Len(m.stack) < 1 THEN Crash(m) ELSE Operate(m1, x[p], t)
    BY <1>5, <2>5, ExecutesLemma DEF m1
  <2>8. m.stack = <<>> <=> Len(m.stack) < 1
    <3>1. m.stack = <<>> => Len(m.stack) < 1
      OBVIOUS
    <3>2. Len(m.stack) < 1 => m.stack = <<>>
      <4> HAVE Len(m.stack) < 1
      <4>1. Len(m.stack) = 0
        BY <1>2
      <4>2. PICK q \in Nat : m.stack = [i \in 1..q |-> m.stack[i]]
        BY <1>1 DEF IsSeq
      <4>3. q = 0
        BY <4>1, <4>2
      <4> QED
        BY <4>2, <4>3
    <3> QED
      BY <3>1, <3>2
  <2> DEFINE v == Outcome(t, m1.calls + 1)
             a1 == Popped(m1)
             a2 == WithCalls(a1, a1.calls + 1)
             a3 == WithVars(a2, [a2.vars EXCEPT ![X] = v])
  <2>9. /\ CallF(m1, t) = IF v = Raised THEN Raise(a2) ELSE Push(a3, v)
        /\ TailCallF(m1, t) = IF v = Raised THEN Ends(a2, "raises", Raised) ELSE Ends(a3, "returns", v)
    <3>1. CallF(m1, t) = IF v = Raised THEN Raise(a2) ELSE Push(a3, v)
      BY Zenon DEF CallF, WithCalls, WithVars
    <3>2. TailCallF(m1, t) = IF v = Raised THEN Ends(a2, "raises", Raised) ELSE Ends(a3, "returns", v)
      BY Zenon DEF TailCallF, WithCalls, WithVars
    <3> QED
      BY <3>1, <3>2
  <2>10. v = Outcome(t, m.calls + 1)
    BY <2>2
  <2> DEFINE s == Drop(m.stack, 1)
  <2>11. IsSeq(s)
    <3>1. Len(m.stack) - 1 \in Int
      BY <1>2
    <3> QED
      BY <1>1, <3>1, SeqLemma DEF Drop
  <2>12. a1 = MachineOf(p + 1, s, m.vars, <<>>, m.calls, m.taken, <<>>)
    BY <2>2, PrimitivesLemma
  <2> HIDE DEF a1, v, s
  <2>13. /\ IsRecord(a1) /\ a1.pc = p + 1 /\ a1.stack = s /\ a1.vars = m.vars /\ a1.tries = <<>>
         /\ a1.taken = m.taken /\ a1.end = <<>>
    BY <2>12, FieldsLemma
  <2> DEFINE u == a1.calls + 1
  <2> HIDE DEF u
  <2>14. a2 = MachineOf(p + 1, s, m.vars, <<>>, u, m.taken, <<>>)
    BY <2>13, WithLemma DEF u
  <2> HIDE DEF a2
  <2>15. /\ IsRecord(a2) /\ a2.pc = p + 1 /\ a2.stack = s /\ a2.vars = m.vars /\ a2.tries = <<>>
         /\ a2.calls = u /\ a2.taken = m.taken /\ a2.end = <<>>
    BY <2>14, FieldsLemma
  <2> DEFINE w == [a2.vars EXCEPT ![X] = v]
  <2> HIDE DEF w
  <2>16. a3 = MachineOf(p + 1, s, w, <<>>, u, m.taken, <<>>)
    BY <2>15, WithLemma DEF w
  <2> HIDE DEF a3
  <2>17. /\ IsRecord(a3) /\ a3.pc = p + 1 /\ a3.stack = s /\ a3.vars = w /\ a3.tries = <<>>
         /\ a3.calls = u /\ a3.taken = m.taken /\ a3.end = <<>>
    BY <2>16, FieldsLemma
  <2>18. MakesTailCall(c, t, m) <=> m.stack # <<>> /\ Top(m) = Callee /\ v # Raised
    BY <1>1, <1>5, <2>10 DEF MakesTailCall, x
  <2>19. CASE ~MakesTailCall(c, t, m)
    <3>1. v = Raised => Raise(a2) = Ends(a2, "raises", Raised)
      BY <2>15, RegionsLemma
    <3> HIDE DEF n, o
    <3> QED
      BY <2>3, <2>6, <2>7, <2>8, <2>9, <2>18, <2>19, <3>1 DEF n, o
  <2>20. CASE MakesTailCall(c, t, m)
    <3> DEFINE z == Append(s, v)
    <3>1. n = Push(a3, v) /\ o = Ends(a3, "returns", v)
      BY <2>3, <2>6, <2>7, <2>8, <2>9, <2>18, <2>20
    <3> HIDE DEF n, o
    <3>2. z # <<>> /\ z[Len(z)] = v /\ Drop(z, 1) = s
      <4>1. Len(z) = Len(s) + 1
        BY <2>11, SeqLemma
      <4> QED
        BY <2>11, <4>1, SeqLemma, PushedLemma
    <3>3. n = MachineOf(p + 1, z, w, <<>>, u, m.taken, <<>>)
      BY <2>17, <3>1, PrimitivesLemma
    <3> HIDE DEF z
    <3>4. /\ IsRecord(n) /\ n.pc = p + 1 /\ n.stack = z /\ n.vars = w /\ n.tries = <<>>
          /\ n.calls = u /\ n.taken = m.taken /\ n.end = <<>>
      BY <3>3, FieldsLemma
    <3>5. Popped(n) = a3 /\ Top(n) = v
      <4>1. Popped(n) = MachineOf(n.pc, Drop(n.stack, 1), n.vars, n.tries, n.calls, n.taken, n.end)
        BY <3>4, PrimitivesLemma
      <4>2. Popped(n) = a3
        BY <2>16, <3>2, <3>4, <4>1
      <4> QED
        BY <3>2, <3>4, <4>2 DEF Top
    <3>6. ReturnTop(n) = o
      BY <3>1, <3>2, <3>4, <3>5 DEF ReturnTop
    <3> QED
      BY <1>5, <2>20, <3>4, <3>6 DEF n, o
  <2> QED
    BY <2>19, <2>20
<1>6. MakesTailCall(c, t, m) => ~AtBoundary(m) /\ tail
  BY <1>3 DEF MakesTailCall, x
<1> QED
  BY <1>3, <1>4, <1>5, <1>6 DEF x

\* Code before the rewriting of tail calls runs in its code and its regions, and
\* what came back from a tail call is about to return from outside them.
TailsInv ==
  /\ code \in Codes /\ returning \in BOOLEAN
  /\ machine.end = <<>> => /\ Runs(code, machine)
                           /\ returning => machine.tries = <<>> /\ code[machine.pc] = Return

\* Code with tail calls does what the code without did (tce.rs:77-103): a call whose
\* value is returned may give up its activation, outside try regions.
THEOREM TailsTheorem ==
  ASSUME \A c \in Codes : WellFormed(c)
  PROVE  HistorySpec => TailsImplement
<1>1. HistoryInit => TailsInv /\ TailCode!Init
  <2> SUFFICES ASSUME HistoryInit
               PROVE  TailsInv /\ TailCode!Init
    OBVIOUS
  <2>1. PICK b \in Bindings : machine = Start(b)
    BY DEF HistoryInit, Original!Init
  <2>2. code \in Codes /\ tape \in Tapes /\ WellFormed(code) /\ returning = FALSE
    BY DEF HistoryInit, Original!Init
  <2>3. Runs(code, machine)
    BY <2>1, <2>2, StartLemma
  <2>4. TailsRewritten(code) \in {TailsRewritten(c) : c \in Codes}
    BY <2>2
  <2>5. AfterTailCall(machine, returning) = Start(b)
    BY <2>1, <2>2 DEF AfterTailCall
  <2> QED
    BY <2>2, <2>3, <2>4, <2>5 DEF TailsInv, TailCode!Init
<1>2. TailsInv /\ [HistoryNext]_<<Original!state, returning>>
         => TailsInv' /\ [TailCode!Next]_(TailCode!state)
  <2> SUFFICES ASSUME TailsInv, [HistoryNext]_<<Original!state, returning>>
               PROVE  TailsInv' /\ [TailCode!Next]_(TailCode!state)
    OBVIOUS
  <2>1. CASE UNCHANGED <<Original!state, returning>>
    BY <2>1 DEF TailsInv, Original!state, TailCode!state
  <2>2. CASE HistoryNext
    <3> DEFINE n == Turn(code, tape, machine)
               k == AfterTailCall(machine, returning)
               l == AfterTailCall(machine', returning')
    <3>1. /\ machine.end = <<>> /\ machine' = n /\ code' = code /\ tape' = tape
          /\ returning' = (returning \/ MakesTailCall(code, tape, machine))
      BY <2>2 DEF HistoryNext, Original!Next
    <3>2. /\ WellFormed(code) /\ code \in Codes /\ Runs(code, machine) /\ returning \in BOOLEAN
          /\ returning => machine.tries = <<>> /\ code[machine.pc] = Return
      BY <3>1 DEF TailsInv
    <3>3. n.end = <<>> => Runs(code, n)
      BY <3>2, RunsLemma
    <3>4. AfterTailCall(machine, returning)' = l
      OBVIOUS
    <3>5. CASE returning
      <4>1. Sound(machine) /\ machine.pc \in Int
        <5>1. Sound(machine) /\ machine.pc \in 1..Len(code)
          BY <3>2 DEF Runs
        <5> QED
          BY <3>2, <5>1, CodeLemma
      <4>2. n.end # <<>> /\ [n EXCEPT !.pc = @ - 1] = ReturnTop(machine)
        BY <3>2, <3>5, <4>1, ReturnLemma
      <4> HIDE DEF n
      <4>3. returning' = TRUE
        BY <3>1, <3>5
      <4>4. l = k
        BY <3>1, <3>5, <4>2, <4>3 DEF AfterTailCall
      <4>5. TailsInv'
        BY <3>1, <3>2, <4>2, <4>3 DEF TailsInv
      <4> QED
        BY <3>1, <3>4, <4>4, <4>5 DEF TailCode!state
    <3>6. CASE ~returning
      <4>1. k = machine
        BY <3>6 DEF AfterTailCall
      <4>2. /\ ~MakesTailCall(code, tape, machine) => Turn(TailsRewritten(code), tape, machine) = n
            /\ MakesTailCall(code, tape, machine) =>
                   /\ n.end = <<>> /\ n.tries = <<>> /\ code[n.pc] = Return
                   /\ ReturnTop(n) = Turn(TailsRewritten(code), tape, machine)
        BY <3>2, TailLemma
      <4> HIDE DEF n
      <4>3. CASE MakesTailCall(code, tape, machine)
        <5>1. returning' = TRUE
          BY <3>1, <4>3
        <5>2. l = ReturnTop(n)
          BY <3>1, <4>2, <4>3, <5>1 DEF AfterTailCall
        <5>3. TailsInv'
          BY <3>1, <3>2, <3>3, <4>2, <4>3, <5>1 DEF TailsInv
        <5> QED
          BY <3>1, <3>4, <4>1, <4>2, <4>3, <5>2, <5>3 DEF TailCode!Next
      <4>4. CASE ~MakesTailCall(code, tape, machine)
        <5>1. returning' = FALSE
          BY <3>1, <3>6, <4>4
        <5>2. l = n
          BY <3>1, <5>1 DEF AfterTailCall
        <5>3. TailsInv'
          BY <3>1, <3>2, <3>3, <5>1 DEF TailsInv
        <5> QED
          BY <3>1, <3>4, <4>1, <4>2, <4>4, <5>2, <5>3 DEF TailCode!Next
      <4> QED
        BY <4>3, <4>4
    <3> QED
      BY <3>5, <3>6
  <2> QED
    BY <2>1, <2>2
<1> QED
  BY <1>1, <1>2, PTL DEF HistorySpec, TailsImplement, TailCode!Spec

\* Code with tail calls has the shape that fusion relies on, so the two theorems
\* follow one another (session.rs:1267-1278).
THEOREM TailsShapeTheorem ==
  ASSUME NEW c, WellFormed(c)
  PROVE  /\ WellFormed(TailsRewritten(c))
         /\ JumpsIntoPair(TailsRewritten(c)) => JumpsIntoPair(c)
<1> DEFINE x == TailsRewritten(c)
           n == Len(c)
<1>1. DOMAIN c = 1..n /\ n \in Nat \ {0} /\ c[n].op = "return" /\ RegionsNest(c) /\ BranchesSomewhere(c)
  BY DEF WellFormed
<1>2. x = [i \in 1..n |-> x[i]]
  BY <1>1 DEF TailsRewritten
<1>3. \A i \in 1..n : x[i] = c[i] \/ (x[i] = TailPostfix /\ c[i] = Postfix /\ i + 1 \in 1..n)
  BY RewrittenLemma
<1> HIDE DEF x, n
<1>4. DOMAIN x = 1..n /\ Len(x) = n
  BY <1>1, <1>2
<1>5. /\ TailPostfix.op = "tailPostfix" /\ Postfix.op = "postfix"
      /\ ~Jumps(TailPostfix) /\ ~Jumps(Postfix) /\ DOMAIN TailPostfix = {"op"}
      /\ TailPostfix = [f \in DOMAIN TailPostfix |-> TailPostfix[f]]
  BY DEF TailPostfix, Postfix, Plain, Jumps
<1>6. \A i \in 1..n : /\ x[i] = c[i] \/ (x[i].op = "tailPostfix" /\ c[i].op = "postfix")
                      /\ Jumps(x[i]) \/ Jumps(c[i]) => x[i] = c[i]
  BY <1>3, <1>5
<1>7. \A pc \in Int : pc <= n + 1 => (TryEnds(x, pc) <=> TryEnds(c, pc))
  <2> TAKE pc \in Int
  <2> HAVE pc <= n + 1
  <2>1. \A i \in 1..(pc - 1) : i \in 1..n
    BY <1>1
  <2> QED
    BY <1>6, <2>1 DEF TryEnds
<1>8. \A i \in 1..n : IsPair(x, i) <=> IsPair(c, i)
  <2> TAKE i \in 1..n
  <2>1. CASE i < n
    <3>1. i + 1 \in 1..n /\ i + 1 \in Int /\ i + 1 <= n + 1
      BY <1>1, <2>1
    <3>2. TryEnds(x, i + 1) <=> TryEnds(c, i + 1)
      BY <1>7, <3>1
    <3>3. <<x[i].op, x[i + 1].op>> \in Pairs <=> <<c[i].op, c[i + 1].op>> \in Pairs
      BY <1>6, <3>1 DEF Pairs
    <3>4. x[i].op = c[i].op \/ (x[i].op # "binary" /\ c[i].op # "binary")
      BY <1>6
    <3>5. x[i].op = "binary" => x[i] = c[i]
      BY <1>6
    <3> QED
      BY <1>4, <3>2, <3>3, <3>4, <3>5 DEF IsPair, n
  <2>2. CASE ~(i < n)
    BY <1>4, <2>2 DEF IsPair, n
  <2> QED
    BY <2>1, <2>2
<1>9. \A i \in 1..n : /\ (i > 1 /\ IsPair(x, i - 1)) <=> (i > 1 /\ IsPair(c, i - 1))
                      /\ i > 1 => i - 1 \in 1..n
  <2>1. \A i \in 1..n : i > 1 => i - 1 \in 1..n
    BY <1>1
  <2> QED
    BY <1>8, <2>1
<1>10. Kept(x) = Kept(c)
  <2>1. \A i \in 1..n :
           (/\ ~(IsPair(x, i) /\ x[i].op = "const")
            /\ ~(i > 1 /\ IsPair(x, i - 1))
            /\ ~(x[i].op = "jump" /\ ToNext(x, i)))
           <=> (/\ ~(IsPair(c, i) /\ c[i].op = "const")
                /\ ~(i > 1 /\ IsPair(c, i - 1))
                /\ ~(c[i].op = "jump" /\ ToNext(c, i)))
    <3> TAKE i \in 1..n
    <3>2. CASE x[i] = c[i]
      BY <1>8, <1>9, <3>2 DEF ToNext
    <3>3. CASE x[i].op = "tailPostfix" /\ c[i].op = "postfix"
      BY <1>9, <3>3
    <3> QED
      BY <1>6, <3>2, <3>3
  <2> QED
    BY <1>1, <1>4, <2>1 DEF Kept
<1>11. \A i \in 1..n : Fits(x, i)
  <2> TAKE i \in 1..n
  <2>1. Fits(c, i)
    BY <1>1 DEF WellFormed, n
  <2>2. CASE x[i] = c[i]
    BY <1>1, <1>4, <2>1, <2>2 DEF Fits
  <2>3. CASE x[i] = TailPostfix
    BY <1>5, <2>3 DEF Fits, Ops, Fields
  <2> QED
    BY <1>3, <2>2, <2>3
<1>12. /\ Regions(x) = Regions(c)
       /\ \A i \in Regions(c) : /\ i \in 1..n /\ x[i] = c[i]
                                /\ RegionEnd(x, i) = RegionEnd(c, i) /\ Inside(x, i) = Inside(c, i)
                                /\ Inside(c, i) \in SUBSET (1..n)
  <2>1. \A i \in 1..n : (x[i].op = "try" <=> c[i].op = "try") /\ (c[i].op = "try" => x[i] = c[i])
    BY <1>6
  <2>2. Regions(x) = Regions(c)
    BY <1>1, <1>4, <2>1 DEF Regions
  <2>3. \A i \in Regions(c) : i \in 1..n /\ x[i] = c[i]
    BY <1>1, <2>1 DEF Regions
  <2>4. \A i \in Regions(c) : RegionEnd(x, i) = RegionEnd(c, i) /\ Inside(x, i) = Inside(c, i)
    BY <2>3 DEF RegionEnd, Inside
  <2>5. \A i \in Regions(c) : Inside(c, i) \in SUBSET (1..n)
    <3> TAKE i \in Regions(c)
    <3>1. i \in Int /\ 1 <= i /\ RegionEnd(c, i) \in 1..n
      BY RegionLemma DEF n
    <3> QED
      BY <1>1, <3>1 DEF Inside
  <2> QED
    BY <2>2, <2>3, <2>4, <2>5
<1>13. RegionsNest(x)
  <2> SUFFICES ASSUME NEW i \in Regions(c)
               PROVE  /\ \A j \in Regions(c) \cap Inside(c, i) : RegionEnd(c, j) <= RegionEnd(c, i)
                      /\ \A j \in Inside(c, i) : Jumps(x[j]) =>
                            \/ x[j].to \in (i + 1)..RegionEnd(c, i)
                            \/ \E k \in Kept(c) : RegionEnd(c, i) <= k /\ k < x[j].to
    BY <1>10, <1>12 DEF RegionsNest
  <2>1. \A j \in Inside(c, i) : Jumps(x[j]) => x[j] = c[j]
    BY <1>6, <1>12
  <2> QED
    BY <1>1, <2>1 DEF RegionsNest
<1>14. BranchesSomewhere(x)
  <2> SUFFICES ASSUME NEW i \in 1..n, x[i].op = "jumpIfFalse", ToNext(x, i)
               PROVE  i > 1 /\ IsPair(x, i - 1)
    BY <1>4 DEF BranchesSomewhere
  <2>1. x[i] = c[i] /\ ToNext(c, i)
    BY <1>6 DEF ToNext
  <2>2. i > 1 /\ IsPair(c, i - 1)
    BY <1>1, <2>1 DEF BranchesSomewhere
  <2> QED
    BY <1>9, <2>2
<1>15. x[n].op = "return"
  <2>1. n \in 1..n
    BY <1>1
  <2> QED
    BY <1>1, <1>6, <2>1
<1>16. JumpsIntoPair(x) => JumpsIntoPair(c)
  BY <1>1, <1>4, <1>6, <1>8 DEF JumpsIntoPair
<1> QED
  BY <1>1, <1>4, <1>11, <1>13, <1>14, <1>15, <1>16 DEF WellFormed, x
=============================================================================
