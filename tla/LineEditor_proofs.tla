------------------------- MODULE LineEditor_proofs -------------------------
(***************************************************************************)
(* The properties of LineEditor, proved for any characters, any entry and  *)
(* completion, any capacity of the kill ring and any length of the line    *)
(* and of the log.                                                         *)
(***************************************************************************)
EXTENDS LineEditor, FiniteSetTheorems, SequenceTheorems, WellFoundedInduction, TLAPS

-----------------------------------------------------------------------------
(* Texts: how they are cut and joined.                                     *)

Texts == Seq(Chars)

\* One text after the other.
p ++ q == p \o q

LEMMA CatLemma ==
  ASSUME NEW p \in Texts, NEW q \in Texts
  PROVE  /\ p ++ q \in Texts /\ Len(p ++ q) = Len(p) + Len(q)
         /\ Len(p) \in Nat /\ Len(q) \in Nat
         /\ \A k \in 1 .. Len(p) : (p ++ q)[k] = p[k]
         /\ \A k \in 1 .. Len(q) : (p ++ q)[Len(p) + k] = q[k]
<1>1. Len(p) \in Nat /\ Len(q) \in Nat
  BY LenProperties DEF Texts
<1>2. /\ p ++ q \in Texts /\ Len(p ++ q) = Len(p) + Len(q)
      /\ \A i \in 1 .. Len(p) + Len(q) : (p ++ q)[i] = IF i <= Len(p) THEN p[i] ELSE q[i - Len(p)]
  BY ConcatProperties DEF Texts, ++
<1>3. \A k \in 1 .. Len(p) : k \in 1 .. Len(p) + Len(q) /\ k <= Len(p)
  BY <1>1
<1>4. \A k \in 1 .. Len(q) : /\ Len(p) + k \in 1 .. Len(p) + Len(q) /\ ~(Len(p) + k <= Len(p))
                              /\ Len(p) + k - Len(p) = k
  BY <1>1
<1>5. \A k \in 1 .. Len(p) : (p ++ q)[k] = p[k]
  BY <1>2, <1>3
<1>6. \A k \in 1 .. Len(q) : (p ++ q)[Len(p) + k] = q[k]
  <2> SUFFICES ASSUME NEW k \in 1 .. Len(q) PROVE (p ++ q)[Len(p) + k] = q[k]
    OBVIOUS
  <2> DEFINE i == Len(p) + k
  <2>1. i \in 1 .. Len(p) + Len(q) /\ ~(i <= Len(p)) /\ i - Len(p) = k
    BY <1>4
  <2> HIDE DEF i
  <2>2. (p ++ q)[i] = q[k]
    BY <1>2, <2>1
  <2> QED
    BY <2>2 DEF i
<1> QED
  BY <1>1, <1>2, <1>5, <1>6

LEMMA AssocLemma ==
  ASSUME NEW p \in Texts, NEW q \in Texts, NEW r \in Texts
  PROVE  (p ++ q) ++ r = p ++ (q ++ r)
  BY ConcatAssociative DEF Texts, ++

LEMMA EmptyLemma ==
  /\ <<>> \in Texts /\ Len(<<>>) = 0
  /\ \A p \in Texts : p ++ <<>> = p /\ <<>> ++ p = p /\ (Len(p) = 0 => p = <<>>)
  BY ConcatEmptySeq, EmptySeq DEF Texts, ++

LEMMA SliceLemma ==
  ASSUME NEW t \in Texts, NEW i \in Nat, NEW j \in i .. Len(t)
  PROVE  /\ Slice(t, i, j) \in Texts /\ Len(Slice(t, i, j)) = j - i
         /\ \A k \in 1 .. j - i : Slice(t, i, j)[k] = t[i + k]
<1>1. Len(t) \in Nat /\ i + 1 \in Int /\ j \in Int
  BY LenProperties DEF Texts
<1>2. \A k \in i + 1 .. j : t[k] \in Chars
  <2>1. \A k \in i + 1 .. j : k \in 1 .. Len(t)
    BY <1>1
  <2> QED
    BY <2>1, ElementOfSeq DEF Texts
<1>3. /\ SubSeq(t, i + 1, j) \in Texts
      /\ Len(SubSeq(t, i + 1, j)) = IF i + 1 <= j THEN j - (i + 1) + 1 ELSE 0
      /\ \A k \in 1 .. j - (i + 1) + 1 : SubSeq(t, i + 1, j)[k] = t[i + 1 + k - 1]
  BY <1>1, <1>2, SubSeqProperties DEF Texts
<1>4. /\ j - (i + 1) + 1 = j - i /\ (~(i + 1 <= j) => j - i = 0)
      /\ \A k \in 1 .. j - i : i + 1 + k - 1 = i + k
  BY <1>1
<1> QED
  BY <1>3, <1>4 DEF Slice

LEMMA FirstLemma ==
  ASSUME NEW t \in Texts, NEW i \in 0 .. Len(t)
  PROVE  /\ Slice(t, 0, i) \in Texts /\ Len(Slice(t, 0, i)) = i
         /\ \A k \in 1 .. i : Slice(t, 0, i)[k] = t[k]
<1> DEFINE p == Slice(t, 0, i)
<1>1. Len(t) \in Nat /\ 0 \in Nat
  BY LenProperties DEF Texts
<1>2. p \in Texts /\ Len(p) = i - 0 /\ \A k \in 1 .. i - 0 : p[k] = t[0 + k]
  BY <1>1, SliceLemma
<1> HIDE DEF p
<1>3. i - 0 = i /\ \A k \in 1 .. i : 0 + k = k
  BY <1>1
<1>4. \A k \in 1 .. i : p[k] = t[k]
  BY <1>2, <1>3
<1> QED
  BY <1>2, <1>3, <1>4 DEF p

\* Texts with the same characters are the same.
LEMMA SameTextLemma ==
  ASSUME NEW p \in Texts, NEW q \in Texts, Len(p) = Len(q), \A k \in 1 .. Len(q) : p[k] = q[k]
  PROVE  p = q
  BY SeqEqual DEF Texts

\* A text is what stands before and what stands after a place in it.
LEMMA CutLemma ==
  ASSUME NEW t \in Texts, NEW i \in 0 .. Len(t)
  PROVE  /\ Slice(t, 0, i) \in Texts /\ Len(Slice(t, 0, i)) = i
         /\ Slice(t, i, Len(t)) \in Texts /\ Len(Slice(t, i, Len(t))) = Len(t) - i
         /\ t = Slice(t, 0, i) ++ Slice(t, i, Len(t))
<1> DEFINE p == Slice(t, 0, i)
           q == Slice(t, i, Len(t))
<1>1. Len(t) \in Nat
  BY LenProperties DEF Texts
<1>2. p \in Texts /\ Len(p) = i /\ \A k \in 1 .. i : p[k] = t[k]
  BY <1>1, FirstLemma
<1>3. q \in Texts /\ Len(q) = Len(t) - i /\ \A k \in 1 .. Len(t) - i : q[k] = t[i + k]
  <2>1. i \in Nat /\ Len(t) \in i .. Len(t)
    BY <1>1
  <2> QED
    BY <2>1, SliceLemma
<1> HIDE DEF p, q
<1>4. p ++ q \in Texts /\ Len(p ++ q) = Len(t)
  <2>1. p ++ q \in Texts /\ Len(p ++ q) = Len(p) + Len(q)
    BY <1>2, <1>3, CatLemma
  <2> QED
    BY <1>1, <1>2, <1>3, <2>1
<1>5. ASSUME NEW k \in 1 .. Len(t) PROVE (p ++ q)[k] = t[k]
  <2>1. CASE k <= i
    <3>1. k \in 1 .. Len(p) /\ k \in 1 .. i
      BY <1>1, <1>2, <2>1
    <3>2. (p ++ q)[k] = p[k]
      BY <1>2, <1>3, <3>1, CatLemma
    <3> QED
      BY <1>2, <3>1, <3>2
  <2>2. CASE ~(k <= i)
    <3>1. PICK m \in 1 .. Len(t) - i : k = i + m
      <4>1. k - i \in 1 .. Len(t) - i /\ k = i + (k - i)
        BY <1>1, <2>2
      <4> QED
        BY <4>1
    <3>2. m \in 1 .. Len(q)
      BY <1>3
    <3>3. (p ++ q)[Len(p) + m] = q[m]
      BY <1>2, <1>3, <3>2, CatLemma
    <3> QED
      BY <1>2, <1>3, <3>1, <3>3
  <2> QED
    BY <2>1, <2>2
<1>6. p ++ q = t
  BY <1>4, <1>5, SameTextLemma
<1> QED
  BY <1>2, <1>3, <1>6 DEF p, q

\* The parts of what was joined are what was joined.
LEMMA PartsLemma ==
  ASSUME NEW p \in Texts, NEW q \in Texts
  PROVE  /\ Slice(p ++ q, 0, Len(p)) = p
         /\ Slice(p ++ q, Len(p), Len(p ++ q)) = q
<1>1. /\ Len(p) \in Nat /\ Len(q) \in Nat /\ p ++ q \in Texts
      /\ Len(p ++ q) = Len(p) + Len(q)
      /\ \A k \in 1 .. Len(p) : (p ++ q)[k] = p[k]
      /\ \A k \in 1 .. Len(q) : (p ++ q)[Len(p) + k] = q[k]
  BY CatLemma
<1> DEFINE t == p ++ q
           a == Slice(t, 0, Len(p))
           b == Slice(t, Len(p), Len(t))
<1>2. a = p
  <2>1. t \in Texts /\ Len(p) \in 0 .. Len(t)
    BY <1>1
  <2>2. a \in Texts /\ Len(a) = Len(p) /\ \A k \in 1 .. Len(p) : a[k] = t[k]
    BY <2>1, FirstLemma
  <2> HIDE DEF a
  <2> QED
    BY <1>1, <2>2, SameTextLemma
<1>3. b = q
  <2>1. t \in Texts /\ Len(t) \in Len(p) .. Len(t) /\ Len(t) - Len(p) = Len(q)
    BY <1>1
  <2>2. /\ b \in Texts /\ Len(b) = Len(t) - Len(p)
        /\ \A k \in 1 .. Len(t) - Len(p) : b[k] = t[Len(p) + k]
    BY <1>1, <2>1, SliceLemma
  <2> HIDE DEF b
  <2>3. Len(b) = Len(q) /\ \A k \in 1 .. Len(q) : b[k] = q[k]
    BY <1>1, <2>1, <2>2
  <2> QED
    BY <2>2, <2>3, SameTextLemma
<1> QED
  BY <1>2, <1>3

\* The three parts of a text around a stretch of it.
LEMMA StretchLemma ==
  ASSUME NEW t \in Texts, NEW i \in Nat, NEW n \in Nat, i + n <= Len(t)
  PROVE  \E p, s, q \in Texts :
           Len(p) = i /\ Len(s) = n /\ t = (p ++ s) ++ q
<1>1. Len(t) \in Nat /\ i \in 0 .. Len(t) /\ n \in 0 .. Len(t) - i
  BY LenProperties DEF Texts
<1>2. PICK p \in Texts, r \in Texts : Len(p) = i /\ Len(r) = Len(t) - i /\ t = p ++ r
  BY <1>1, CutLemma
<1>3. n \in 0 .. Len(r)
  BY <1>1, <1>2
<1>4. PICK s \in Texts, q \in Texts : Len(s) = n /\ r = s ++ q
  <2>1. /\ Slice(r, 0, n) \in Texts /\ Len(Slice(r, 0, n)) = n
        /\ Slice(r, n, Len(r)) \in Texts
        /\ r = Slice(r, 0, n) ++ Slice(r, n, Len(r))
    BY <1>3, CutLemma
  <2> QED
    BY <2>1
<1>5. t = (p ++ s) ++ q
  <2>1. (p ++ s) ++ q = p ++ (s ++ q)
    BY AssocLemma
  <2> QED
    BY <1>2, <1>4, <2>1
<1>6. Len(p) = i /\ Len(s) = n
  BY <1>2, <1>4
<1> HIDE DEF Texts
<1> QED
  BY <1>5, <1>6

\* What With, Without and Slice do to texts given by their parts.
LEMMA WithLemma ==
  ASSUME NEW p \in Texts, NEW s \in Texts, NEW q \in Texts
  PROVE  With(p ++ q, Len(p), s) = (p ++ s) ++ q
<1>1. With(p ++ q, Len(p), s) = (Slice(p ++ q, 0, Len(p)) ++ s) ++ Slice(p ++ q, Len(p), Len(p ++ q))
  BY DEF With, ++
<1>2. Slice(p ++ q, 0, Len(p)) = p /\ Slice(p ++ q, Len(p), Len(p ++ q)) = q
  BY PartsLemma
<1> QED
  BY <1>1, <1>2

LEMMA WithoutLemma ==
  ASSUME NEW p \in Texts, NEW s \in Texts, NEW q \in Texts
  PROVE  /\ Without((p ++ s) ++ q, Len(p), Len(s)) = p ++ q
         /\ Slice((p ++ s) ++ q, Len(p), Len(p) + Len(s)) = s
<1> DEFINE t == (p ++ s) ++ q
<1>1. /\ p ++ s \in Texts /\ s ++ q \in Texts /\ t = p ++ (s ++ q)
      /\ Len(p ++ s) = Len(p) + Len(s)
  BY CatLemma, AssocLemma
<1>2. Slice(t, 0, Len(p)) = p
  BY <1>1, PartsLemma
<1>3. Slice(t, Len(p) + Len(s), Len(t)) = q
  <2>1. Slice(t, Len(p ++ s), Len(t)) = q
    BY <1>1, PartsLemma
  <2> QED
    BY <1>1, <2>1
<1>4. Slice(t, Len(p), Len(p) + Len(s)) = s
  <2>1. /\ t \in Texts /\ Len(t) = Len(p) + Len(s) + Len(q)
        /\ Len(p) \in Nat /\ Len(s) \in Nat /\ Len(q) \in Nat
    <3> DEFINE a == p ++ s
    <3>1. a \in Texts /\ Len(a) = Len(p) + Len(s) /\ t = a ++ q
      BY <1>1
    <3> HIDE DEF a, t
    <3>2. a ++ q \in Texts /\ Len(a ++ q) = Len(a) + Len(q)
      BY <3>1, CatLemma
    <3> QED
      BY <3>1, <3>2, CatLemma
  <2>2. Len(p) + Len(s) \in Len(p) .. Len(t) /\ Len(p) + Len(s) - Len(p) = Len(s)
    BY <2>1
  <2> DEFINE m == Len(p) + Len(s)
             a == Slice(t, Len(p), m)
  <2>3. /\ a \in Texts /\ Len(a) = m - Len(p)
        /\ \A k \in 1 .. m - Len(p) : a[k] = t[Len(p) + k]
    BY <2>1, <2>2, SliceLemma
  <2>4. \A k \in 1 .. Len(s) : t[Len(p) + k] = s[k]
    <3> SUFFICES ASSUME NEW k \in 1 .. Len(s) PROVE t[Len(p) + k] = s[k]
      OBVIOUS
    <3>1. Len(p) + k \in 1 .. Len(p ++ s)
      BY <1>1, <2>1
    <3> DEFINE b == p ++ s
               j == Len(p) + k
    <3>2. b \in Texts /\ j \in 1 .. Len(b) /\ (p ++ s) ++ q = b ++ q
      BY <1>1, <3>1
    <3>3. b[j] = s[k]
      BY CatLemma
    <3> HIDE DEF b, j
    <3>4. (b ++ q)[j] = b[j]
      BY <3>2, CatLemma
    <3> QED
      BY <3>2, <3>3, <3>4 DEF j
  <2>5. m - Len(p) = Len(s)
    BY <2>2
  <2> HIDE DEF a, m
  <2>6. a = s
    BY <2>3, <2>4, <2>5, SameTextLemma
  <2> QED
    BY <2>6 DEF a, m
<1>5. Without(t, Len(p), Len(s)) = Slice(t, 0, Len(p)) ++ Slice(t, Len(p) + Len(s), Len(t))
  BY DEF Without, ++
<1> QED
  BY <1>2, <1>3, <1>4, <1>5

-----------------------------------------------------------------------------
(* Changes, and the texts that a log leads through.                        *)

Lines == {l \in [text : Texts, pos : Nat] : l.pos <= Len(l.text)}

LEMMA ChangeLemma ==
  ASSUME NEW c \in Changes
  PROVE  /\ c.kind \in {"begin", "end", "insert", "delete", "replace"}
         /\ c.idx \in Nat /\ c.old \in Texts /\ c.new \in Texts
         /\ c.kind = "delete" => c.new = <<>>
         /\ c.kind = "insert" => c.old = <<>>
         /\ c.kind = "begin" => c = Begin
         /\ c.kind = "end" => c = End
         /\ (c = Begin \/ c = End) => c.kind \in {"begin", "end"}
<1>1. <<>> \in Texts
  BY EmptyLemma
<1>2. CASE c \in {Begin, End}
  BY <1>1, <1>2 DEF Begin, End
<1> DEFINE Inserts == [kind : {"insert"}, idx : Nat, old : {<<>>}, new : Seq(Chars)]
           Deletes == [kind : {"delete"}, idx : Nat, old : Seq(Chars), new : {<<>>}]
           Replaces == [kind : {"replace"}, idx : Nat, old : Seq(Chars), new : Seq(Chars)]
<1>a. Begin.kind = "begin" /\ End.kind = "end"
  BY DEF Begin, End
<1>3. CASE c \in Inserts
  <2>1. c.kind = "insert" /\ c.idx \in Nat /\ c.old = <<>> /\ c.new \in Texts
    BY <1>3 DEF Texts
  <2> QED
    BY <1>1, <1>a, <2>1
<1>4. CASE c \in Deletes
  <2>1. c.kind = "delete" /\ c.idx \in Nat /\ c.old \in Texts /\ c.new = <<>>
    BY <1>4 DEF Texts
  <2> QED
    BY <1>1, <1>a, <2>1
<1>5. CASE c \in Replaces
  <2>1. c.kind = "replace" /\ c.idx \in Nat /\ c.old \in Texts /\ c.new \in Texts
    BY <1>5 DEF Texts
  <2> QED
    BY <1>a, <2>1
<1> QED
  BY <1>2, <1>3, <1>4, <1>5 DEF Changes

\* The changes there are.
LEMMA MakeLemma ==
  ASSUME NEW i \in Nat, NEW old \in Texts, NEW new \in Texts
  PROVE  /\ Begin \in Changes /\ End \in Changes
         /\ Change("insert", i, <<>>, new) \in Changes
         /\ Change("delete", i, old, <<>>) \in Changes
         /\ Change("replace", i, old, new) \in Changes
  BY DEF Change, Changes, Texts

\* Change c made the text after of the text before.
Leads(c, before, after) ==
  IF c.kind \in {"begin", "end"} THEN after = before
  ELSE \E p, q \in Texts : /\ Len(p) = c.idx
                           /\ before = (p ++ c.old) ++ q /\ after = (p ++ c.new) ++ q

LEMMA UndoneLemma ==
  ASSUME NEW c \in Changes, NEW l \in Lines, NEW before \in Texts, Leads(c, before, l.text)
  PROVE  Fits(c, l) /\ Undone(c, l) \in Lines /\ Undone(c, l).text = before
<1>1. CASE c.kind \in {"begin", "end"}
  BY <1>1 DEF Leads, Fits, Undone
<1>2. CASE c.kind \notin {"begin", "end"}
  <2>0. c.idx \in Nat /\ c.old \in Texts /\ c.new \in Texts
    BY ChangeLemma
  <2>1. PICK p \in Texts, q \in Texts : /\ Len(p) = c.idx
                                        /\ before = (p ++ c.old) ++ q
                                        /\ l.text = (p ++ c.new) ++ q
    BY <1>2 DEF Leads
  <2>2. /\ Without(l.text, c.idx, Len(c.new)) = p ++ q
        /\ Slice(l.text, c.idx, c.idx + Len(c.new)) = c.new
    <3>1. /\ Without((p ++ c.new) ++ q, Len(p), Len(c.new)) = p ++ q
          /\ Slice((p ++ c.new) ++ q, Len(p), Len(p) + Len(c.new)) = c.new
      BY <2>0, WithoutLemma
    <3> QED
      BY <2>1, <3>1
  <2>3. With(p ++ q, c.idx, c.old) = before
    <3>1. With(p ++ q, Len(p), c.old) = (p ++ c.old) ++ q
      BY <2>0, WithLemma
    <3> QED
      BY <2>1, <3>1
  <2>4. Undone(c, l) = At(before, c.idx + Len(c.old))
    BY <1>2, <2>2, <2>3 DEF Undone
  <2>5. /\ c.idx + Len(c.new) <= Len(l.text)
        /\ c.idx + Len(c.old) \in Nat /\ c.idx + Len(c.old) <= Len(before)
    <3>1. /\ Len(p ++ c.new) = Len(p) + Len(c.new) /\ Len(p ++ c.old) = Len(p) + Len(c.old)
          /\ p ++ c.new \in Texts /\ p ++ c.old \in Texts
          /\ Len(p) \in Nat /\ Len(c.new) \in Nat /\ Len(c.old) \in Nat /\ Len(q) \in Nat
      BY <2>0, CatLemma
    <3>2. /\ Len((p ++ c.new) ++ q) = Len(p ++ c.new) + Len(q)
          /\ Len((p ++ c.old) ++ q) = Len(p ++ c.old) + Len(q)
      BY <3>1, CatLemma
    <3> QED
      BY <2>1, <3>1, <3>2
  <2> QED
    BY <2>2, <2>4, <2>5 DEF Fits, At, Lines
<1> QED
  BY <1>1, <1>2

\* The texts h, from the empty line to t, that the changes of the log lead through.
IsTrace(h, u, t) ==
  /\ h \in [0 .. Len(u) -> Texts]
  /\ h[0] = <<>> /\ h[Len(u)] = t
  /\ \A i \in 1 .. Len(u) : Leads(u[i], h[i - 1], h[i])

Traced(u, t) == \E h : IsTrace(h, u, t)

LEMMA EmptyTraceLemma == Traced(<<>>, <<>>)
<1> DEFINE h == [i \in 0 .. 0 |-> <<>>]
<1>1. /\ h \in [0 .. Len(<<>>) -> Texts] /\ h[0] = <<>> /\ h[Len(<<>>)] = <<>>
      /\ 1 .. Len(<<>>) = {}
  BY EmptyLemma
<1> HIDE DEF h
<1>2. IsTrace(h, <<>>, <<>>)
  BY <1>1 DEF IsTrace
<1> QED
  BY <1>2 DEF Traced

\* A change more leads through a text more.
LEMMA ExtendLemma ==
  ASSUME NEW u \in Seq(Changes), NEW c \in Changes, NEW t \in Texts, NEW t2 \in Texts,
         NEW h, IsTrace(h, u, t), Leads(c, t, t2)
  PROVE  \E g : IsTrace(g, Append(u, c), t2) /\ \A i \in 0 .. Len(u) : g[i] = h[i]
<1> DEFINE n == Len(u)
           v == Append(u, c)
<1>1. /\ v \in Seq(Changes) /\ Len(v) = n + 1 /\ v[n + 1] = c /\ n \in Nat
      /\ \A i \in 1 .. n : v[i] = u[i]
  BY AppendProperties, LenProperties
<1> DEFINE g == [i \in 0 .. n + 1 |-> IF i = n + 1 THEN t2 ELSE h[i]]
<1>3. /\ h \in [0 .. n -> Texts] /\ h[0] = <<>> /\ h[n] = t
      /\ \A i \in 1 .. n : Leads(u[i], h[i - 1], h[i])
  BY DEF IsTrace
<1> HIDE DEF n, v
<1>4. /\ g \in [0 .. n + 1 -> Texts] /\ g[0] = <<>> /\ g[n + 1] = t2
      /\ \A i \in 0 .. n : g[i] = h[i]
  BY <1>1, <1>3
<1> HIDE DEF g
<1>5. ASSUME NEW i \in 1 .. n + 1
      PROVE  Leads(v[i], g[i - 1], g[i])
  <2>1. CASE i \in 1 .. n
    <3>1. i - 1 \in 0 .. n /\ i \in 0 .. n
      BY <1>1, <2>1
    <3>2. v[i] = u[i] /\ g[i] = h[i] /\ g[i - 1] = h[i - 1]
      BY <1>1, <1>4, <2>1, <3>1
    <3> QED
      BY <1>3, <2>1, <3>2
  <2>2. CASE i \notin 1 .. n
    <3>1. i = n + 1 /\ n \in 0 .. n /\ i - 1 = n
      BY <1>1, <2>2
    <3>2. v[i] = c /\ g[i] = t2 /\ g[i - 1] = t
      BY <1>1, <1>3, <1>4, <3>1
    <3> QED
      BY <3>2
  <2> QED
    BY <2>1, <2>2
<1>6. IsTrace(g, v, t2)
  BY <1>1, <1>4, <1>5 DEF IsTrace
<1> QED
  BY <1>4, <1>6 DEF v, n

LEMMA AppendTraceLemma ==
  ASSUME NEW u \in Seq(Changes), NEW c \in Changes, NEW t \in Texts, NEW t2 \in Texts,
         Traced(u, t), Leads(c, t, t2)
  PROVE  Append(u, c) \in Seq(Changes) /\ Traced(Append(u, c), t2)
<1>1. PICK h : IsTrace(h, u, t)
  BY DEF Traced
<1>2. Append(u, c) \in Seq(Changes)
  BY AppendProperties
<1> QED
  BY <1>1, <1>2, ExtendLemma DEF Traced

LEMMA FrontLemma ==
  ASSUME NEW u \in Seq(Changes), u # <<>>
  PROVE  /\ Front(u) \in Seq(Changes) /\ Last(u) \in Changes /\ Len(u) \in Nat \ {0}
         /\ Last(u) = u[Len(u)]
         /\ Len(Front(u)) = Len(u) - 1
         /\ \A i \in 1 .. Len(u) - 1 : Front(u)[i] = u[i]
<1> DEFINE n == Len(u) - 1
<1>1. Len(u) \in Nat \ {0} /\ \A i \in 1 .. Len(u) : u[i] \in Changes
  BY EmptySeq, ElementOfSeq
<1>2. 1 \in Int /\ n \in Int /\ n - 1 + 1 = n /\ (1 <= n \/ n = 0)
      /\ \A i \in 1 .. n : 1 + i - 1 = i /\ i \in 1 .. Len(u)
  <2>1. Len(u) \in Nat \ {0}
    BY <1>1
  <2>2. \A i \in 1 .. n : 1 + i - 1 = i
    BY <2>1
  <2>3. \A i \in 1 .. n : i \in 1 .. Len(u)
    BY <2>1
  <2>4. n \in Nat
    BY <2>1
  <2> HIDE DEF n
  <2>5. 1 <= n \/ n = 0
    BY <2>4
  <2> QED
    BY <2>2, <2>3, <2>4, <2>5
<1>3. Front(u) = SubSeq(u, 1, n)
  BY DEF Front
<1> HIDE DEF n
<1>4. /\ Front(u) \in Seq(Changes)
      /\ Len(Front(u)) = IF 1 <= n THEN n - 1 + 1 ELSE 0
      /\ \A i \in 1 .. n - 1 + 1 : Front(u)[i] = u[1 + i - 1]
  BY <1>1, <1>2, <1>3, SubSeqProperties
<1>5. Len(Front(u)) = n /\ \A i \in 1 .. n : Front(u)[i] = u[i]
  BY <1>2, <1>4
<1>6. Last(u) = u[Len(u)] /\ Len(u) \in 1 .. Len(u)
  BY <1>1 DEF Last
<1> QED
  BY <1>1, <1>4, <1>5, <1>6 DEF n

LEMMA FrontTraceLemma ==
  ASSUME NEW u \in Seq(Changes), u # <<>>, NEW t \in Texts, Traced(u, t)
  PROVE  \E before \in Texts : Traced(Front(u), before) /\ Leads(Last(u), before, t)
<1> DEFINE n == Len(u) - 1
<1>1. /\ Front(u) \in Seq(Changes) /\ Len(u) \in Nat \ {0} /\ Last(u) = u[Len(u)]
      /\ Len(Front(u)) = n
      /\ \A i \in 1 .. n : Front(u)[i] = u[i]
  BY FrontLemma
<1>2. PICK h : IsTrace(h, u, t)
  BY DEF Traced
<1>3. /\ h \in [0 .. Len(u) -> Texts] /\ h[0] = <<>> /\ h[Len(u)] = t
      /\ \A i \in 1 .. Len(u) : Leads(u[i], h[i - 1], h[i])
  BY <1>2 DEF IsTrace
<1>4. n \in Nat /\ Len(u) = n + 1 /\ n \in 0 .. Len(u) /\ Len(u) \in 1 .. Len(u)
  BY <1>1
<1> DEFINE g == [i \in 0 .. n |-> h[i]]
<1>5. /\ g \in [0 .. n -> Texts] /\ g[0] = <<>> /\ g[n] = h[n]
      /\ \A i \in 0 .. n : g[i] = h[i]
  BY <1>3, <1>4
<1>6. Leads(Last(u), h[n], t)
  BY <1>1, <1>3, <1>4
<1> HIDE DEF n, g
<1>7. ASSUME NEW i \in 1 .. n PROVE Leads(Front(u)[i], g[i - 1], g[i])
  <2>1. i - 1 \in 0 .. n /\ i \in 0 .. n /\ i \in 1 .. Len(u)
    BY <1>4
  <2>2. Front(u)[i] = u[i] /\ g[i] = h[i] /\ g[i - 1] = h[i - 1]
    BY <1>1, <1>5, <2>1
  <2> QED
    BY <1>3, <2>1, <2>2
<1>8. IsTrace(g, Front(u), h[n])
  BY <1>1, <1>5, <1>7 DEF IsTrace
<1>9. h[n] \in Texts
  BY <1>3, <1>4
<1> QED
  BY <1>6, <1>8, <1>9 DEF Traced

-----------------------------------------------------------------------------
(* What is logged of an insertion, a deletion and a replacement.           *)

LEMMA LeadsLemma ==
  ASSUME NEW kind \in {"insert", "delete", "replace"},
         NEW p \in Texts, NEW q \in Texts, NEW old \in Texts, NEW new \in Texts
  PROVE  Leads(Change(kind, Len(p), old, new), (p ++ old) ++ q, (p ++ new) ++ q)
  BY DEF Leads, Change

LEMMA ShapeLemma ==
  ASSUME NEW c \in Changes, c.kind \notin {"begin", "end"}
  PROVE  c = Change(c.kind, c.idx, c.old, c.new)
<1>1. Begin.kind = "begin" /\ End.kind = "end"
  BY DEF Begin, End
<1>2. c \in [kind : {"insert"}, idx : Nat, old : {<<>>}, new : Seq(Chars)]
        \cup [kind : {"delete"}, idx : Nat, old : Seq(Chars), new : {<<>>}]
        \cup [kind : {"replace"}, idx : Nat, old : Seq(Chars), new : Seq(Chars)]
  <2>1. c # Begin /\ c # End
    BY <1>1
  <2> QED
    BY <2>1 DEF Changes
<1> QED
  BY <1>2 DEF Change

LEMMA PlaceLemma ==
  ASSUME NEW t \in Texts, NEW i \in 0 .. Len(t)
  PROVE  \E p, q \in Texts : Len(p) = i /\ t = p ++ q
  BY CutLemma

LEMMA InsertLemma ==
  ASSUME NEW t \in Texts, NEW i \in 0 .. Len(t), NEW s \in Texts
  PROVE  /\ With(t, i, s) \in Texts /\ Len(With(t, i, s)) = Len(t) + Len(s)
         /\ Leads(Change("insert", i, <<>>, s), t, With(t, i, s))
<1>1. PICK p \in Texts, q \in Texts : Len(p) = i /\ t = p ++ q
  BY PlaceLemma
<1>2. With(t, i, s) = (p ++ s) ++ q
  <2>1. With(p ++ q, Len(p), s) = (p ++ s) ++ q
    BY WithLemma
  <2> QED
    BY <1>1, <2>1
<1>3. /\ (p ++ s) ++ q \in Texts /\ p ++ s \in Texts
      /\ Len((p ++ s) ++ q) = Len(p ++ s) + Len(q)
      /\ Len(p ++ s) = Len(p) + Len(s) /\ Len(p ++ q) = Len(p) + Len(q)
      /\ Len(p) \in Nat /\ Len(q) \in Nat /\ Len(s) \in Nat
  <2>1. p ++ s \in Texts /\ Len(p ++ s) = Len(p) + Len(s)
    BY CatLemma
  <2> QED
    BY <2>1, CatLemma
<1>4. Leads(Change("insert", Len(p), <<>>, s), (p ++ <<>>) ++ q, (p ++ s) ++ q)
  BY LeadsLemma, EmptyLemma
<1>5. p ++ <<>> = p
  BY EmptyLemma
<1> QED
  BY <1>1, <1>2, <1>3, <1>4, <1>5

LEMMA DeleteLemma ==
  ASSUME NEW t \in Texts, NEW i \in Nat, NEW n \in Nat, i + n <= Len(t)
  PROVE  /\ Without(t, i, n) \in Texts /\ Len(Without(t, i, n)) = Len(t) - n
         /\ Slice(t, i, i + n) \in Texts /\ Len(Slice(t, i, i + n)) = n
         /\ Leads(Change("delete", i, Slice(t, i, i + n), <<>>), t, Without(t, i, n))
<1>1. PICK p \in Texts, s \in Texts, q \in Texts :
        Len(p) = i /\ Len(s) = n /\ t = (p ++ s) ++ q
  BY StretchLemma
<1>2. Without(t, i, n) = p ++ q /\ Slice(t, i, i + n) = s
  <2>1. /\ Without((p ++ s) ++ q, Len(p), Len(s)) = p ++ q
        /\ Slice((p ++ s) ++ q, Len(p), Len(p) + Len(s)) = s
    BY WithoutLemma
  <2> QED
    BY <1>1, <2>1
<1>3. /\ p ++ q \in Texts /\ Len(t) = Len(p) + Len(s) + Len(q)
      /\ Len(p ++ q) = Len(p) + Len(q)
      /\ Len(p) \in Nat /\ Len(q) \in Nat /\ Len(s) \in Nat
  <2>1. p ++ s \in Texts /\ Len(p ++ s) = Len(p) + Len(s)
    BY CatLemma
  <2>2. Len((p ++ s) ++ q) = Len(p ++ s) + Len(q)
    BY <2>1, CatLemma
  <2>3. p ++ q \in Texts /\ Len(p ++ q) = Len(p) + Len(q)
        /\ Len(p) \in Nat /\ Len(q) \in Nat /\ Len(s) \in Nat
    BY CatLemma
  <2> QED
    BY <1>1, <2>1, <2>2, <2>3
<1>4. Leads(Change("delete", Len(p), s, <<>>), (p ++ s) ++ q, (p ++ <<>>) ++ q)
  BY LeadsLemma, EmptyLemma
<1>5. p ++ <<>> = p
  BY EmptyLemma
<1> QED
  BY <1>1, <1>2, <1>3, <1>4, <1>5

LEMMA ReplaceLemma ==
  ASSUME NEW t \in Texts, NEW i \in Nat, NEW n \in Nat, i + n <= Len(t), NEW s \in Texts
  PROVE  /\ With(Without(t, i, n), i, s) \in Texts
         /\ Len(With(Without(t, i, n), i, s)) = Len(t) - n + Len(s)
         /\ Leads(Change("replace", i, Slice(t, i, i + n), s), t, With(Without(t, i, n), i, s))
<1>1. PICK p \in Texts, old \in Texts, q \in Texts :
        Len(p) = i /\ Len(old) = n /\ t = (p ++ old) ++ q
  BY StretchLemma
<1>2. Without(t, i, n) = p ++ q /\ Slice(t, i, i + n) = old
  <2>1. /\ Without((p ++ old) ++ q, Len(p), Len(old)) = p ++ q
        /\ Slice((p ++ old) ++ q, Len(p), Len(p) + Len(old)) = old
    BY WithoutLemma
  <2> QED
    BY <1>1, <2>1
<1>3. With(Without(t, i, n), i, s) = (p ++ s) ++ q
  <2>1. With(p ++ q, Len(p), s) = (p ++ s) ++ q
    BY WithLemma
  <2> QED
    BY <1>1, <1>2, <2>1
<1>4. Leads(Change("replace", Len(p), old, s), (p ++ old) ++ q, (p ++ s) ++ q)
  BY LeadsLemma
<1>5. /\ With(Without(t, i, n), i, s) \in Texts
      /\ Len(With(Without(t, i, n), i, s)) = Len(t) - n + Len(s)
  <2>1. Without(t, i, n) \in Texts /\ Len(Without(t, i, n)) = Len(t) - n
    BY DeleteLemma
  <2>2. i \in 0 .. Len(Without(t, i, n))
    <3>1. Len(t) \in Nat
      BY LenProperties DEF Texts
    <3> QED
      BY <2>1, <3>1
  <2> DEFINE w == Without(t, i, n)
  <2> HIDE DEF w
  <2>3. w \in Texts /\ i \in 0 .. Len(w) /\ Len(w) = Len(t) - n
    BY <2>1, <2>2 DEF w
  <2>4. With(w, i, s) \in Texts /\ Len(With(w, i, s)) = Len(w) + Len(s)
    BY <2>3, InsertLemma
  <2> QED
    BY <2>3, <2>4 DEF w
<1> QED
  BY <1>1, <1>2, <1>3, <1>4, <1>5

\* A letter typed after an insertion becomes part of it.
LEMMA LogCharLemma ==
  ASSUME NEW u \in Seq(Changes), NEW t \in Texts, Traced(u, t),
         NEW i \in 0 .. Len(t), NEW c \in Chars
  PROVE  LogChar(u, i, c) \in Seq(Changes) /\ Traced(LogChar(u, i, c), With(t, i, <<c>>))
<1>0. <<c>> \in Texts /\ With(t, i, <<c>>) \in Texts /\ i \in Nat
  <2>1. <<c>> \in Texts
    BY DEF Texts
  <2> QED
    BY <2>1, InsertLemma
<1>1. CASE InsertSeq(c, i, u)
  <2> DEFINE d == Last(u)
             x == Append(d.new, c)
             e == [d EXCEPT !.new = x]
  <2>1. u # <<>> /\ d.kind = "insert" /\ d.idx + Len(d.new) = i
    BY <1>1 DEF InsertSeq
  <2>2. /\ d \in Changes /\ Front(u) \in Seq(Changes)
        /\ d.idx \in Nat /\ d.old = <<>> /\ d.new \in Texts
    BY <2>1, FrontLemma, ChangeLemma
  <2>3. Append(d.new, c) \in Texts /\ Append(d.new, c) = d.new ++ <<c>>
    BY <2>2, AppendProperties, AppendIsConcat DEF Texts, ++
  <2>4. e = Change("insert", d.idx, <<>>, d.new ++ <<c>>)
    <3>1. d = Change("insert", d.idx, <<>>, d.new)
      BY <2>1, <2>2, ShapeLemma
    <3> DEFINE di == d.idx
               dn == d.new
    <3>2. d = Change("insert", di, <<>>, dn)
      BY <3>1
    <3> HIDE DEF d, x, di, dn
    <3>3. [d EXCEPT !.new = x] = Change("insert", di, <<>>, x)
      BY <3>2 DEF Change
    <3> QED
      BY <2>3, <3>3 DEF x, di
  <2>5. PICK before \in Texts : Traced(Front(u), before) /\ Leads(d, before, t)
    BY <2>1, FrontTraceLemma
  <2> HIDE DEF d, e
  <2>6. PICK p \in Texts, q \in Texts :
          Len(p) = d.idx /\ before = (p ++ <<>>) ++ q /\ t = (p ++ d.new) ++ q
    BY <2>1, <2>2, <2>5 DEF Leads
  <2>7. With(t, i, <<c>>) = (p ++ (d.new ++ <<c>>)) ++ q
    <3>1. p ++ d.new \in Texts /\ Len(p ++ d.new) = i
      <4>1. p ++ d.new \in Texts /\ Len(p ++ d.new) = Len(p) + Len(d.new)
        BY <2>2, CatLemma
      <4> QED
        BY <2>1, <2>6, <4>1
    <3>2. With((p ++ d.new) ++ q, Len(p ++ d.new), <<c>>) = ((p ++ d.new) ++ <<c>>) ++ q
      BY <1>0, <3>1, WithLemma
    <3>3. (p ++ d.new) ++ <<c>> = p ++ (d.new ++ <<c>>)
      BY <1>0, <2>2, AssocLemma
    <3> QED
      BY <2>6, <3>1, <3>2, <3>3
  <2>8. Leads(e, before, With(t, i, <<c>>))
    <3>1. d.new ++ <<c>> \in Texts /\ <<>> \in Texts
      BY <2>3, EmptyLemma
    <3>2. Leads(Change("insert", Len(p), <<>>, d.new ++ <<c>>),
                (p ++ <<>>) ++ q, (p ++ (d.new ++ <<c>>)) ++ q)
      BY <3>1, LeadsLemma
    <3> QED
      BY <2>4, <2>6, <2>7, <3>2
  <2>9. e \in Changes
    BY <2>2, <2>3, <2>4, MakeLemma
  <2>10. LogChar(u, i, c) = Append(Front(u), e)
    <3>1. LogChar(u, i, c) = Front(u) \o <<e>>
      BY <1>1 DEF LogChar, d, e
    <3> QED
      BY <2>2, <2>9, <3>1, AppendIsConcat
  <2> QED
    BY <1>0, <2>2, <2>5, <2>8, <2>9, <2>10, AppendTraceLemma
<1>2. CASE ~InsertSeq(c, i, u)
  <2>1. LogChar(u, i, c) = Append(u, Change("insert", i, <<>>, <<c>>))
    BY <1>2 DEF LogChar
  <2>2. Change("insert", i, <<>>, <<c>>) \in Changes
    BY <1>0, MakeLemma
  <2>3. Leads(Change("insert", i, <<>>, <<c>>), t, With(t, i, <<c>>))
    BY <1>0, InsertLemma
  <2> QED
    BY <1>0, <2>1, <2>2, <2>3, AppendTraceLemma
<1> QED
  BY <1>1, <1>2

LEMMA LogInsertLemma ==
  ASSUME NEW u \in Seq(Changes), NEW t \in Texts, Traced(u, t),
         NEW i \in 0 .. Len(t), NEW s \in Texts
  PROVE  LogInsert(u, i, s) \in Seq(Changes) /\ Traced(LogInsert(u, i, s), With(t, i, s))
<1>1. CASE s = <<>>
  <2>1. With(t, i, s) = t
    <3>1. PICK p \in Texts, q \in Texts : Len(p) = i /\ t = p ++ q
      BY PlaceLemma
    <3>2. With(p ++ q, Len(p), <<>>) = (p ++ <<>>) ++ q
      BY WithLemma, EmptyLemma
    <3>3. p ++ <<>> = p
      BY EmptyLemma
    <3> QED
      BY <1>1, <3>1, <3>2, <3>3
  <2> QED
    BY <1>1, <2>1 DEF LogInsert
<1>2. CASE s # <<>>
  <2>1. LogInsert(u, i, s) = Append(u, Change("insert", i, <<>>, s))
    BY <1>2 DEF LogInsert
  <2>2. Change("insert", i, <<>>, s) \in Changes /\ With(t, i, s) \in Texts
    BY MakeLemma, InsertLemma
  <2>3. Leads(Change("insert", i, <<>>, s), t, With(t, i, s))
    BY InsertLemma
  <2> QED
    BY <2>1, <2>2, <2>3, AppendTraceLemma
<1> QED
  BY <1>1, <1>2

\* A text cut at one place has one left and one right part.
LEMMA SplitLemma ==
  ASSUME NEW p \in Texts, NEW q \in Texts, NEW p2 \in Texts, NEW q2 \in Texts,
         p ++ q = p2 ++ q2, Len(p) = Len(p2)
  PROVE  p = p2 /\ q = q2
<1>1. Slice(p ++ q, 0, Len(p)) = p /\ Slice(p ++ q, Len(p), Len(p ++ q)) = q
  BY PartsLemma
<1>2. Slice(p2 ++ q2, 0, Len(p2)) = p2 /\ Slice(p2 ++ q2, Len(p2), Len(p2 ++ q2)) = q2
  BY PartsLemma
<1> QED
  BY <1>1, <1>2

LEMMA AroundLemma ==
  ASSUME NEW t \in Texts, NEW i \in Nat, NEW n \in Nat, i + n <= Len(t)
  PROVE  \E p, s, q \in Texts :
           /\ Len(p) = i /\ Len(s) = n /\ t = (p ++ s) ++ q
           /\ Slice(t, i, i + n) = s /\ Without(t, i, n) = p ++ q
           /\ \A new \in Texts : With(Without(t, i, n), i, new) = (p ++ new) ++ q
<1>1. PICK p \in Texts, s \in Texts, q \in Texts :
        Len(p) = i /\ Len(s) = n /\ t = (p ++ s) ++ q
  BY StretchLemma
<1>2. Without(t, i, n) = p ++ q /\ Slice(t, i, i + n) = s
  <2>1. /\ Without((p ++ s) ++ q, Len(p), Len(s)) = p ++ q
        /\ Slice((p ++ s) ++ q, Len(p), Len(p) + Len(s)) = s
    BY WithoutLemma
  <2> QED
    BY <1>1, <2>1
<1>3. \A new \in Texts : With(Without(t, i, n), i, new) = (p ++ new) ++ q
  <2> SUFFICES ASSUME NEW new \in Texts
               PROVE  With(Without(t, i, n), i, new) = (p ++ new) ++ q
    OBVIOUS
  <2>1. With(p ++ q, Len(p), new) = (p ++ new) ++ q
    BY WithLemma
  <2> QED
    BY <1>1, <1>2, <2>1
<1> HIDE DEF Texts
<1> QED
  BY <1>1, <1>2, <1>3

\* Four texts, joined in any order.
LEMMA FourLemma ==
  ASSUME NEW p \in Texts, NEW r \in Texts, NEW s \in Texts, NEW q \in Texts,
         NEW x, NEW y, NEW z, x = r ++ s, y = s ++ q, z = p ++ r
  PROVE  /\ x \in Texts /\ y \in Texts /\ z \in Texts
         /\ (p ++ x) ++ q = z ++ y
         /\ (p ++ x) ++ q = (z ++ s) ++ q
<1>1. x \in Texts /\ y \in Texts /\ z \in Texts
  BY CatLemma
<1>2. z ++ s = p ++ x
  BY AssocLemma
<1>3. (z ++ s) ++ q = z ++ y
  BY <1>1, AssocLemma
<1> QED
  BY <1>1, <1>2, <1>3

\* A deletion, given by the text that it left.
LEMMA LeftLemma ==
  ASSUME NEW d \in Changes, d.kind = "delete", NEW before \in Texts, NEW t \in Texts,
         Leads(d, before, t)
  PROVE  /\ d = Change("delete", d.idx, d.old, <<>>) /\ d.old \in Texts
         /\ \E p, q \in Texts : Len(p) = d.idx /\ before = (p ++ d.old) ++ q /\ t = p ++ q
<1>1. d = Change(d.kind, d.idx, d.old, d.new) /\ d.old \in Texts /\ d.new = <<>>
  BY ShapeLemma, ChangeLemma
<1>2. PICK p \in Texts, q \in Texts :
        Len(p) = d.idx /\ before = (p ++ d.old) ++ q /\ t = (p ++ d.new) ++ q
  BY DEF Leads
<1>3. t = p ++ q
  <2>1. p ++ <<>> = p
    BY EmptyLemma
  <2> QED
    BY <1>1, <1>2, <2>1
<1> HIDE DEF Texts
<1> QED
  BY <1>1, <1>2, <1>3

\* A letter deleted where the last deletion was becomes part of it: after it when
\* it was deleted at the same place, before it when it ended there.
LEMMA MergedAfterLemma ==
  ASSUME NEW d \in Changes, d.kind = "delete", NEW before \in Texts,
         NEW p \in Texts, NEW s \in Texts, NEW q \in Texts,
         Leads(d, before, (p ++ s) ++ q), d.idx = Len(p)
  PROVE  /\ MergedDelete(d, Len(p), s) \in Changes
         /\ Leads(MergedDelete(d, Len(p), s), before, p ++ q)
<1> DEFINE old == d.old
<1>1. (p ++ s) ++ q \in Texts /\ (p ++ s) ++ q = p ++ (s ++ q) /\ s ++ q \in Texts
  <2>1. p ++ s \in Texts /\ s ++ q \in Texts
    BY CatLemma
  <2>2. (p ++ s) ++ q \in Texts
    BY <2>1, CatLemma
  <2>3. (p ++ s) ++ q = p ++ (s ++ q)
    BY AssocLemma
  <2> QED
    BY <2>1, <2>2, <2>3
<1>2. /\ d = Change("delete", d.idx, old, <<>>) /\ old \in Texts
      /\ \E p1, q1 \in Texts : /\ Len(p1) = d.idx /\ before = (p1 ++ old) ++ q1
                               /\ (p ++ s) ++ q = p1 ++ q1
  BY <1>1, LeftLemma
<1> HIDE DEF old
<1>3. PICK p1 \in Texts, q1 \in Texts : /\ Len(p1) = d.idx /\ before = (p1 ++ old) ++ q1
                                        /\ (p ++ s) ++ q = p1 ++ q1
  BY <1>2
<1>4. p1 = p /\ q1 = s ++ q
  <2>1. p1 ++ q1 = p ++ (s ++ q) /\ Len(p1) = Len(p)
    BY <1>1, <1>3
  <2> QED
    BY <1>1, <2>1, SplitLemma
<1>a. old \in Texts
  BY <1>2
<1> DEFINE x == old ++ s
           y == s ++ q
           z == p ++ old
<1>5. x \in Texts /\ before = (p ++ x) ++ q
  <2>1. x = old ++ s /\ y = s ++ q /\ z = p ++ old
    OBVIOUS
  <2>2. before = z ++ y
    BY <1>3, <1>4
  <2> HIDE DEF x, y, z
  <2>3. x \in Texts /\ (p ++ x) ++ q = z ++ y
    BY <1>a, <2>1, FourLemma
  <2> QED
    BY <2>2, <2>3
<1> HIDE DEF x, y, z
<1>6. MergedDelete(d, Len(p), s) = Change("delete", Len(p), x, <<>>)
  <2>1. MergedDelete(d, Len(p), s) = [d EXCEPT !.old = x]
    BY DEF MergedDelete, x, old, ++
  <2>2. d = Change("delete", Len(p), old, <<>>)
    BY <1>2
  <2>3. [d EXCEPT !.old = x] = Change("delete", Len(p), x, <<>>)
    BY <2>2 DEF Change
  <2> QED
    BY <2>1, <2>3
<1>7. x \in Texts /\ <<>> \in Texts /\ p ++ <<>> = p /\ Len(p) \in Nat
  BY <1>5, EmptyLemma, CatLemma
<1>8. Leads(Change("delete", Len(p), x, <<>>), (p ++ x) ++ q, (p ++ <<>>) ++ q)
  BY <1>7, LeadsLemma
<1>9. Change("delete", Len(p), x, <<>>) \in Changes
  BY <1>7, MakeLemma
<1> QED
  BY <1>5, <1>6, <1>7, <1>8, <1>9

LEMMA MergedBeforeLemma ==
  ASSUME NEW d \in Changes, d.kind = "delete", NEW before \in Texts,
         NEW p \in Texts, NEW s \in Texts, NEW q \in Texts, s # <<>>,
         Leads(d, before, (p ++ s) ++ q), d.idx = Len(p) + Len(s)
  PROVE  /\ MergedDelete(d, Len(p), s) \in Changes
         /\ Leads(MergedDelete(d, Len(p), s), before, p ++ q)
<1> DEFINE old == d.old
<1>1. /\ p ++ s \in Texts /\ Len(p ++ s) = Len(p) + Len(s) /\ (p ++ s) ++ q \in Texts
      /\ Len(p) \in Nat /\ Len(s) \in Nat \ {0}
  <2>1. p ++ s \in Texts /\ Len(p ++ s) = Len(p) + Len(s) /\ Len(p) \in Nat /\ Len(s) \in Nat
    BY CatLemma
  <2>2. (p ++ s) ++ q \in Texts
    BY <2>1, CatLemma
  <2>3. Len(s) # 0
    BY EmptyLemma
  <2> QED
    BY <2>1, <2>2, <2>3
<1>2. /\ d = Change("delete", d.idx, old, <<>>) /\ old \in Texts
      /\ \E p1, q1 \in Texts : /\ Len(p1) = d.idx /\ before = (p1 ++ old) ++ q1
                               /\ (p ++ s) ++ q = p1 ++ q1
  BY <1>1, LeftLemma
<1> HIDE DEF old
<1>3. PICK p1 \in Texts, q1 \in Texts : /\ Len(p1) = d.idx /\ before = (p1 ++ old) ++ q1
                                        /\ (p ++ s) ++ q = p1 ++ q1
  BY <1>2
<1>4. p1 = p ++ s /\ q1 = q
  <2>1. p1 ++ q1 = (p ++ s) ++ q /\ Len(p1) = Len(p ++ s)
    BY <1>1, <1>3
  <2> QED
    BY <1>1, <2>1, SplitLemma
<1>a. old \in Texts
  BY <1>2
<1> DEFINE x == s ++ old
           y == old ++ q
           z == p ++ s
<1>5. x \in Texts /\ before = (p ++ x) ++ q
  <2>1. x = s ++ old /\ y = old ++ q /\ z = p ++ s
    OBVIOUS
  <2>2. before = (z ++ old) ++ q
    BY <1>3, <1>4
  <2> HIDE DEF x, y, z
  <2>3. x \in Texts /\ (p ++ x) ++ q = (z ++ old) ++ q
    BY <1>a, <2>1, FourLemma
  <2> QED
    BY <2>2, <2>3
<1> HIDE DEF x, y, z
<1>6. MergedDelete(d, Len(p), s) = Change("delete", Len(p), x, <<>>)
  <2>1. d.idx # Len(p)
    BY <1>1
  <2>2. MergedDelete(d, Len(p), s) = [d EXCEPT !.old = x, !.idx = Len(p)]
    BY <2>1 DEF MergedDelete, x, old, ++
  <2> DEFINE i == d.idx
             j == Len(p)
  <2>3. d = Change("delete", i, old, <<>>)
    BY <1>2
  <2> HIDE DEF i, j
  <2>4. [d EXCEPT !.old = x, !.idx = j] = Change("delete", j, x, <<>>)
    <3> DEFINE b == [d EXCEPT !.old = x]
    <3>1. b = [kind |-> "delete", idx |-> i, old |-> x, new |-> <<>>]
      BY <2>3 DEF Change
    <3>2. [d EXCEPT !.old = x, !.idx = j] = [b EXCEPT !.idx = j]
      OBVIOUS
    <3> HIDE DEF b
    <3>3. [b EXCEPT !.idx = j] = Change("delete", j, x, <<>>)
      BY <3>1 DEF Change
    <3> QED
      BY <3>2, <3>3
  <2> QED
    BY <2>2, <2>4 DEF j
<1>7. x \in Texts /\ <<>> \in Texts /\ p ++ <<>> = p
  BY <1>5, EmptyLemma
<1>8. Leads(Change("delete", Len(p), x, <<>>), (p ++ x) ++ q, (p ++ <<>>) ++ q)
  BY <1>7, LeadsLemma
<1>9. Change("delete", Len(p), x, <<>>) \in Changes
  BY <1>1, <1>7, MakeLemma
<1> QED
  BY <1>5, <1>6, <1>7, <1>8, <1>9

LEMMA LogDeleteLemma ==
  ASSUME NEW u \in Seq(Changes), NEW t \in Texts, Traced(u, t),
         NEW i \in Nat, NEW n \in Nat, i + n <= Len(t)
  PROVE  /\ LogDelete(u, i, Slice(t, i, i + n)) \in Seq(Changes)
         /\ Traced(LogDelete(u, i, Slice(t, i, i + n)), Without(t, i, n))
<1> DEFINE after == Without(t, i, n)
           cut == Slice(t, i, i + n)
<1>1. cut \in Texts /\ after \in Texts /\ Leads(Change("delete", i, cut, <<>>), t, after)
  BY DeleteLemma
<1>2. \E p, s, q \in Texts : /\ Len(p) = i /\ Len(s) = n /\ t = (p ++ s) ++ q
                             /\ cut = s /\ after = p ++ q
                             /\ \A new \in Texts : With(after, i, new) = (p ++ new) ++ q
  BY AroundLemma
<1> HIDE DEF after, cut
<1>3. PICK p \in Texts, s \in Texts, q \in Texts :
        Len(p) = i /\ Len(s) = n /\ t = (p ++ s) ++ q /\ cut = s /\ after = p ++ q
  BY <1>2
<1>4. CASE cut = <<>>
  <2>1. p ++ <<>> = p
    BY EmptyLemma
  <2>2. after = t
    BY <1>3, <1>4, <2>1
  <2> QED
    BY <1>4, <2>2 DEF LogDelete, after, cut
<1>5. CASE /\ cut # <<>>
           /\ SingleChar(cut) /\ u # <<>> /\ Last(u).kind = "delete"
           /\ Last(u).idx \in {i, i + Len(cut)}
  <2> DEFINE d == Last(u)
             m == MergedDelete(d, i, cut)
  <2>1. LogDelete(u, i, cut) = Append(Front(u), m)
    BY <1>5 DEF LogDelete
  <2>2. PICK before \in Texts : Traced(Front(u), before) /\ Leads(d, before, t)
    BY <1>5, FrontTraceLemma
  <2>3. d \in Changes /\ Front(u) \in Seq(Changes)
    BY <1>5, FrontLemma
  <2>4. d.kind = "delete" /\ (d.idx = i \/ d.idx = i + Len(cut))
    BY <1>5
  <2> HIDE DEF d
  <2>5. Leads(d, before, (p ++ s) ++ q)
    BY <1>3, <2>2
  <2>6. m \in Changes /\ Leads(m, before, after)
    <3>1. CASE d.idx = i
      <4>1. d.idx = Len(p)
        BY <1>3, <3>1
      <4>2. /\ MergedDelete(d, Len(p), s) \in Changes
            /\ Leads(MergedDelete(d, Len(p), s), before, p ++ q)
        BY <2>3, <2>4, <2>5, <4>1, MergedAfterLemma
      <4> QED
        BY <1>3, <4>2
    <3>2. CASE d.idx = i + Len(cut)
      <4>1. d.idx = Len(p) + Len(s) /\ s # <<>>
        BY <1>3, <1>5, <3>2
      <4>2. /\ MergedDelete(d, Len(p), s) \in Changes
            /\ Leads(MergedDelete(d, Len(p), s), before, p ++ q)
        BY <2>3, <2>4, <2>5, <4>1, MergedBeforeLemma
      <4> QED
        BY <1>3, <4>2
    <3> QED
      BY <2>4, <3>1, <3>2
  <2> HIDE DEF m
  <2>7. LogDelete(u, i, cut) \in Seq(Changes) /\ Traced(LogDelete(u, i, cut), after)
    BY <1>1, <2>1, <2>2, <2>3, <2>6, AppendTraceLemma
  <2> QED
    BY <2>7 DEF after, cut
<1>6. CASE /\ cut # <<>>
           /\ ~ /\ SingleChar(cut) /\ u # <<>> /\ Last(u).kind = "delete"
                /\ Last(u).idx \in {i, i + Len(cut)}
  <2>1. LogDelete(u, i, cut) = Append(u, Change("delete", i, cut, <<>>))
    BY <1>6 DEF LogDelete
  <2>2. Change("delete", i, cut, <<>>) \in Changes
    BY <1>1, MakeLemma
  <2>3. LogDelete(u, i, cut) \in Seq(Changes) /\ Traced(LogDelete(u, i, cut), after)
    BY <1>1, <2>1, <2>2, AppendTraceLemma
  <2> QED
    BY <2>3 DEF after, cut
<1> QED
  BY <1>4, <1>5, <1>6

\* A replacement next to the last one becomes part of it.
LEMMA LogReplaceLemma ==
  ASSUME NEW u \in Seq(Changes), NEW t \in Texts, Traced(u, t),
         NEW i \in Nat, NEW n \in Nat, i + n <= Len(t), NEW new \in Texts
  PROVE  /\ LogReplace(u, i, Slice(t, i, i + n), new) \in Seq(Changes)
         /\ Traced(LogReplace(u, i, Slice(t, i, i + n), new), With(Without(t, i, n), i, new))
<1> DEFINE cut == Slice(t, i, i + n)
           after == With(Without(t, i, n), i, new)
<1>1. cut \in Texts
  BY DeleteLemma
<1>2. after \in Texts /\ Leads(Change("replace", i, cut, new), t, after)
  BY ReplaceLemma
<1>3. \E p, s, q \in Texts : /\ Len(p) = i /\ t = (p ++ s) ++ q
                             /\ cut = s /\ after = (p ++ new) ++ q
  <2>1. PICK p \in Texts, s \in Texts, q \in Texts :
          /\ Len(p) = i /\ Len(s) = n /\ t = (p ++ s) ++ q
          /\ Slice(t, i, i + n) = s /\ Without(t, i, n) = p ++ q
          /\ \A x \in Texts : With(Without(t, i, n), i, x) = (p ++ x) ++ q
    BY AroundLemma
  <2>2. Len(p) = i /\ t = (p ++ s) ++ q /\ cut = s /\ after = (p ++ new) ++ q
    BY <2>1
  <2> HIDE DEF cut, after
  <2> QED
    BY <2>2
<1> HIDE DEF cut, after
<1>4. PICK a \in Texts, q \in Texts : Len(a) = i /\ t = (a ++ cut) ++ q /\ after = (a ++ new) ++ q
  BY <1>3
<1>5. CASE u # <<>> /\ Last(u).kind = "replace" /\ Last(u).idx + Len(Last(u).new) = i
  <2> DEFINE d == Last(u)
             j == d.idx
             dold == d.old
             dnew == d.new
             x == dold ++ cut
             y == dnew ++ new
             e == [d EXCEPT !.old = x, !.new = y]
  <2>1. LogReplace(u, i, cut, new) = Append(Front(u), e)
    BY <1>5 DEF LogReplace, ++
  <2>2. d \in Changes /\ Front(u) \in Seq(Changes)
    BY <1>5, FrontLemma
  <2>3. d = Change("replace", j, dold, dnew) /\ j \in Nat /\ dold \in Texts /\ dnew \in Texts
    BY <1>5, <2>2, ShapeLemma, ChangeLemma
  <2>4. PICK before \in Texts : Traced(Front(u), before) /\ Leads(d, before, t)
    BY <1>5, FrontTraceLemma
  <2>5. PICK p \in Texts, q1 \in Texts :
          Len(p) = d.idx /\ before = (p ++ d.old) ++ q1 /\ t = (p ++ d.new) ++ q1
    BY <1>5, <2>4 DEF Leads
  <2>6. /\ Len(p) = j /\ before = (p ++ dold) ++ q1 /\ t = (p ++ dnew) ++ q1
        /\ j + Len(dnew) = i
    BY <1>5, <2>5
  <2> HIDE DEF d, j, dold, dnew
  <2>7. e = Change("replace", j, x, y)
    <3> HIDE DEF x, y
    <3> DEFINE b == [d EXCEPT !.old = x]
    <3>1. b = [kind |-> "replace", idx |-> j, old |-> x, new |-> dnew]
      BY <2>3 DEF Change
    <3>2. e = [b EXCEPT !.new = y]
      OBVIOUS
    <3> HIDE DEF b, e
    <3>3. [b EXCEPT !.new = y] = Change("replace", j, x, y)
      BY <3>1 DEF Change
    <3> QED
      BY <3>2, <3>3
  <2> HIDE DEF e
  <2> DEFINE z == cut ++ q
             w == p ++ dold
  <2>8. p ++ dnew = a /\ q1 = z
    <3>1. /\ p ++ dnew \in Texts /\ Len(p ++ dnew) = Len(p) + Len(dnew)
          /\ z \in Texts /\ (a ++ cut) ++ q = a ++ z
      BY <1>1, <2>3, CatLemma, AssocLemma
    <3> DEFINE c == p ++ dnew
    <3>2. c \in Texts /\ c ++ q1 = a ++ z /\ Len(c) = Len(a)
      BY <1>4, <2>6, <3>1
    <3> HIDE DEF c, z
    <3>3. c = a /\ q1 = z
      BY <3>1, <3>2, SplitLemma
    <3> QED
      BY <3>3 DEF c
  <2>9. x \in Texts /\ before = (p ++ x) ++ q
    <3>1. x = dold ++ cut /\ z = cut ++ q /\ w = p ++ dold /\ before = w ++ z
      BY <2>6, <2>8
    <3> HIDE DEF x, z, w
    <3>2. x \in Texts /\ (p ++ x) ++ q = w ++ z
      BY <1>1, <2>3, <3>1, FourLemma
    <3> QED
      BY <3>1, <3>2
  <2>10. y \in Texts /\ after = (p ++ y) ++ q
    <3>1. y = dnew ++ new /\ y \in Texts /\ p ++ y = (p ++ dnew) ++ new
      BY <2>3, CatLemma, AssocLemma
    <3> QED
      BY <1>4, <2>8, <3>1
  <2> HIDE DEF x, y
  <2>11. e \in Changes
    BY <2>3, <2>7, <2>9, <2>10, MakeLemma
  <2>12. Leads(e, before, after)
    <3>1. Leads(Change("replace", Len(p), x, y), (p ++ x) ++ q, (p ++ y) ++ q)
      BY <2>9, <2>10, LeadsLemma
    <3> QED
      BY <2>6, <2>7, <2>9, <2>10, <3>1
  <2>13. LogReplace(u, i, cut, new) \in Seq(Changes) /\ Traced(LogReplace(u, i, cut, new), after)
    BY <1>2, <2>1, <2>2, <2>4, <2>11, <2>12, AppendTraceLemma
  <2> QED
    BY <2>13 DEF cut, after
<1>6. CASE ~ (u # <<>> /\ Last(u).kind = "replace" /\ Last(u).idx + Len(Last(u).new) = i)
  <2>1. LogReplace(u, i, cut, new) = Append(u, Change("replace", i, cut, new))
    BY <1>6 DEF LogReplace
  <2>2. Change("replace", i, cut, new) \in Changes
    BY <1>1, MakeLemma
  <2>3. LogReplace(u, i, cut, new) \in Seq(Changes) /\ Traced(LogReplace(u, i, cut, new), after)
    BY <1>2, <2>1, <2>2, AppendTraceLemma
  <2> QED
    BY <2>3 DEF cut, after
<1> QED
  BY <1>5, <1>6

\* The whole line is exchanged.
LEMMA WholeLemma ==
  ASSUME NEW t \in Texts, NEW new \in Texts
  PROVE  Slice(t, 0, Len(t)) = t /\ Without(t, 0, Len(t)) = <<>> /\ With(<<>>, 0, new) = new
<1>1. /\ Len(<<>>) = 0 /\ <<>> \in Texts /\ t ++ <<>> = t /\ <<>> ++ t = t
      /\ <<>> ++ new = new /\ new ++ <<>> = new /\ <<>> ++ <<>> = <<>> /\ 0 + Len(t) = Len(t)
  BY EmptyLemma, CatLemma
<1>2. /\ Without((<<>> ++ t) ++ <<>>, Len(<<>>), Len(t)) = <<>> ++ <<>>
      /\ Slice((<<>> ++ t) ++ <<>>, Len(<<>>), Len(<<>>) + Len(t)) = t
  BY <1>1, WithoutLemma
<1>3. With(<<>> ++ <<>>, Len(<<>>), new) = (<<>> ++ new) ++ <<>>
  BY <1>1, WithLemma
<1> QED
  BY <1>1, <1>2, <1>3

LEMMA LogUpdateLemma ==
  ASSUME NEW u \in Seq(Changes), NEW t \in Texts, Traced(u, t), NEW new \in Texts
  PROVE  /\ LogUpdate(u, t, new) \in Seq(Changes)
         /\ Traced(LogUpdate(u, t, new), new)
<1>1. Len(t) \in Nat /\ 0 + Len(t) = Len(t) /\ 0 + Len(t) <= Len(t)
  BY CatLemma
<1>2. /\ Slice(t, 0, Len(t)) = t /\ Without(t, 0, Len(t)) = <<>> /\ With(<<>>, 0, new) = new
      /\ <<>> \in Texts /\ 0 \in 0 .. Len(<<>>)
  BY WholeLemma, EmptyLemma
<1> DEFINE v == LogDelete(u, 0, t)
<1>3. v \in Seq(Changes) /\ Traced(v, <<>>)
  <2>1. /\ LogDelete(u, 0, Slice(t, 0, 0 + Len(t))) \in Seq(Changes)
        /\ Traced(LogDelete(u, 0, Slice(t, 0, 0 + Len(t))), Without(t, 0, Len(t)))
    BY <1>1, LogDeleteLemma
  <2> QED
    BY <1>1, <1>2, <2>1
<1> HIDE DEF v
<1>4. LogInsert(v, 0, new) \in Seq(Changes) /\ Traced(LogInsert(v, 0, new), With(<<>>, 0, new))
  BY <1>2, <1>3, LogInsertLemma
<1> QED
  BY <1>2, <1>4 DEF LogUpdate, v

-----------------------------------------------------------------------------
(* Groups.                                                                 *)

\* A set of natural numbers has a least one.
LEMMA LeastLemma ==
  ASSUME NEW T \in SUBSET Nat, T # {}
  PROVE  \E x \in T : \A y \in T : x <= y
<1> DEFINE R == OpToRel(<, Nat)
<1>1. IsWellFoundedOn(R, Nat)
  BY NatLessThanWellFounded
<1>2. \A x, y \in Nat : y < x => <<y, x>> \in R
  BY DEF OpToRel
<1> HIDE DEF R
<1>3. PICK x \in T : \A y \in T : ~ (<<y, x>> \in R)
  BY <1>1, WFMin
<1>4. \A y \in T : ~ (y < x)
  BY <1>2, <1>3
<1> QED
  BY <1>3, <1>4

\* What holds of 0, and of every number after one that it holds of, holds of all.
LEMMA InductionLemma ==
  ASSUME NEW T \in SUBSET Nat, 0 \in T, \A k \in T : k + 1 \in T
  PROVE  T = Nat
<1> SUFFICES ASSUME Nat \ T # {} PROVE FALSE
  OBVIOUS
<1>1. PICK x \in Nat \ T : \A y \in Nat \ T : x <= y
  <2>1. Nat \ T \in SUBSET Nat
    OBVIOUS
  <2> QED
    BY <2>1, LeastLemma
<1>2. x # 0 /\ x - 1 \in Nat /\ x - 1 + 1 = x
  BY <1>1
<1>3. x - 1 \in T
  BY <1>1, <1>2
<1> QED
  BY <1>1, <1>2, <1>3

\* The levels are closed one after the other.
Closing(f, u, n) == f = [k \in 0 .. n |-> IF k = 0 THEN u ELSE CloseOne(f[k - 1])]

LEMMA ClosingLemma ==
  ASSUME NEW u, NEW n \in Nat
  PROVE  \E f : Closing(f, u, n)
<1> DEFINE T == {m \in Nat : \E f : Closing(f, u, m)}
<1>1. 0 \in T
  <2> DEFINE f == [k \in 0 .. 0 |-> u]
  <2>1. f = [k \in 0 .. 0 |-> IF k = 0 THEN u ELSE CloseOne(f[k - 1])]
    OBVIOUS
  <2> HIDE DEF f
  <2>2. Closing(f, u, 0)
    BY <2>1 DEF Closing
  <2> QED
    BY <2>2
<1>2. ASSUME NEW m \in T PROVE m + 1 \in T
  <2>1. PICK f : Closing(f, u, m)
    OBVIOUS
  <2> DEFINE g == [k \in 0 .. m + 1 |-> IF k = m + 1 THEN CloseOne(f[m]) ELSE f[k]]
  <2>2. /\ m \in Nat
        /\ \A k \in 0 .. m : f[k] = IF k = 0 THEN u ELSE CloseOne(f[k - 1])
    BY <2>1 DEF Closing
  <2>3. /\ g = [k \in 0 .. m + 1 |-> g[k]]
        /\ g[m + 1] = CloseOne(f[m]) /\ \A k \in 0 .. m : g[k] = f[k]
    BY <2>2
  <2> HIDE DEF g
  <2>4. \A k \in 0 .. m + 1 : g[k] = IF k = 0 THEN u ELSE CloseOne(g[k - 1])
    <3> SUFFICES ASSUME NEW k \in 0 .. m + 1
                 PROVE  g[k] = IF k = 0 THEN u ELSE CloseOne(g[k - 1])
      OBVIOUS
    <3>1. CASE k = 0
      BY <2>2, <2>3, <3>1, 0 \in 0 .. m
    <3>2. CASE k # 0 /\ k # m + 1
      <4>1. k \in 0 .. m /\ k - 1 \in 0 .. m
        BY <2>2, <3>2
      <4> QED
        BY <2>2, <2>3, <3>2, <4>1
    <3>3. CASE k = m + 1
      <4>1. k # 0 /\ k - 1 = m /\ m \in 0 .. m
        BY <2>2, <3>3
      <4> QED
        BY <2>3, <3>3, <4>1
    <3> QED
      BY <3>1, <3>2, <3>3
  <2>5. Closing(g, u, m + 1)
    BY <2>3, <2>4 DEF Closing
  <2> QED
    BY <2>2, <2>5
<1> HIDE DEF T
<1>3. T \in SUBSET Nat
  BY DEF T
<1>4. T = Nat
  BY <1>1, <1>2, <1>3, InductionLemma
<1> QED
  BY <1>4 DEF T

\* Closed is the last of them.
LEMMA ClosedLemma ==
  ASSUME NEW u, NEW n \in Nat
  PROVE  \E f : Closing(f, u, n) /\ Closed(u, n) = f[n]
<1> DEFINE f == CHOOSE g : g = [k \in 0 .. n |-> IF k = 0 THEN u ELSE CloseOne(g[k - 1])]
<1>1. \E g : g = [k \in 0 .. n |-> IF k = 0 THEN u ELSE CloseOne(g[k - 1])]
  BY ClosingLemma DEF Closing
<1>2. f = [k \in 0 .. n |-> IF k = 0 THEN u ELSE CloseOne(f[k - 1])]
  BY <1>1
<1>3. Closed(u, n) = f[n]
  BY DEF Closed
<1> HIDE DEF f
<1> QED
  BY <1>2, <1>3 DEF Closing

LEMMA NoChangeLemma ==
  ASSUME NEW t \in Texts
  PROVE  Leads(Begin, t, t) /\ Leads(End, t, t) /\ Begin \in Changes /\ End \in Changes
<1>1. Begin.kind = "begin" /\ End.kind = "end"
  BY DEF Begin, End
<1> QED
  BY <1>1 DEF Leads, Changes

LEMMA OpenLemma ==
  ASSUME NEW u \in Seq(Changes), NEW t \in Texts, Traced(u, t)
  PROVE  Append(u, Begin) \in Seq(Changes) /\ Traced(Append(u, Begin), t)
  BY NoChangeLemma, AppendTraceLemma

\* A level is closed: its Begin is taken back or an End follows, and the text is the same.
LEMMA CloseOneLemma ==
  ASSUME NEW u \in Seq(Changes), NEW t \in Texts, Traced(u, t)
  PROVE  CloseOne(u) \in Seq(Changes) /\ Traced(CloseOne(u), t)
<1>1. CASE EmptyGroup(u)
  <2>1. u # <<>> /\ Last(u) = Begin /\ CloseOne(u) = Front(u)
    BY <1>1 DEF EmptyGroup, CloseOne
  <2>2. PICK before \in Texts : Traced(Front(u), before) /\ Leads(Begin, before, t)
    BY <2>1, FrontTraceLemma
  <2>3. Front(u) \in Seq(Changes)
    BY <2>1, FrontLemma
  <2>4. before = t
    <3>1. Begin.kind = "begin"
      BY DEF Begin
    <3> QED
      BY <2>2, <3>1 DEF Leads
  <2> QED
    BY <2>1, <2>2, <2>3, <2>4
<1>2. CASE ~EmptyGroup(u)
  <2>1. CloseOne(u) = Append(u, End)
    BY <1>2 DEF CloseOne
  <2> QED
    BY <2>1, NoChangeLemma, AppendTraceLemma
<1> QED
  BY <1>1, <1>2

LEMMA ClosedTraceLemma ==
  ASSUME NEW u \in Seq(Changes), NEW t \in Texts, Traced(u, t), NEW n \in Nat
  PROVE  Closed(u, n) \in Seq(Changes) /\ Traced(Closed(u, n), t)
<1>1. PICK f : Closing(f, u, n) /\ Closed(u, n) = f[n]
  BY ClosedLemma
<1>2. \A k \in 0 .. n : f[k] = IF k = 0 THEN u ELSE CloseOne(f[k - 1])
  BY <1>1 DEF Closing
<1> DEFINE T == {k \in Nat : k <= n => f[k] \in Seq(Changes) /\ Traced(f[k], t)}
<1>3. 0 \in T
  BY <1>2
<1>4. ASSUME NEW k \in T PROVE k + 1 \in T
  <2>1. CASE k + 1 <= n
    <3>1. k \in 0 .. n /\ k + 1 \in 0 .. n /\ k + 1 # 0 /\ k + 1 - 1 = k
      BY <2>1
    <3>2. f[k + 1] = CloseOne(f[k])
      BY <1>2, <3>1
    <3>3. f[k] \in Seq(Changes) /\ Traced(f[k], t)
      BY <3>1
    <3>4. f[k + 1] \in Seq(Changes) /\ Traced(f[k + 1], t)
      BY <3>2, <3>3, CloseOneLemma
    <3> QED
      BY <3>4
  <2>2. CASE ~(k + 1 <= n)
    BY <2>2
  <2> QED
    BY <2>1, <2>2
<1> HIDE DEF T
<1>5. T = Nat
  <2>1. T \in SUBSET Nat
    BY DEF T
  <2> QED
    BY <1>3, <1>4, <2>1, InductionLemma
<1> QED
  BY <1>1, <1>5 DEF T

\* A group of one level is closed by one End.
LEMMA OneLevelLemma ==
  ASSUME NEW u
  PROVE  Closed(u, 1) = CloseOne(u)
<1>1. PICK f : Closing(f, u, 1) /\ Closed(u, 1) = f[1]
  BY ClosedLemma
<1>2. \A k \in 0 .. 1 : f[k] = IF k = 0 THEN u ELSE CloseOne(f[k - 1])
  BY <1>1 DEF Closing
<1>3. f[0] = u /\ f[1] = CloseOne(f[0])
  <2>1. 0 \in 0 .. 1 /\ 1 \in 0 .. 1 /\ 1 # 0 /\ 1 - 1 = 0
    OBVIOUS
  <2> QED
    BY <1>2, <2>1
<1> QED
  BY <1>1, <1>3
-----------------------------------------------------------------------------
(* Undo.                                                                   *)

\* The lines that undo goes through.
Taking(f, l, u, k) ==
  f = [j \in 0 .. k |-> IF j = 0 THEN l ELSE Undone(u[Len(u) - j + 1], f[j - 1])]

LEMMA TakingLemma ==
  ASSUME NEW l, NEW u, NEW n \in Nat
  PROVE  \E f : Taking(f, l, u, n)
<1> DEFINE T == {m \in Nat : \E f : Taking(f, l, u, m)}
<1>1. 0 \in T
  <2> DEFINE f == [k \in 0 .. 0 |-> l]
  <2>1. f = [k \in 0 .. 0 |-> IF k = 0 THEN l ELSE Undone(u[Len(u) - k + 1], f[k - 1])]
    OBVIOUS
  <2> HIDE DEF f
  <2>2. Taking(f, l, u, 0)
    BY <2>1 DEF Taking
  <2> QED
    BY <2>2
<1>2. ASSUME NEW m \in T PROVE m + 1 \in T
  <2>1. PICK f : Taking(f, l, u, m)
    OBVIOUS
  <2> DEFINE last == Undone(u[Len(u) - (m + 1) + 1], f[m])
             g == [k \in 0 .. m + 1 |-> IF k = m + 1 THEN last ELSE f[k]]
  <2>2. /\ m \in Nat
        /\ \A k \in 0 .. m : f[k] = IF k = 0 THEN l ELSE Undone(u[Len(u) - k + 1], f[k - 1])
    BY <2>1 DEF Taking
  <2>3. /\ g = [k \in 0 .. m + 1 |-> g[k]]
        /\ g[m + 1] = last /\ \A k \in 0 .. m : g[k] = f[k]
    BY <2>2
  <2> HIDE DEF g
  <2>4. \A k \in 0 .. m + 1 : g[k] = IF k = 0 THEN l ELSE Undone(u[Len(u) - k + 1], g[k - 1])
    <3> SUFFICES ASSUME NEW k \in 0 .. m + 1
                 PROVE  g[k] = IF k = 0 THEN l ELSE Undone(u[Len(u) - k + 1], g[k - 1])
      OBVIOUS
    <3>1. CASE k = 0
      BY <2>2, <2>3, <3>1, 0 \in 0 .. m
    <3>2. CASE k # 0 /\ k # m + 1
      <4>1. k \in 0 .. m /\ k - 1 \in 0 .. m
        BY <2>2, <3>2
      <4> QED
        BY <2>2, <2>3, <3>2, <4>1
    <3>3. CASE k = m + 1
      <4>1. k # 0 /\ k - 1 = m /\ m \in 0 .. m
        BY <2>2, <3>3
      <4> QED
        BY <2>3, <3>3, <4>1
    <3> QED
      BY <3>1, <3>2, <3>3
  <2>5. Taking(g, l, u, m + 1)
    BY <2>3, <2>4 DEF Taking
  <2> QED
    BY <2>2, <2>5
<1> HIDE DEF T
<1>3. T \in SUBSET Nat
  BY DEF T
<1>4. T = Nat
  BY <1>1, <1>2, <1>3, InductionLemma
<1> QED
  BY <1>4 DEF T

LEMMA AfterLemma ==
  ASSUME NEW l, NEW u, NEW n \in Nat
  PROVE  \E f : Taking(f, l, u, n) /\ LineAfterUndo(l, u, n) = f[n]
<1> DEFINE f == CHOOSE g :
             g = [j \in 0 .. n |-> IF j = 0 THEN l ELSE Undone(u[Len(u) - j + 1], g[j - 1])]
<1>1. \E g : g = [j \in 0 .. n |-> IF j = 0 THEN l ELSE Undone(u[Len(u) - j + 1], g[j - 1])]
  <2> HIDE DEF f
  <2>1. PICK g : Taking(g, l, u, n)
    BY TakingLemma
  <2>2. g = [j \in 0 .. n |-> IF j = 0 THEN l ELSE Undone(u[Len(u) - j + 1], g[j - 1])]
    BY <2>1, Zenon DEF Taking
  <2> QED
    BY <2>2, Zenon
<1>2. f = [j \in 0 .. n |-> IF j = 0 THEN l ELSE Undone(u[Len(u) - j + 1], f[j - 1])]
  BY <1>1
<1>3. LineAfterUndo(l, u, n) = f[n]
  BY DEF LineAfterUndo
<1> HIDE DEF f
<1> QED
  BY <1>2, <1>3 DEF Taking

\* Taking changes back leads through the texts that they had led through, and each
\* change finds on the line what it brought.
LEMMA UndoTraceLemma ==
  ASSUME NEW u \in Seq(Changes), NEW l \in Lines, NEW h, IsTrace(h, u, l.text),
         NEW n \in 0 .. Len(u)
  PROVE  /\ LineAfterUndo(l, u, n) \in Lines
         /\ LineAfterUndo(l, u, n).text = h[Len(u) - n]
<1>1. n \in Nat /\ Len(u) \in Nat
  BY LenProperties
<1>2. PICK f : Taking(f, l, u, n) /\ LineAfterUndo(l, u, n) = f[n]
  BY <1>1, AfterLemma
<1>3. \A j \in 0 .. n : f[j] = IF j = 0 THEN l ELSE Undone(u[Len(u) - j + 1], f[j - 1])
  BY <1>2 DEF Taking
<1>4. /\ h \in [0 .. Len(u) -> Texts] /\ h[Len(u)] = l.text
      /\ \A i \in 1 .. Len(u) : Leads(u[i], h[i - 1], h[i])
  BY DEF IsTrace
<1> DEFINE T == {k \in Nat : k <= n => f[k] \in Lines /\ f[k].text = h[Len(u) - k]}
<1>5. 0 \in T
  <2>1. f[0] = l /\ Len(u) - 0 = Len(u)
    BY <1>1, <1>3, 0 \in 0 .. n
  <2> QED
    BY <1>4, <2>1
<1>6. ASSUME NEW k \in T PROVE k + 1 \in T
  <2>1. CASE k + 1 <= n
    <3> DEFINE i == Len(u) - k
    <3>1. /\ k + 1 \in 0 .. n /\ k + 1 # 0 /\ k + 1 - 1 = k
          /\ Len(u) - (k + 1) + 1 = i /\ Len(u) - (k + 1) = i - 1
          /\ i \in 1 .. Len(u) /\ i - 1 \in 0 .. Len(u) /\ i \in 0 .. Len(u)
      BY <1>1, <2>1
    <3>2. f[k + 1] = Undone(u[i], f[k])
      BY <1>3, <3>1
    <3>3. f[k] \in Lines /\ f[k].text = h[i]
      BY <1>1, <2>1
    <3> HIDE DEF i
    <3>4. u[i] \in Changes /\ Leads(u[i], h[i - 1], h[i]) /\ h[i - 1] \in Texts
      BY <1>4, <3>1, ElementOfSeq
    <3> DEFINE c == u[i]
               b == h[i - 1]
               m == f[k]
    <3>5. c \in Changes /\ m \in Lines /\ b \in Texts /\ Leads(c, b, m.text)
      BY <3>3, <3>4
    <3> HIDE DEF c, b, m
    <3>6. Undone(c, m) \in Lines /\ Undone(c, m).text = b
      BY <3>5, UndoneLemma
    <3>7. f[k + 1] \in Lines /\ f[k + 1].text = h[Len(u) - (k + 1)]
      BY <3>1, <3>2, <3>6 DEF c, b, m
    <3> QED
      BY <3>7
  <2>2. CASE ~(k + 1 <= n)
    BY <2>2
  <2> QED
    BY <2>1, <2>2
<1> HIDE DEF T
<1>7. T = Nat
  <2>1. T \in SUBSET Nat
    BY DEF T
  <2> QED
    BY <1>5, <1>6, <2>1, InductionLemma
<1> QED
  BY <1>1, <1>2, <1>7 DEF T

\* A log that leads to the text of the line agrees with it.
LEMMA AgreesLemma ==
  ASSUME log \in Seq(Changes), line \in Lines, Traced(log, line.text)
  PROVE  LogAgrees
<1>1. PICK h : IsTrace(h, log, line.text)
  BY DEF Traced
<1>2. /\ h \in [0 .. Len(log) -> Texts] /\ h[0] = <<>> /\ h[Len(log)] = line.text
      /\ \A i \in 1 .. Len(log) : Leads(log[i], h[i - 1], h[i])
  BY <1>1 DEF IsTrace
<1>3. Len(log) \in Nat
  BY LenProperties
<1>4. ASSUME NEW k \in 1 .. Len(log)
      PROVE  Fits(log[Len(log) - k + 1], LineAfterUndo(line, log, k - 1))
  <2> DEFINE l == LineAfterUndo(line, log, k - 1)
             i == Len(log) - k + 1
  <2>1. /\ k - 1 \in 0 .. Len(log) /\ Len(log) - (k - 1) = i
        /\ i \in 1 .. Len(log) /\ i \in 0 .. Len(log) /\ i - 1 \in 0 .. Len(log)
    BY <1>3
  <2>2. l \in Lines /\ l.text = h[Len(log) - (k - 1)]
    BY <1>1, <2>1, UndoTraceLemma
  <2> HIDE DEF l, i
  <2>3. l.text = h[i]
    BY <2>1, <2>2
  <2>4. log[i] \in Changes /\ h[i - 1] \in Texts /\ Leads(log[i], h[i - 1], l.text)
    BY <1>2, <2>1, <2>3, ElementOfSeq
  <2> DEFINE c == log[i]
             b == h[i - 1]
  <2> HIDE DEF c, b
  <2>5. Fits(c, l)
    <3>1. c \in Changes /\ b \in Texts /\ Leads(c, b, l.text)
      BY <2>4 DEF c, b
    <3> QED
      BY <2>2, <3>1, UndoneLemma
  <2> QED
    BY <2>5 DEF c, i, l
<1>5. LineAfterUndo(line, log, Len(log)).text = <<>>
  <2>1. Len(log) \in 0 .. Len(log) /\ Len(log) - Len(log) = 0
    BY <1>3
  <2>2. LineAfterUndo(line, log, Len(log)).text = h[Len(log) - Len(log)]
    BY <1>1, <2>1, UndoTraceLemma
  <2> QED
    BY <1>2, <2>1, <2>2
<1> QED
  BY <1>4, <1>5 DEF LogAgrees

\* As many changes as there are can be taken back.
LEMMA TakenLemma ==
  ASSUME NEW u \in Seq(Changes), NEW n \in Nat
  PROVE  Taken(u, n) \in 0 .. Len(u)
<1> DEFINE enough == {k \in 1 .. Len(u) : Cardinality({j \in 1 .. k : Whole(u, j)}) >= n}
<1>1. Len(u) \in Nat
  BY LenProperties
<1>2. enough \in SUBSET Nat /\ enough \subseteq 0 .. Len(u)
  BY <1>1
<1>3. Taken(u, n) = IF enough = {} THEN Len(u)
                    ELSE CHOOSE k \in enough : \A j \in enough : k <= j
  BY DEF Taken
<1> HIDE DEF enough
<1>4. CASE enough = {}
  BY <1>1, <1>3, <1>4
<1>5. CASE enough # {}
  <2>1. \E k \in enough : \A j \in enough : k <= j
    BY <1>2, <1>5, LeastLemma
  <2>2. Taken(u, n) \in enough
    BY <1>3, <1>5, <2>1
  <2> QED
    BY <1>2, <2>2
<1> QED
  BY <1>4, <1>5

\* The rest of the log leads to what undo left.
LEMMA RestTraceLemma ==
  ASSUME NEW u \in Seq(Changes), NEW l \in Lines, Traced(u, l.text), NEW n \in 0 .. Len(u)
  PROVE  /\ LineAfterUndo(l, u, n) \in Lines
         /\ SubSeq(u, 1, Len(u) - n) \in Seq(Changes)
         /\ Traced(SubSeq(u, 1, Len(u) - n), LineAfterUndo(l, u, n).text)
<1> DEFINE r == Len(u) - n
           v == SubSeq(u, 1, r)
<1>1. Len(u) \in Nat /\ r \in 0 .. Len(u) /\ r \in Nat
  BY LenProperties
<1>2. PICK h : IsTrace(h, u, l.text)
  BY DEF Traced
<1>3. /\ h \in [0 .. Len(u) -> Texts] /\ h[0] = <<>>
      /\ \A i \in 1 .. Len(u) : Leads(u[i], h[i - 1], h[i])
  BY <1>2 DEF IsTrace
<1>4. LineAfterUndo(l, u, n) \in Lines /\ LineAfterUndo(l, u, n).text = h[r]
  BY <1>2, UndoTraceLemma
<1>5. v \in Seq(Changes) /\ Len(v) = r /\ \A i \in 1 .. r : v[i] = u[i]
  <2> HIDE DEF r
  <2>1. 1 \in Int /\ r \in Int /\ (1 <= r \/ r = 0) /\ r - 1 + 1 = r
        /\ \A i \in 1 .. r : 1 + i - 1 = i /\ i \in 1 .. Len(u)
    BY <1>1
  <2>2. \A i \in 1 .. r : u[i] \in Changes
    BY <2>1, ElementOfSeq
  <2>3. /\ v \in Seq(Changes) /\ Len(v) = IF 1 <= r THEN r - 1 + 1 ELSE 0
        /\ \A i \in 1 .. r - 1 + 1 : v[i] = u[1 + i - 1]
    BY <2>1, <2>2, SubSeqProperties
  <2> QED
    BY <2>1, <2>3
<1> HIDE DEF r, v
<1> DEFINE g == [i \in 0 .. r |-> h[i]]
<1>6. /\ g \in [0 .. r -> Texts] /\ g[0] = <<>> /\ g[r] = h[r]
      /\ \A i \in 0 .. r : g[i] = h[i]
  BY <1>1, <1>3
<1> HIDE DEF g
<1>7. ASSUME NEW i \in 1 .. r PROVE Leads(v[i], g[i - 1], g[i])
  <2>1. i - 1 \in 0 .. r /\ i \in 0 .. r /\ i \in 1 .. Len(u)
    BY <1>1
  <2>2. v[i] = u[i] /\ g[i] = h[i] /\ g[i - 1] = h[i - 1]
    BY <1>5, <1>6, <2>1
  <2> QED
    BY <1>3, <2>1, <2>2
<1>8. IsTrace(g, v, h[r])
  BY <1>5, <1>6, <1>7 DEF IsTrace
<1>9. Traced(v, h[r])
  BY <1>8 DEF Traced
<1> QED
  BY <1>4, <1>5, <1>9 DEF v, r

-----------------------------------------------------------------------------
(* A group that one undo takes back.                                       *)

\* The log v, which leads to the text t, is one of n changes that led to the text
\* found, a Begin, and changes that are no part of a group.
Opened(v, t, n, found) ==
  /\ \E h : IsTrace(h, v, t) /\ h[n] = found
  /\ n < Len(v) /\ v[n + 1] = Begin
  /\ \A i \in n + 2 .. Len(v) : v[i].kind \notin {"begin", "end"}

LEMMA OpenedLemma ==
  ASSUME NEW u \in Seq(Changes), NEW t \in Texts, Traced(u, t)
  PROVE  Append(u, Begin) \in Seq(Changes) /\ Opened(Append(u, Begin), t, Len(u), t)
<1>1. PICK h : IsTrace(h, u, t)
  BY DEF Traced
<1>2. Begin \in Changes /\ Leads(Begin, t, t) /\ Len(u) \in Nat
  BY NoChangeLemma, LenProperties
<1>3. PICK g : IsTrace(g, Append(u, Begin), t) /\ \A i \in 0 .. Len(u) : g[i] = h[i]
  BY <1>1, <1>2, ExtendLemma
<1>4. g[Len(u)] = t
  BY <1>1, <1>2, <1>3 DEF IsTrace
<1> DEFINE v == Append(u, Begin)
<1>5. v \in Seq(Changes) /\ Len(v) = Len(u) + 1 /\ v[Len(u) + 1] = Begin
  BY <1>2, AppendProperties
<1> HIDE DEF v
<1>6. Len(u) < Len(v) /\ Len(u) + 2 .. Len(v) = {}
  BY <1>2, <1>5
<1>7. IsTrace(g, v, t)
  BY <1>3 DEF v
<1>8. Opened(v, t, Len(u), t)
  BY <1>4, <1>5, <1>6, <1>7 DEF Opened
<1> QED
  BY <1>5, <1>8 DEF v

LEMMA AppendOpenedLemma ==
  ASSUME NEW v \in Seq(Changes), NEW t \in Texts, NEW n \in Nat, NEW found, Opened(v, t, n, found),
         NEW c \in Changes, c.kind \notin {"begin", "end"}, NEW t2 \in Texts, Leads(c, t, t2)
  PROVE  Append(v, c) \in Seq(Changes) /\ Opened(Append(v, c), t2, n, found)
<1>1. PICK h : IsTrace(h, v, t) /\ h[n] = found
  BY DEF Opened
<1>2. /\ n < Len(v) /\ v[n + 1] = Begin /\ Len(v) \in Nat
      /\ \A i \in n + 2 .. Len(v) : v[i].kind \notin {"begin", "end"}
  BY LenProperties DEF Opened
<1>3. PICK g : IsTrace(g, Append(v, c), t2) /\ \A i \in 0 .. Len(v) : g[i] = h[i]
  BY <1>1, ExtendLemma
<1> DEFINE w == Append(v, c)
<1>4. /\ w \in Seq(Changes) /\ Len(w) = Len(v) + 1 /\ w[Len(v) + 1] = c
      /\ \A i \in 1 .. Len(v) : w[i] = v[i]
  BY AppendProperties
<1> HIDE DEF w
<1>5. g[n] = found
  BY <1>1, <1>2, <1>3
<1>6. n < Len(w) /\ w[n + 1] = Begin
  BY <1>2, <1>4
<1>7. ASSUME NEW i \in n + 2 .. Len(w) PROVE w[i].kind \notin {"begin", "end"}
  <2>1. CASE i = Len(v) + 1
    BY <1>4, <2>1
  <2>2. CASE i # Len(v) + 1
    <3>1. i \in n + 2 .. Len(v) /\ i \in 1 .. Len(v)
      BY <1>2, <1>4, <2>2
    <3> QED
      BY <1>2, <1>4, <3>1
  <2> QED
    BY <2>1, <2>2
<1>8. IsTrace(g, w, t2)
  BY <1>3 DEF w
<1>9. Opened(w, t2, n, found)
  BY <1>5, <1>6, <1>7, <1>8 DEF Opened
<1> QED
  BY <1>4, <1>9 DEF w

\* An insertion, a deletion and a replacement of a group.
LEMMA GroupInsertLemma ==
  ASSUME NEW v \in Seq(Changes), NEW t \in Texts, NEW n \in Nat, NEW found, Opened(v, t, n, found),
         NEW i \in 0 .. Len(t), NEW s \in Texts
  PROVE  /\ LogInsert(v, i, s) \in Seq(Changes)
         /\ Opened(LogInsert(v, i, s), With(t, i, s), n, found)
<1>1. CASE s = <<>>
  <2>1. With(t, i, s) = t
    <3>1. PICK p \in Texts, q \in Texts : Len(p) = i /\ t = p ++ q
      BY PlaceLemma
    <3>2. With(p ++ q, Len(p), <<>>) = (p ++ <<>>) ++ q
      BY WithLemma, EmptyLemma
    <3>3. p ++ <<>> = p
      BY EmptyLemma
    <3> QED
      BY <1>1, <3>1, <3>2, <3>3
  <2> QED
    BY <1>1, <2>1 DEF LogInsert
<1>2. CASE s # <<>>
  <2> DEFINE c == Change("insert", i, <<>>, s)
             t2 == With(t, i, s)
  <2>1. LogInsert(v, i, s) = Append(v, c)
    BY <1>2 DEF LogInsert
  <2>2. c \in Changes /\ c.kind \notin {"begin", "end"}
    <3>1. c.kind = "insert"
      BY DEF Change
    <3> QED
      BY <3>1, MakeLemma
  <2>3. t2 \in Texts /\ Leads(c, t, t2)
    BY InsertLemma
  <2> HIDE DEF c, t2
  <2>4. LogInsert(v, i, s) \in Seq(Changes) /\ Opened(LogInsert(v, i, s), t2, n, found)
    BY <2>1, <2>2, <2>3, AppendOpenedLemma
  <2> QED
    BY <2>4 DEF t2
<1> QED
  BY <1>1, <1>2

LEMMA GroupDeleteLemma ==
  ASSUME NEW v \in Seq(Changes), NEW t \in Texts, NEW n \in Nat, NEW found, Opened(v, t, n, found),
         v # <<>>, Last(v) = Begin,
         NEW i \in Nat, NEW m \in Nat, i + m <= Len(t)
  PROVE  /\ LogDelete(v, i, Slice(t, i, i + m)) \in Seq(Changes)
         /\ Opened(LogDelete(v, i, Slice(t, i, i + m)), Without(t, i, m), n, found)
<1> DEFINE s == Slice(t, i, i + m)
           t2 == Without(t, i, m)
           c == Change("delete", i, s, <<>>)
<1>1. s \in Texts /\ t2 \in Texts /\ Len(s) = m /\ Leads(c, t, t2)
  BY DeleteLemma
<1>2. CASE s = <<>>
  <2>1. LogDelete(v, i, s) = v
    BY <1>2 DEF LogDelete
  <2>2. t2 = t
    <3>1. PICK p \in Texts, a \in Texts, q \in Texts :
            /\ Len(p) = i /\ Len(a) = m /\ t = (p ++ a) ++ q
            /\ Slice(t, i, i + m) = a /\ Without(t, i, m) = p ++ q
            /\ \A x \in Texts : With(Without(t, i, m), i, x) = (p ++ x) ++ q
      BY AroundLemma
    <3>2. a = <<>> /\ t2 = p ++ q /\ t = (p ++ a) ++ q /\ p ++ <<>> = p
      BY <1>2, <3>1, EmptyLemma
    <3> HIDE DEF t2
    <3> QED
      BY <3>2
  <2> QED
    BY <2>1, <2>2
<1>3. CASE s # <<>>
  <2>1. LogDelete(v, i, s) = Append(v, c)
    <3>1. Last(v).kind # "delete"
      BY DEF Begin
    <3> QED
      BY <1>3, <3>1 DEF LogDelete
  <2>2. c \in Changes /\ c.kind \notin {"begin", "end"}
    <3>1. c.kind = "delete"
      BY DEF Change
    <3>2. Change("delete", i, s, <<>>) \in Changes
      BY <1>1, MakeLemma
    <3> QED
      BY <3>1, <3>2
  <2> HIDE DEF c, t2, s
  <2>4. LogDelete(v, i, s) \in Seq(Changes) /\ Opened(LogDelete(v, i, s), t2, n, found)
    BY <1>1, <2>1, <2>2, AppendOpenedLemma
  <2> QED
    BY <2>4 DEF t2, s
<1> QED
  BY <1>2, <1>3

LEMMA GroupReplaceLemma ==
  ASSUME NEW v \in Seq(Changes), NEW t \in Texts, NEW n \in Nat, NEW found, Opened(v, t, n, found),
         v # <<>>, Last(v) = Begin,
         NEW i \in Nat, NEW m \in Nat, i + m <= Len(t), NEW new \in Texts
  PROVE  /\ LogReplace(v, i, Slice(t, i, i + m), new) \in Seq(Changes)
         /\ Opened(LogReplace(v, i, Slice(t, i, i + m), new),
                   With(Without(t, i, m), i, new), n, found)
<1> DEFINE s == Slice(t, i, i + m)
           t2 == With(Without(t, i, m), i, new)
           c == Change("replace", i, s, new)
<1>1. s \in Texts /\ t2 \in Texts /\ Leads(c, t, t2)
  BY DeleteLemma, ReplaceLemma
<1>2. LogReplace(v, i, s, new) = Append(v, c)
  <2>1. Last(v).kind # "replace"
    BY DEF Begin
  <2> QED
    BY <2>1 DEF LogReplace
<1>3. c \in Changes /\ c.kind \notin {"begin", "end"}
  <2>1. c.kind = "replace"
    BY DEF Change
  <2>2. Change("replace", i, s, new) \in Changes
    BY <1>1, MakeLemma
  <2> QED
    BY <2>1, <2>2
<1> HIDE DEF c, t2, s
<1>4. LogReplace(v, i, s, new) \in Seq(Changes) /\ Opened(LogReplace(v, i, s, new), t2, n, found)
  BY <1>1, <1>2, <1>3, AppendOpenedLemma
<1> QED
  BY <1>4 DEF t2, s

LEMMA GroupUpdateLemma ==
  ASSUME NEW v \in Seq(Changes), NEW t \in Texts, NEW n \in Nat, NEW found, Opened(v, t, n, found),
         v # <<>>, Last(v) = Begin, NEW new \in Texts
  PROVE  LogUpdate(v, t, new) \in Seq(Changes) /\ Opened(LogUpdate(v, t, new), new, n, found)
<1>1. Len(t) \in Nat /\ 0 + Len(t) = Len(t) /\ 0 + Len(t) <= Len(t)
  BY CatLemma
<1>2. /\ Slice(t, 0, Len(t)) = t /\ Without(t, 0, Len(t)) = <<>> /\ With(<<>>, 0, new) = new
      /\ <<>> \in Texts /\ 0 \in 0 .. Len(<<>>)
  BY WholeLemma, EmptyLemma
<1> DEFINE w == LogDelete(v, 0, t)
<1>3. w \in Seq(Changes) /\ Opened(w, <<>>, n, found)
  <2>1. /\ LogDelete(v, 0, Slice(t, 0, 0 + Len(t))) \in Seq(Changes)
        /\ Opened(LogDelete(v, 0, Slice(t, 0, 0 + Len(t))), Without(t, 0, Len(t)), n, found)
    BY <1>1, GroupDeleteLemma
  <2> QED
    BY <1>1, <1>2, <2>1
<1> HIDE DEF w
<1>4. /\ LogInsert(w, 0, new) \in Seq(Changes)
      /\ Opened(LogInsert(w, 0, new), With(<<>>, 0, new), n, found)
  BY <1>2, <1>3, GroupInsertLemma
<1> QED
  BY <1>2, <1>4 DEF LogUpdate, w

LEMMA OneLemma ==
  ASSUME NEW a \in Int
  PROVE  Cardinality({a}) = 1 /\ Cardinality({}) = 0
  BY FS_Singleton, FS_EmptySet

\* In a log that ends with a whole group, of m changes between its Begin and its End,
\* undo does not stop before it has taken back the Begin.
LEMMA TakenGroupLemma ==
  ASSUME NEW w, NEW n \in Nat, NEW m \in Nat \ {0}, Len(w) = n + m + 2,
         w[n + 1] = Begin, w[n + m + 2] = End,
         \A i \in n + 2 .. n + m + 1 : w[i].kind \notin {"begin", "end"}
  PROVE  Taken(w, 1) = m + 2
<1>0. /\ Begin.kind = "begin" /\ End.kind = "end"
  BY DEF Begin, End
<1>1. ASSUME NEW j \in 1 .. m + 1 PROVE ~Whole(w, j)
  <2> DEFINE tail == Len(w) - j + 1 .. Len(w)
             Ends == {i \in tail : w[i] = End}
             Begins == {i \in tail : w[i] = Begin}
  <2>1. \A i \in tail : i = n + m + 2 \/ i \in n + 2 .. n + m + 1
    OBVIOUS
  <2>2. n + m + 2 \in tail
    OBVIOUS
  <2> HIDE DEF tail
  <2>3. Ends = {n + m + 2} /\ Begins = {}
    BY <1>0, <2>1, <2>2
  <2>4. Waiting(w, j) = Cardinality(Ends) - Cardinality(Begins)
    BY DEF Waiting, tail
  <2> HIDE DEF Ends, Begins
  <2>5. Cardinality(Ends) = 1 /\ Cardinality(Begins) = 0
    BY <2>3, OneLemma
  <2> QED
    BY <2>4, <2>5 DEF Whole
<1>2. Whole(w, m + 2)
  <2> DEFINE tail == Len(w) - (m + 2) + 1 .. Len(w)
             Ends == {i \in tail : w[i] = End}
             Begins == {i \in tail : w[i] = Begin}
  <2>1. \A i \in tail : i = n + m + 2 \/ i = n + 1 \/ i \in n + 2 .. n + m + 1
    OBVIOUS
  <2>2. n + m + 2 \in tail /\ n + 1 \in tail
    OBVIOUS
  <2> HIDE DEF tail
  <2>3. Ends = {n + m + 2} /\ Begins = {n + 1}
    BY <1>0, <2>1, <2>2
  <2>4. Waiting(w, m + 2) = Cardinality(Ends) - Cardinality(Begins)
    BY DEF Waiting, tail
  <2> HIDE DEF Ends, Begins
  <2>5. Cardinality(Ends) = 1 /\ Cardinality(Begins) = 1
    BY <2>3, OneLemma
  <2> QED
    BY <2>4, <2>5 DEF Whole
<1> DEFINE W(k) == {j \in 1 .. k : Whole(w, j)}
<1>3. ASSUME NEW k \in 1 .. m + 1 PROVE Cardinality(W(k)) = 0
  <2>1. W(k) = {}
    BY <1>1
  <2> QED
    BY <2>1, FS_EmptySet
<1>4. Cardinality(W(m + 2)) = 1
  <2>1. W(m + 2) = {m + 2}
    <3>1. \A j \in 1 .. m + 2 : j \in 1 .. m + 1 \/ j = m + 2
      OBVIOUS
    <3>2. m + 2 \in 1 .. m + 2
      OBVIOUS
    <3> QED
      BY <1>1, <1>2, <3>1, <3>2
  <2> QED
    BY <2>1, OneLemma
<1> DEFINE enough == {k \in 1 .. Len(w) : Cardinality(W(k)) >= 1}
<1>5. Taken(w, 1) = IF enough = {} THEN Len(w) ELSE CHOOSE k \in enough : \A j \in enough : k <= j
  BY DEF Taken
<1> HIDE DEF W
<1>6. m + 2 \in enough
  BY <1>4
<1>7. \A k \in enough : m + 2 <= k
  <2> SUFFICES ASSUME NEW k \in enough, ~(m + 2 <= k) PROVE FALSE
    OBVIOUS
  <2>1. k \in 1 .. m + 1 /\ Cardinality(W(k)) >= 1
    OBVIOUS
  <2> QED
    BY <1>3, <2>1
<1>8. enough \subseteq Int
  OBVIOUS
<1> HIDE DEF enough
<1> DEFINE c == CHOOSE k \in enough : \A j \in enough : k <= j
<1>9. c \in enough /\ \A j \in enough : c <= j
  BY <1>6, <1>7
<1>10. Taken(w, 1) = c
  BY <1>5, <1>6
<1> HIDE DEF c
<1>11. c <= m + 2 /\ m + 2 <= c /\ c \in Int
  BY <1>6, <1>7, <1>8, <1>9
<1> QED
  BY <1>10, <1>11

\* One undo after a closed group gives the text that the group found.
LEMMA WholeGroupLemma ==
  ASSUME NEW v \in Seq(Changes), NEW n \in Nat, NEW found \in Texts, NEW l \in Lines,
         Opened(v, l.text, n, found), l.text # found
  PROVE  LineAfterUndo(l, CloseOne(v), Taken(CloseOne(v), 1)).text = found
<1>1. PICK h : IsTrace(h, v, l.text) /\ h[n] = found
  BY DEF Opened
<1>2. /\ n < Len(v) /\ v[n + 1] = Begin /\ Len(v) \in Nat
      /\ \A i \in n + 2 .. Len(v) : v[i].kind \notin {"begin", "end"}
  BY LenProperties DEF Opened
<1>3. Len(v) # n + 1
  <2> SUFFICES ASSUME Len(v) = n + 1 PROVE FALSE
    OBVIOUS
  <2>1. n + 1 \in 1 .. Len(v) /\ n + 1 - 1 = n
    BY <1>2
  <2>2. Leads(v[n + 1], h[n], h[n + 1]) /\ h[Len(v)] = l.text
    BY <1>1, <2>1 DEF IsTrace
  <2>3. Leads(Begin, found, l.text)
    BY <1>1, <1>2, <2>2
  <2>4. Begin.kind = "begin"
    BY DEF Begin
  <2> QED
    BY <2>3, <2>4 DEF Leads
<1> DEFINE m == Len(v) - n - 1
           w == Append(v, End)
<1>4. m \in Nat \ {0} /\ Len(v) = n + m + 1
  BY <1>2, <1>3
<1> HIDE DEF m
<1>5. CloseOne(v) = w
  <2>1. v # <<>> /\ Last(v) = v[Len(v)] /\ Len(v) \in n + 2 .. Len(v)
    <3>1. v # <<>>
      BY <1>2, EmptySeq
    <3>2. Len(v) \in n + 2 .. Len(v)
      BY <1>4
    <3> QED
      BY <3>1, <3>2, FrontLemma
  <2>2. Last(v) # Begin
    <3>1. Begin.kind = "begin"
      BY DEF Begin
    <3> QED
      BY <1>2, <2>1, <3>1
  <2> QED
    BY <2>2 DEF CloseOne, EmptyGroup
<1>6. /\ w \in Seq(Changes) /\ Len(w) = n + m + 2 /\ w[n + m + 2] = End
      /\ \A i \in 1 .. n + m + 1 : w[i] = v[i]
  <2>1. End \in Changes
    BY NoChangeLemma
  <2>2. /\ w \in Seq(Changes) /\ Len(w) = Len(v) + 1 /\ w[Len(v) + 1] = End
        /\ \A i \in 1 .. Len(v) : w[i] = v[i]
    BY <2>1, AppendProperties
  <2>3. Len(v) + 1 = n + m + 2
    BY <1>4
  <2> HIDE DEF w
  <2> QED
    BY <1>4, <2>2, <2>3
<1>7. PICK g : IsTrace(g, w, l.text) /\ \A i \in 0 .. Len(v) : g[i] = h[i]
  <2>1. End \in Changes /\ l.text \in Texts /\ Leads(End, l.text, l.text)
    BY NoChangeLemma DEF Lines
  <2> QED
    BY <1>1, <2>1, ExtendLemma
<1> HIDE DEF w
<1>8. Taken(w, 1) = m + 2
  <2>1. n + 1 \in 1 .. n + m + 1 /\ \A i \in n + 2 .. n + m + 1 : i \in 1 .. n + m + 1
    BY <1>4
  <2>2. w[n + 1] = Begin /\ \A i \in n + 2 .. n + m + 1 : w[i].kind \notin {"begin", "end"}
    BY <1>2, <1>4, <1>6, <2>1
  <2> QED
    BY <1>4, <1>6, <2>2, TakenGroupLemma
<1>9. LineAfterUndo(l, w, m + 2).text = g[n]
  <2>1. m + 2 \in 0 .. Len(w) /\ Len(w) - (m + 2) = n
    BY <1>4, <1>6
  <2>2. LineAfterUndo(l, w, m + 2).text = g[Len(w) - (m + 2)]
    BY <1>6, <1>7, <2>1, UndoTraceLemma
  <2> QED
    BY <2>1, <2>2
<1>10. g[n] = found
  <2>1. n \in 0 .. Len(v)
    BY <1>2
  <2> QED
    BY <1>1, <1>7, <2>1
<1> QED
  BY <1>5, <1>8, <1>9, <1>10

-----------------------------------------------------------------------------
(* The invariant.                                                          *)

Recalls == [on : BOOLEAN, saved : Lines]
Ghosts == [group : Texts \cup {NoText}, kill : Texts \cup {NoText}, claim : BOOLEAN]

RingType(r) ==
  /\ r \in [slots : Seq(Texts), index : Nat \ {0}, last : {"kill", "yank", "other"}, size : Nat]
  /\ \/ r.index \in DOMAIN r.slots
     \/ r.slots = <<>> /\ r.index = 1 /\ r.last = "other"

EditSound == line \in Lines /\ log \in Seq(Changes) /\ Traced(log, line.text) /\ level \in Nat
RingSound == RingType(ring) /\ YankPopFits /\ KillsComeBack
GhostSound == ghost \in Ghosts /\ UndoIsWhole

\* The log leads from the empty line to the line, whatever was merged in it.
Sound == EditSound /\ RingSound /\ GhostSound /\ recall \in Recalls

LEMMA CharsLemma ==
  /\ Entry \in Texts /\ Rest \in Texts /\ Newline \in Chars /\ Letters \subseteq Chars
  /\ \A c \in Chars : <<c>> \in Texts /\ Len(<<c>>) = 1
<1>1. Letters \subseteq Chars /\ Newline \in Chars /\ Entry \in Texts
  BY LineEditorAssumption DEF Chars, Texts
<1>2. Rest \in Texts
  BY <1>1, LineEditorAssumption, SeqMonotonic DEF Texts
<1>3. \A c \in Chars : <<c>> \in Texts /\ Len(<<c>>) = 1
  BY DEF Texts
<1> QED
  BY <1>1, <1>2, <1>3

LEMMA AtLemma ==
  ASSUME NEW t \in Texts, NEW i \in 0 .. Len(t)
  PROVE  At(t, i) \in Lines /\ At(t, i).text = t /\ At(t, i).pos = i
<1>1. i \in Nat
  BY CatLemma
<1> QED
  BY <1>1 DEF At, Lines

LEMMA LineLemma ==
  ASSUME NEW l \in Lines
  PROVE  /\ l.text \in Texts /\ l.pos \in Nat /\ Len(l.text) \in Nat
         /\ l.pos \in 0 .. Len(l.text) /\ l = At(l.text, l.pos)
<1>1. l \in [text : Texts, pos : Nat] /\ l.pos <= Len(l.text)
  BY DEF Lines
<1>2. l.text \in Texts /\ l.pos \in Nat /\ l = [text |-> l.text, pos |-> l.pos]
  BY <1>1
<1>3. Len(l.text) \in Nat
  BY <1>2, CatLemma
<1> QED
  BY <1>1, <1>2, <1>3 DEF At

\* The ring.
LEMMA ResetLemma ==
  ASSUME NEW r, RingType(r)
  PROVE  RingType(Reset(r)) /\ Reset(r).last = "other"
<1>1. Reset(r) = [slots |-> r.slots, index |-> r.index, last |-> "other", size |-> 0]
  <2> DEFINE b == [r EXCEPT !.last = "other"]
  <2>1. b = [slots |-> r.slots, index |-> r.index, last |-> "other", size |-> r.size]
    BY DEF RingType
  <2>2. Reset(r) = [b EXCEPT !.size = 0]
    BY DEF Reset
  <2> HIDE DEF b
  <2> QED
    BY <2>1, <2>2
<1> QED
  BY <1>1 DEF RingType

LEMMA SlotLemma ==
  ASSUME NEW r, RingType(r), r.slots # <<>> \/ r.last # "other"
  PROVE  /\ r.slots \in Seq(Texts) /\ r.slots # <<>> /\ Len(r.slots) \in Nat \ {0}
         /\ r.index \in 1 .. Len(r.slots) /\ r.index \in Nat \ {0} /\ r.slots[r.index] \in Texts
         /\ r.size \in Nat
<1>1. /\ r.slots \in Seq(Texts) /\ r.index \in DOMAIN r.slots /\ r.index \in Nat \ {0}
      /\ r.size \in Nat
  BY DEF RingType
<1>2. Len(r.slots) \in Nat /\ r.index \in 1 .. Len(r.slots)
  BY <1>1, LenProperties
<1>3. r.slots[r.index] \in Texts
  BY <1>1, <1>2, ElementOfSeq
<1>4. r.slots # <<>>
  BY <1>2, EmptySeq
<1> QED
  BY <1>1, <1>2, <1>3, <1>4

LEMMA YankedLemma ==
  ASSUME NEW r, RingType(r), r.slots # <<>>
  PROVE  /\ RingType(Yanked(r)) /\ Yanked(r).last = "yank"
         /\ Yanked(r).slots = r.slots /\ Yanked(r).index = r.index
         /\ Yanked(r).size = Len(r.slots[r.index])
<1>1. Yanked(r) = [slots |-> r.slots, index |-> r.index, last |-> "yank",
                   size |-> Len(r.slots[r.index])]
  <2> DEFINE n == Len(r.slots[r.index])
             b == [r EXCEPT !.last = "yank"]
  <2>1. b = [slots |-> r.slots, index |-> r.index, last |-> "yank", size |-> r.size]
    BY DEF RingType
  <2>2. Yanked(r) = [b EXCEPT !.size = n]
    BY DEF Yanked
  <2> HIDE DEF b, n
  <2>3. [b EXCEPT !.size = n] = [slots |-> r.slots, index |-> r.index, last |-> "yank", size |-> n]
    BY <2>1
  <2> QED
    BY <2>2, <2>3 DEF n
<1>2. r.slots[r.index] \in Texts /\ Len(r.slots[r.index]) \in Nat
  BY SlotLemma, CatLemma
<1>3. r.slots \in Seq(Texts) /\ r.index \in Nat \ {0} /\ r.index \in DOMAIN r.slots
  BY DEF RingType
<1> QED
  BY <1>1, <1>2, <1>3 DEF RingType

LEMMA RotatedLemma ==
  ASSUME NEW r, RingType(r), r.slots # <<>>
  PROVE  RingType(Rotated(r)) /\ Rotated(r).slots = r.slots
<1>1. /\ r.slots \in Seq(Texts) /\ Len(r.slots) \in Nat \ {0} /\ r.index \in 1 .. Len(r.slots)
      /\ DOMAIN r.slots = 1 .. Len(r.slots)
  BY SlotLemma, LenProperties
<1> DEFINE i == IF r.index = 1 THEN Len(r.slots) ELSE r.index - 1
<1>2. Rotated(r) = [slots |-> r.slots, index |-> i, last |-> r.last, size |-> r.size]
  BY DEF RingType, Rotated
<1>3. i \in 1 .. Len(r.slots) /\ i \in Nat \ {0}
  BY <1>1
<1> HIDE DEF i
<1>4. r.last \in {"kill", "yank", "other"} /\ r.size \in Nat
  BY DEF RingType
<1> QED
  BY <1>1, <1>2, <1>3, <1>4 DEF RingType

\* What was killed is in the slot of the ring, after or before what the run had killed.
LEMMA KilledLemma ==
  ASSUME NEW r, RingType(r), NEW s \in Texts, NEW dir
  PROVE  LET k == Killed(r, s, dir) IN
         /\ RingType(k) /\ k.last = "kill"
         /\ k.slots[k.index] = IF r.last = "kill" THEN Joined(r.slots[r.index], s, dir) ELSE s
<1> DEFINE k == Killed(r, s, dir)
<1>1. /\ r.slots \in Seq(Texts) /\ r.index \in Nat \ {0} /\ r.size \in Nat
      /\ DOMAIN r.slots = 1 .. Len(r.slots) /\ Len(r.slots) \in Nat
      /\ \A i \in 1 .. Len(r.slots) : r.slots[i] \in Texts
  <2>1. r.slots \in Seq(Texts) /\ r.index \in Nat \ {0} /\ r.size \in Nat
    BY DEF RingType
  <2> QED
    BY <2>1, LenProperties, ElementOfSeq
<1>2. CASE r.last = "kill"
  <2> DEFINE joined == Joined(r.slots[r.index], s, dir)
             slots == [r.slots EXCEPT ![r.index] = joined]
  <2>1. r.index \in 1 .. Len(r.slots) /\ r.slots[r.index] \in Texts
    BY <1>2, SlotLemma
  <2>2. joined \in Texts
    <3>1. r.slots[r.index] ++ s \in Texts /\ s ++ r.slots[r.index] \in Texts
      BY <2>1, CatLemma
    <3> QED
      BY <3>1 DEF Joined, ++
  <2>3. k = [slots |-> slots, index |-> r.index, last |-> "kill", size |-> r.size]
    <3>1. k = [r EXCEPT !.slots = slots]
      BY <1>2 DEF Killed
    <3> HIDE DEF slots
    <3>2. r = [slots |-> r.slots, index |-> r.index, last |-> "kill", size |-> r.size]
      BY <1>2 DEF RingType
    <3> HIDE DEF k
    <3> QED
      BY <3>1, <3>2
  <2> HIDE DEF joined
  <2>4. slots \in Seq(Texts) /\ Len(slots) = Len(r.slots) /\ slots[r.index] = joined
    BY <1>1, <2>1, <2>2, ExceptSeq
  <2>5. DOMAIN slots = 1 .. Len(r.slots)
    BY <1>1
  <2> HIDE DEF slots, k
  <2>6. RingType(k) /\ k.last = "kill" /\ k.slots[k.index] = joined
    BY <1>1, <2>1, <2>3, <2>4, <2>5 DEF RingType
  <2> QED
    BY <1>2, <2>6 DEF joined, k
<1>3. CASE r.last # "kill"
  <2> DEFINE i == NextSlot(r)
             slots == IF i = Len(r.slots) + 1 THEN Append(r.slots, s)
                      ELSE [r.slots EXCEPT ![i] = s]
  <2>1. k = [slots |-> slots, index |-> i, last |-> "kill", size |-> 0]
    BY <1>3 DEF Killed
  <2>2. i \in Nat \ {0} /\ i <= Len(r.slots) + 1
    <3>1. CASE r.slots = <<>>
      <4>1. r.index = 1 /\ Len(r.slots) = 0
        <5>1. Len(r.slots) = 0
          BY <3>1, EmptySeq
        <5> QED
          BY <1>1, <5>1 DEF RingType
      <4> QED
        BY <3>1, <4>1 DEF NextSlot
    <3>2. CASE r.slots # <<>>
      <4>1. r.index \in 1 .. Len(r.slots)
        BY <3>2, SlotLemma
      <4>2. i = IF r.index = Slots THEN 1 ELSE r.index + 1
        BY <3>2 DEF NextSlot
      <4> HIDE DEF i
      <4> QED
        BY <1>1, <4>1, <4>2
    <3> QED
      BY <3>1, <3>2
  <2> HIDE DEF i
  <2>3. /\ slots \in Seq(Texts) /\ slots[i] = s /\ i \in DOMAIN slots
    <3>1. CASE i = Len(r.slots) + 1
      <4>1. slots = Append(r.slots, s)
        BY <3>1
      <4>2. /\ Append(r.slots, s) \in Seq(Texts)
            /\ Len(Append(r.slots, s)) = Len(r.slots) + 1
            /\ Append(r.slots, s)[Len(r.slots) + 1] = s
        BY <1>1, AppendProperties
      <4>3. DOMAIN Append(r.slots, s) = 1 .. Len(r.slots) + 1
        BY <4>2, LenProperties
      <4> QED
        BY <1>1, <2>2, <3>1, <4>1, <4>2, <4>3
    <3>2. CASE i # Len(r.slots) + 1
      <4>1. slots = [r.slots EXCEPT ![i] = s] /\ i \in 1 .. Len(r.slots)
        BY <1>1, <2>2, <3>2
      <4>2. /\ [r.slots EXCEPT ![i] = s] \in Seq(Texts)
            /\ [r.slots EXCEPT ![i] = s][i] = s
            /\ DOMAIN [r.slots EXCEPT ![i] = s] = DOMAIN r.slots
        BY <1>1, <4>1, ExceptSeq
      <4> QED
        BY <1>1, <4>1, <4>2
    <3> QED
      BY <3>1, <3>2
  <2> HIDE DEF slots, k
  <2>4. RingType(k) /\ k.last = "kill" /\ k.slots[k.index] = s
    BY <2>1, <2>2, <2>3 DEF RingType
  <2> QED
    BY <1>3, <2>4 DEF k
<1> QED
  BY <1>2, <1>3

-----------------------------------------------------------------------------
(* The commands.                                                           *)

LEMMA ResetSoundLemma ==
  ASSUME RingType(ring), ring' = Reset(ring)
  PROVE  RingSound'
<1>1. RingType(ring') /\ ring'.last = "other"
  BY ResetLemma
<1>2. YankPopFits' /\ KillsComeBack'
  BY <1>1 DEF YankPopFits, KillsComeBack
<1> QED
  BY <1>1, <1>2 DEF RingSound, RingType

LEMMA PlainLemma ==
  ASSUME ghost \in Ghosts
  PROVE  Plain = [group |-> NoText, kill |-> NoText, claim |-> FALSE]
<1> DEFINE a == [ghost EXCEPT !.group = NoText]
           b == [a EXCEPT !.kill = NoText]
<1>1. a = [group |-> NoText, kill |-> ghost.kill, claim |-> ghost.claim]
  BY DEF Ghosts
<1>2. Plain = [b EXCEPT !.claim = FALSE]
  BY DEF Plain
<1> HIDE DEF a
<1>3. b = [group |-> NoText, kill |-> NoText, claim |-> ghost.claim]
  BY <1>1
<1> HIDE DEF b
<1> QED
  BY <1>2, <1>3

LEMMA PlainSoundLemma ==
  ASSUME ghost \in Ghosts, ghost' = Plain
  PROVE  GhostSound'
<1>1. ghost' = [group |-> NoText, kill |-> NoText, claim |-> FALSE]
  BY PlainLemma
<1>2. ghost' \in Ghosts
  BY <1>1 DEF Ghosts
<1>3. UndoIsWhole'
  BY <1>1 DEF UndoIsWhole
<1> QED
  BY <1>2, <1>3 DEF GhostSound

\* A command that ends a run of kills or yanks and is no group.
LEMMA PlainStepLemma ==
  ASSUME Sound, ring' = Reset(ring), ghost' = Plain, recall' \in Recalls, EditSound'
  PROVE  Sound'
  BY ResetSoundLemma, PlainSoundLemma DEF Sound, RingSound, GhostSound

LEMMA FoundLemma ==
  ASSUME Sound
  PROVE  /\ line \in Lines /\ line.text \in Texts /\ line.pos \in 0 .. Len(line.text)
         /\ line.pos \in Nat /\ Len(line.text) \in Nat /\ line = At(line.text, line.pos)
         /\ log \in Seq(Changes) /\ Traced(log, line.text) /\ level \in Nat
         /\ Len(log) \in Nat /\ RingType(ring) /\ ghost \in Ghosts /\ recall \in Recalls
  BY LineLemma, LenProperties DEF Sound, EditSound, RingSound, GhostSound

LEMMA SelfInsertLemma ==
  ASSUME Sound, NEW c \in Chars, SelfInsert(c)
  PROVE  Sound'
<1> DEFINE t == line.text
           i == line.pos
           s == <<c>>
<1>1. /\ t \in Texts /\ i \in 0 .. Len(t) /\ Len(t) \in Nat /\ s \in Texts /\ Len(s) = 1
      /\ log \in Seq(Changes) /\ Traced(log, t) /\ level \in Nat
  BY FoundLemma, CharsLemma
<1>2. /\ line' = At(With(t, i, s), i + 1) /\ log' = LogChar(log, i, c) /\ level' = level
      /\ ring' = Reset(ring) /\ ghost' = Plain /\ recall' = recall
  BY DEF SelfInsert, RingFor, ResetsRing
<1> HIDE DEF t, i
<1>3. log' \in Seq(Changes) /\ Traced(log', With(t, i, s))
  BY <1>1, <1>2, LogCharLemma
<1> HIDE DEF s
<1>4. line' \in Lines /\ line'.text = With(t, i, s)
  <2>1. With(t, i, s) \in Texts /\ Len(With(t, i, s)) = Len(t) + Len(s)
    BY <1>1, InsertLemma
  <2>2. i + 1 \in 0 .. Len(With(t, i, s))
    BY <1>1, <2>1
  <2> QED
    BY <1>2, <2>1, <2>2, AtLemma
<1>5. EditSound'
  BY <1>1, <1>2, <1>3, <1>4 DEF EditSound
<1> QED
  BY <1>2, <1>5, FoundLemma, PlainStepLemma

LEMMA PasteLemma ==
  ASSUME Sound, NEW s \in Texts, Paste(s)
  PROVE  Sound'
<1> DEFINE t == line.text
           i == line.pos
<1>1. /\ t \in Texts /\ i \in 0 .. Len(t) /\ Len(t) \in Nat /\ Len(s) \in Nat
      /\ log \in Seq(Changes) /\ Traced(log, t) /\ level \in Nat
  BY FoundLemma, CatLemma
<1>2. /\ line' = At(With(t, i, s), i + Len(s)) /\ log' = LogInsert(log, i, s) /\ level' = level
      /\ ring' = Reset(ring) /\ ghost' = Plain /\ recall' = recall
  BY DEF Paste, RingFor, ResetsRing
<1> HIDE DEF t, i
<1>3. log' \in Seq(Changes) /\ Traced(log', With(t, i, s))
  BY <1>1, <1>2, LogInsertLemma
<1>4. line' \in Lines /\ line'.text = With(t, i, s)
  <2>1. With(t, i, s) \in Texts /\ Len(With(t, i, s)) = Len(t) + Len(s)
    BY <1>1, InsertLemma
  <2>2. i + Len(s) \in 0 .. Len(With(t, i, s))
    BY <1>1, <2>1
  <2> QED
    BY <1>2, <2>1, <2>2, AtLemma
<1>5. EditSound'
  BY <1>1, <1>2, <1>3, <1>4 DEF EditSound
<1> QED
  BY <1>2, <1>5, FoundLemma, PlainStepLemma

LEMMA DeleteForwardLemma ==
  ASSUME Sound, NEW n \in Ahead, DeleteForward(n)
  PROVE  Sound'
<1> DEFINE t == line.text
           i == line.pos
<1>1. /\ t \in Texts /\ i \in 0 .. Len(t) /\ i \in Nat /\ Len(t) \in Nat /\ line = At(t, i)
      /\ log \in Seq(Changes) /\ Traced(log, t) /\ level \in Nat
  BY FoundLemma
<1>2. /\ line' = [line EXCEPT !.text = Without(t, i, n)]
      /\ log' = LogDelete(log, i, Slice(t, i, i + n)) /\ level' = level
      /\ ring' = Reset(ring) /\ ghost' = Plain /\ recall' = recall
  BY DEF DeleteForward, RingFor, ResetsRing
<1>3. n \in Nat /\ i + n <= Len(t)
  BY <1>1 DEF Ahead
<1> HIDE DEF t, i
<1>4. log' \in Seq(Changes) /\ Traced(log', Without(t, i, n))
  BY <1>1, <1>2, <1>3, LogDeleteLemma
<1>5. line' \in Lines /\ line'.text = Without(t, i, n)
  <2> DEFINE w == Without(t, i, n)
  <2>1. w \in Texts /\ Len(w) = Len(t) - n
    BY <1>1, <1>3, DeleteLemma
  <2>2. line' = At(w, i)
    <3> HIDE DEF w
    <3> QED
      BY <1>1, <1>2 DEF At, w
  <2> HIDE DEF w
  <2>3. i \in 0 .. Len(w)
    BY <1>1, <1>3, <2>1
  <2>4. line' \in Lines /\ line'.text = w
    BY <2>1, <2>2, <2>3, AtLemma
  <2> QED
    BY <2>4 DEF w
<1>6. EditSound'
  BY <1>1, <1>2, <1>4, <1>5 DEF EditSound
<1> QED
  BY <1>2, <1>6, FoundLemma, PlainStepLemma

LEMMA DeleteBackwardLemma ==
  ASSUME Sound, NEW n \in Behind, DeleteBackward(n)
  PROVE  Sound'
<1> DEFINE t == line.text
           i == line.pos - n
<1>1. /\ t \in Texts /\ line.pos \in 0 .. Len(t) /\ line.pos \in Nat /\ Len(t) \in Nat
      /\ log \in Seq(Changes) /\ Traced(log, t) /\ level \in Nat
  BY FoundLemma
<1>2. /\ line' = At(Without(t, i, n), i)
      /\ log' = LogDelete(log, i, Slice(t, i, line.pos)) /\ level' = level
      /\ ring' = Reset(ring) /\ ghost' = Plain /\ recall' = recall
  BY DEF DeleteBackward, RingFor, ResetsRing
<1>3. n \in Nat /\ i \in Nat /\ i + n = line.pos /\ i + n <= Len(t)
  BY <1>1 DEF Behind
<1> HIDE DEF t, i
<1>4. log' \in Seq(Changes) /\ Traced(log', Without(t, i, n))
  <2>1. /\ LogDelete(log, i, Slice(t, i, i + n)) \in Seq(Changes)
        /\ Traced(LogDelete(log, i, Slice(t, i, i + n)), Without(t, i, n))
    BY <1>1, <1>3, LogDeleteLemma
  <2> QED
    BY <1>2, <1>3, <2>1
<1>5. line' \in Lines /\ line'.text = Without(t, i, n)
  <2>1. Without(t, i, n) \in Texts /\ Len(Without(t, i, n)) = Len(t) - n
    BY <1>1, <1>3, DeleteLemma
  <2>2. i \in 0 .. Len(Without(t, i, n))
    BY <1>1, <1>3, <2>1
  <2> QED
    BY <1>2, <2>1, <2>2, AtLemma
<1>6. EditSound'
  BY <1>1, <1>2, <1>4, <1>5 DEF EditSound
<1> QED
  BY <1>2, <1>6, FoundLemma, PlainStepLemma

LEMMA MoveLemma ==
  ASSUME Sound, NEW pos \in 0 .. Len(line.text), Move(pos)
  PROVE  Sound'
<1>1. /\ line.text \in Texts /\ line = At(line.text, line.pos)
      /\ log \in Seq(Changes) /\ Traced(log, line.text) /\ level \in Nat /\ recall \in Recalls
  BY FoundLemma
<1>2. /\ line' = [line EXCEPT !.pos = pos] /\ log' = log /\ level' = level
      /\ ring' = Reset(ring) /\ ghost' = Plain /\ recall' = recall
  BY DEF Move, RingFor, ResetsRing
<1>3. line' = At(line.text, pos)
  BY <1>1, <1>2 DEF At
<1>4. line' \in Lines /\ line'.text = line.text
  BY <1>1, <1>3, AtLemma
<1>5. EditSound'
  BY <1>1, <1>2, <1>4 DEF EditSound
<1> QED
  BY <1>1, <1>2, <1>5, PlainStepLemma

LEMMA NextHistoryLemma ==
  ASSUME Sound, NextHistory
  PROVE  Sound'
<1> DEFINE saved == recall.saved
<1>1. /\ log \in Seq(Changes) /\ Traced(log, line.text) /\ level \in Nat
      /\ recall \in Recalls /\ line.text \in Texts
  BY FoundLemma
<1>2. /\ line' = saved /\ log' = LogUpdate(log, line.text, saved.text) /\ level' = level
      /\ ring' = Reset(ring) /\ ghost' = Plain
      /\ recall' = [recall EXCEPT !.on = FALSE]
  BY DEF NextHistory, RingFor, ResetsRing
<1>3. saved \in Lines /\ saved.text \in Texts
  <2>1. saved \in Lines
    BY <1>1 DEF Recalls
  <2> HIDE DEF saved
  <2> QED
    BY <2>1, LineLemma
<1>4. recall' \in Recalls
  BY <1>1, <1>2 DEF Recalls
<1> HIDE DEF saved
<1>5. log' \in Seq(Changes) /\ Traced(log', saved.text)
  BY <1>1, <1>2, <1>3, LogUpdateLemma
<1>6. EditSound'
  BY <1>1, <1>2, <1>3, <1>5 DEF EditSound
<1> QED
  BY <1>2, <1>4, <1>6, PlainStepLemma

LEMMA NextLineLemma ==
  ASSUME Sound, NextLine
  PROVE  Sound'
<1>1. /\ line' = Fresh /\ log' = <<>> /\ level' = 0 /\ recall' = OwnLine
      /\ ring' = Reset(ring) /\ ghost' = Plain
  BY DEF NextLine, RingFor, ResetsRing
<1>2. <<>> \in Texts /\ Len(<<>>) = 0
  BY EmptyLemma
<1>3. Fresh \in Lines /\ Fresh.text = <<>>
  BY <1>2 DEF Fresh, Lines
<1>4. <<>> \in Seq(Changes) /\ Traced(<<>>, <<>>)
  BY EmptySeq, EmptyTraceLemma
<1>5. EditSound'
  BY <1>1, <1>3, <1>4 DEF EditSound
<1>6. recall' \in Recalls
  <2>1. OwnLine = [on |-> FALSE, saved |-> Fresh]
    BY DEF OwnLine
  <2> QED
    BY <1>1, <1>3, <2>1 DEF Recalls
<1> QED
  BY <1>1, <1>5, <1>6, PlainStepLemma

LEMMA DismissLemma ==
  ASSUME Sound, Dismiss
  PROVE  Sound'
<1>1. /\ line' = line /\ log' = log /\ level' = level + 1 /\ recall' = recall
      /\ ring' = Reset(ring) /\ ghost' = Plain
  BY DEF Dismiss, RingFor, ResetsRing
<1>2. EditSound'
  BY <1>1, FoundLemma DEF EditSound
<1> QED
  BY <1>1, <1>2, FoundLemma, PlainStepLemma

LEMMA UndoLemma ==
  ASSUME Sound, NEW n \in 1 .. 2, Undo(n)
  PROVE  Sound'
<1> DEFINE k == Taken(log, n)
<1>1. /\ line' = LineAfterUndo(line, log, k) /\ log' = SubSeq(log, 1, Len(log) - k)
      /\ level' = level /\ recall' = recall
      /\ ring' = Reset(ring) /\ ghost' = Plain
  BY DEF Undo, RingFor, ResetsRing
<1>2. /\ line \in Lines /\ log \in Seq(Changes) /\ Traced(log, line.text) /\ level \in Nat
      /\ recall \in Recalls
  BY FoundLemma
<1>3. k \in 0 .. Len(log)
  BY <1>2, TakenLemma
<1> HIDE DEF k
<1>4. line' \in Lines /\ log' \in Seq(Changes) /\ Traced(log', line'.text)
  BY <1>1, <1>2, <1>3, RestTraceLemma
<1>5. EditSound'
  BY <1>1, <1>2, <1>4 DEF EditSound
<1> QED
  BY <1>1, <1>2, <1>5, PlainStepLemma

\* The word before the cursor, completed.
LEMMA WordLemma ==
  ASSUME NEW t \in Texts, NEW i \in Nat, NEW m \in Nat, i + m <= Len(t), NEW r \in Texts
  PROVE  LET old == Slice(t, i, i + m)
             new == old ++ r
             w == With(Without(t, i, m), i, new) IN
         /\ old \in Texts /\ Len(old) = m /\ new \in Texts /\ w \in Texts
         /\ i + Len(new) \in 0 .. Len(w)
<1> DEFINE old == Slice(t, i, i + m)
           new == old ++ r
           w == With(Without(t, i, m), i, new)
<1>1. old \in Texts /\ Len(old) = m
  BY DeleteLemma
<1> HIDE DEF old
<1>2. new \in Texts /\ Len(new) \in Nat /\ Len(t) \in Nat
  BY <1>1, CatLemma
<1> HIDE DEF new
<1>3. w \in Texts /\ Len(w) = Len(t) - m + Len(new)
  BY <1>2, ReplaceLemma
<1> HIDE DEF w
<1>4. i + Len(new) \in 0 .. Len(w)
  BY <1>2, <1>3
<1> QED
  BY <1>1, <1>2, <1>3, <1>4 DEF old, new, w

LEMMA CompletedLemma ==
  ASSUME Sound, NEW i \in WordStarts
  PROVE  LET old == Slice(line.text, i, line.pos)
             new == old \o Rest
             w == With(Without(line.text, i, Len(old)), i, new) IN
         /\ old \in Texts /\ new \in Texts /\ i \in Nat /\ Len(old) \in Nat
         /\ i + Len(old) = line.pos /\ i + Len(old) <= Len(line.text)
         /\ w \in Texts /\ i + Len(new) \in 0 .. Len(w)
<1> DEFINE t == line.text
           m == line.pos - i
           old == Slice(t, i, line.pos)
           new == old \o Rest
           w == With(Without(t, i, Len(old)), i, new)
<1>1. /\ t \in Texts /\ line.pos \in 0 .. Len(t) /\ Len(t) \in Nat /\ line.pos \in Nat
      /\ i \in 0 .. line.pos /\ Rest \in Texts
  BY FoundLemma, CharsLemma DEF WordStarts
<1>2. i \in Nat /\ m \in Nat /\ i + m = line.pos /\ i + m <= Len(t)
  BY <1>1
<1>3. old = Slice(t, i, i + m) /\ new = Slice(t, i, i + m) ++ Rest
  BY <1>2 DEF ++
<1> HIDE DEF t, m, old, new
<1>4. /\ old \in Texts /\ Len(old) = m /\ new \in Texts
      /\ With(Without(t, i, m), i, new) \in Texts
      /\ i + Len(new) \in 0 .. Len(With(Without(t, i, m), i, new))
  BY <1>1, <1>2, <1>3, WordLemma
<1> QED
  BY <1>2, <1>4 DEF t, old, new

LEMMA CompleteLemma ==
  ASSUME Sound, NEW i \in WordStarts, Complete(i)
  PROVE  Sound'
<1> DEFINE t == line.text
           old == Slice(t, i, line.pos)
           new == old \o Rest
           w == With(Without(t, i, Len(old)), i, new)
<1>1. /\ line' = At(w, i + Len(new)) /\ log' = LogReplace(log, i, old, new)
      /\ level' = level /\ recall' = recall
      /\ ring' = Reset(ring) /\ ghost' = Plain
  BY DEF Complete, RingFor, ResetsRing
<1>2. /\ t \in Texts /\ log \in Seq(Changes) /\ Traced(log, t) /\ level \in Nat /\ recall \in Recalls
  BY FoundLemma
<1>3. /\ old \in Texts /\ new \in Texts /\ i \in Nat /\ Len(old) \in Nat
      /\ i + Len(old) = line.pos /\ i + Len(old) <= Len(t)
      /\ w \in Texts /\ i + Len(new) \in 0 .. Len(w)
  BY CompletedLemma
<1> DEFINE m == Len(old)
<1>4. old = Slice(t, i, i + m)
  BY <1>3
<1> HIDE DEF t, old, new, w, m
<1>5. log' \in Seq(Changes) /\ Traced(log', w)
  <2>1. m \in Nat /\ i + m <= Len(t) /\ w = With(Without(t, i, m), i, new)
    BY <1>3 DEF m, w
  <2>2. /\ LogReplace(log, i, Slice(t, i, i + m), new) \in Seq(Changes)
        /\ Traced(LogReplace(log, i, Slice(t, i, i + m), new), With(Without(t, i, m), i, new))
    BY <1>2, <1>3, <2>1, LogReplaceLemma
  <2> QED
    BY <1>1, <1>4, <2>1, <2>2
<1>6. line' \in Lines /\ line'.text = w
  BY <1>1, <1>3, AtLemma
<1>7. EditSound'
  BY <1>1, <1>2, <1>5, <1>6 DEF EditSound
<1> QED
  BY <1>1, <1>2, <1>7, PlainStepLemma

LEMMA EnterIncompleteLemma ==
  ASSUME Sound, EnterIncomplete
  PROVE  Sound'
<1> DEFINE t == line.text
           i == line.pos
           s == <<Newline>>
           open == Append(log, Begin)
           u == Closed(open, level + 1)
           claim == Touched(open, level + 1)
<1>1. /\ line' = At(With(t, i, s), i + 1) /\ log' = LogChar(u, i, Newline) /\ level' = 0
      /\ ghost' = [Plain EXCEPT !.claim = claim] /\ ring' = Reset(ring) /\ recall' = recall
  BY DEF EnterIncomplete, RingFor, ResetsRing
<1>2. /\ t \in Texts /\ i \in 0 .. Len(t) /\ Len(t) \in Nat /\ s \in Texts /\ Len(s) = 1
      /\ log \in Seq(Changes) /\ Traced(log, t) /\ level + 1 \in Nat /\ Newline \in Chars
      /\ recall \in Recalls /\ RingType(ring) /\ ghost \in Ghosts
  BY FoundLemma, CharsLemma
<1> HIDE DEF t, i
<1>3. u \in Seq(Changes) /\ Traced(u, t)
  <2>1. open \in Seq(Changes) /\ Traced(open, t)
    BY <1>2, OpenLemma
  <2> HIDE DEF open
  <2> QED
    BY <1>2, <2>1, ClosedTraceLemma
<1>a. claim \in BOOLEAN
  BY DEF Touched
<1> HIDE DEF u, claim
<1>4. log' \in Seq(Changes) /\ Traced(log', With(t, i, s))
  BY <1>1, <1>2, <1>3, LogCharLemma
<1> HIDE DEF s
<1>5. line' \in Lines /\ line'.text = With(t, i, s)
  <2>1. With(t, i, s) \in Texts /\ Len(With(t, i, s)) = Len(t) + Len(s)
    BY <1>2, InsertLemma
  <2>2. i + 1 \in 0 .. Len(With(t, i, s))
    BY <1>2, <2>1
  <2> QED
    BY <1>1, <2>1, <2>2, AtLemma
<1>6. EditSound'
  BY <1>1, <1>2, <1>4, <1>5 DEF EditSound
<1>7. GhostSound'
  <2>1. ghost' = [group |-> NoText, kill |-> NoText, claim |-> claim]
    BY <1>1, <1>2, PlainLemma
  <2>2. ghost' \in Ghosts
    BY <1>a, <2>1 DEF Ghosts
  <2>3. UndoIsWhole'
    BY <2>1 DEF UndoIsWhole
  <2> QED
    BY <2>2, <2>3 DEF GhostSound
<1>8. RingSound'
  BY <1>1, <1>2, ResetSoundLemma
<1> QED
  BY <1>1, <1>2, <1>6, <1>7, <1>8 DEF Sound

-----------------------------------------------------------------------------
(* The commands that are groups.                                           *)

LEMMA GroupedLemma ==
  ASSUME Sound, NEW text \in Texts, NEW pos \in 0 .. Len(text), NEW u \in Seq(Changes),
         Opened(u, text, Len(log), line.text), Grouped(text, pos, u)
  PROVE  EditSound' /\ GhostSound' /\ line' = At(text, pos)
<1> DEFINE group == IF level = 0 THEN line.text ELSE NoText
           claim == u = Append(log, Begin) /\ Touched(u, level + 1)
<1>1. /\ line' = At(text, pos) /\ log' = Closed(u, level + 1) /\ level' = 0
      /\ ghost' = [group |-> group, kill |-> NoText, claim |-> claim]
  BY DEF Grouped
<1>2. /\ line.text \in Texts /\ log \in Seq(Changes) /\ level \in Nat /\ level + 1 \in Nat
      /\ Len(log) \in Nat
  BY FoundLemma
<1>3. line' \in Lines /\ line'.text = text
  BY <1>1, AtLemma
<1>4. log' \in Seq(Changes) /\ Traced(log', text)
  <2>1. Traced(u, text)
    BY DEF Opened, Traced
  <2> QED
    BY <1>1, <1>2, <2>1, ClosedTraceLemma
<1>5. EditSound'
  BY <1>1, <1>3, <1>4 DEF EditSound
<1>6. ghost' \in Ghosts
  <2>1. claim \in BOOLEAN
    OBVIOUS
  <2>2. group \in Texts \cup {NoText}
    BY <1>2
  <2> HIDE DEF claim, group
  <2> QED
    BY <1>1, <2>1, <2>2 DEF Ghosts
<1>7. UndoIsWhole'
  <2> SUFFICES ASSUME ghost'.group # NoText, ghost'.group # line'.text
               PROVE  LineAfterUndo(line', log', Taken(log', 1)).text = ghost'.group
    BY DEF UndoIsWhole
  <2>1. level = 0 /\ ghost'.group = line.text
    BY <1>1
  <2>2. log' = CloseOne(u)
    <3>1. level + 1 = 1
      BY <2>1
    <3> QED
      BY <1>1, <3>1, OneLevelLemma
  <2> DEFINE l == line'
             found == line.text
             n == Len(log)
  <2>3. /\ l \in Lines /\ found \in Texts /\ n \in Nat /\ Opened(u, l.text, n, found)
        /\ l.text # found
    BY <1>2, <1>3, <2>1
  <2> HIDE DEF l, found, n
  <2>4. LineAfterUndo(l, CloseOne(u), Taken(CloseOne(u), 1)).text = found
    BY <2>3, WholeGroupLemma
  <2> QED
    BY <2>1, <2>2, <2>4 DEF l, found
<1> QED
  BY <1>1, <1>5, <1>6, <1>7 DEF GhostSound

\* A group that ends a run of kills or yanks.
LEMMA GroupStepLemma ==
  ASSUME Sound, NEW text \in Texts, NEW pos \in 0 .. Len(text), NEW u \in Seq(Changes),
         Opened(u, text, Len(log), line.text), Grouped(text, pos, u),
         ring' = Reset(ring), recall' \in Recalls
  PROVE  Sound'
<1>1. EditSound' /\ GhostSound'
  BY GroupedLemma
<1>2. RingSound'
  BY FoundLemma, ResetSoundLemma
<1> QED
  BY <1>1, <1>2 DEF Sound

\* A group that has been opened.
LEMMA OpenGroupLemma ==
  ASSUME Sound
  PROVE  LET open == Append(log, Begin) IN
         /\ open \in Seq(Changes) /\ Opened(open, line.text, Len(log), line.text)
         /\ open # <<>> /\ Last(open) = Begin
<1> DEFINE open == Append(log, Begin)
<1>1. /\ log \in Seq(Changes) /\ line.text \in Texts /\ Traced(log, line.text)
      /\ Begin \in Changes /\ Len(log) \in Nat
  BY FoundLemma, NoChangeLemma
<1>2. open \in Seq(Changes) /\ Opened(open, line.text, Len(log), line.text)
  BY <1>1, OpenedLemma
<1>3. Len(open) = Len(log) + 1 /\ open[Len(log) + 1] = Begin
  BY <1>1, AppendProperties
<1> HIDE DEF open
<1>4. open # <<>>
  BY <1>1, <1>3, EmptySeq
<1>5. Last(open) = Begin
  BY <1>1, <1>2, <1>3, <1>4, FrontLemma
<1> QED
  BY <1>2, <1>4, <1>5 DEF open

LEMMA PreviousHistoryLemma ==
  ASSUME Sound, PreviousHistory
  PROVE  Sound'
<1> DEFINE open == Append(log, Begin)
           u == LogUpdate(open, line.text, Entry)
<1>1. /\ Grouped(Entry, Len(Entry), u) /\ ring' = Reset(ring)
      /\ recall' = [on |-> TRUE, saved |-> line]
  BY DEF PreviousHistory, RingFor, ResetsRing
<1>2. /\ open \in Seq(Changes) /\ Opened(open, line.text, Len(log), line.text)
      /\ open # <<>> /\ Last(open) = Begin
  BY OpenGroupLemma
<1>3. /\ Entry \in Texts /\ Len(Entry) \in 0 .. Len(Entry) /\ line \in Lines
      /\ line.text \in Texts /\ Len(log) \in Nat
  BY CharsLemma, CatLemma, FoundLemma
<1> HIDE DEF open
<1>4. u \in Seq(Changes) /\ Opened(u, Entry, Len(log), line.text)
  BY <1>2, <1>3, GroupUpdateLemma
<1> HIDE DEF u
<1>5. recall' \in Recalls
  BY <1>1, <1>3 DEF Recalls
<1> QED
  BY <1>1, <1>3, <1>4, <1>5, GroupStepLemma

LEMMA SearchLemma ==
  ASSUME Sound, NEW pos \in 0 .. Len(Entry) - 1, Search(pos)
  PROVE  Sound'
<1> DEFINE open == Append(log, Begin)
           u == LogUpdate(open, line.text, Entry)
<1>1. Grouped(Entry, pos, u) /\ ring' = Reset(ring) /\ recall' = recall
  BY DEF Search, RingFor, ResetsRing
<1>2. /\ open \in Seq(Changes) /\ Opened(open, line.text, Len(log), line.text)
      /\ open # <<>> /\ Last(open) = Begin
  BY OpenGroupLemma
<1>3. /\ Entry \in Texts /\ Len(Entry) \in Nat /\ line.text \in Texts /\ Len(log) \in Nat
      /\ recall \in Recalls
  BY CharsLemma, CatLemma, FoundLemma
<1> HIDE DEF open
<1>4. u \in Seq(Changes) /\ Opened(u, Entry, Len(log), line.text)
  BY <1>2, <1>3, GroupUpdateLemma
<1> HIDE DEF u
<1>5. pos \in 0 .. Len(Entry)
  BY <1>3
<1> QED
  BY <1>1, <1>3, <1>4, <1>5, GroupStepLemma

LEMMA CompleteFromMenuLemma ==
  ASSUME Sound, NEW i \in WordStarts, CompleteFromMenu(i)
  PROVE  Sound'
<1> DEFINE t == line.text
           open == Append(log, Begin)
           old == Slice(t, i, line.pos)
           new == old \o Rest
           w == With(Without(t, i, Len(old)), i, new)
           u == LogReplace(open, i, old, new)
<1>1. Grouped(w, i + Len(new), u) /\ ring' = Reset(ring) /\ recall' = recall
  BY DEF CompleteFromMenu, RingFor, ResetsRing
<1>2. /\ open \in Seq(Changes) /\ Opened(open, t, Len(log), t)
      /\ open # <<>> /\ Last(open) = Begin
  BY OpenGroupLemma
<1>3. /\ old \in Texts /\ new \in Texts /\ i \in Nat /\ Len(old) \in Nat
      /\ i + Len(old) = line.pos /\ i + Len(old) <= Len(t)
      /\ w \in Texts /\ i + Len(new) \in 0 .. Len(w)
  BY CompletedLemma
<1>4. t \in Texts /\ Len(log) \in Nat /\ recall \in Recalls
  BY FoundLemma
<1> DEFINE m == Len(old)
           found == t
<1>5. old = Slice(t, i, i + m)
  BY <1>3
<1> HIDE DEF t, old, new, w, m, open, found
<1>6. u \in Seq(Changes) /\ Opened(u, w, Len(log), t)
  <2>1. m \in Nat /\ i + m <= Len(t) /\ w = With(Without(t, i, m), i, new)
    BY <1>3 DEF m, w
  <2>2. /\ LogReplace(open, i, Slice(t, i, i + m), new) \in Seq(Changes)
        /\ Opened(LogReplace(open, i, Slice(t, i, i + m), new),
                  With(Without(t, i, m), i, new), Len(log), t)
    BY <1>2, <1>3, <1>4, <2>1, GroupReplaceLemma
  <2> QED
    BY <1>5, <2>1, <2>2
<1> HIDE DEF u
<1>7. Opened(u, w, Len(log), line.text)
  BY <1>6 DEF t
<1> DEFINE pos == i + Len(new)
<1>8. pos \in 0 .. Len(w) /\ Grouped(w, pos, u)
  BY <1>1, <1>3
<1> HIDE DEF pos
<1> QED
  BY <1>1, <1>3, <1>4, <1>6, <1>7, <1>8, GroupStepLemma

LEMMA TransposeCharsLemma ==
  ASSUME Sound, TransposeChars
  PROVE  Sound'
<1> DEFINE t == line.text
           open == Append(log, Begin)
           p == IF line.pos = Len(t) THEN line.pos - 1 ELSE line.pos
           c == Slice(t, p, p + 1)
           without == Without(t, p, 1)
           w == With(without, p - 1, c)
           u == LogInsert(LogDelete(open, p, c), p - 1, c)
<1>1. /\ IF line.pos = 0 \/ Len(t) < 2
         THEN Grouped(t, line.pos, open)
         ELSE Grouped(w, p + 1, u)
      /\ ring' = Reset(ring) /\ recall' = recall
  BY DEF TransposeChars, RingFor, ResetsRing
<1>2. /\ open \in Seq(Changes) /\ Opened(open, t, Len(log), t)
      /\ open # <<>> /\ Last(open) = Begin
  BY OpenGroupLemma
<1>3. /\ t \in Texts /\ Len(log) \in Nat /\ recall \in Recalls
      /\ line.pos \in 0 .. Len(t) /\ Len(t) \in Nat
  BY FoundLemma
<1>4. CASE line.pos = 0 \/ Len(t) < 2
  <2> HIDE DEF open
  <2> QED
    BY <1>1, <1>2, <1>3, <1>4, GroupStepLemma
<1>5. CASE ~(line.pos = 0 \/ Len(t) < 2)
  <2>1. /\ p \in Nat /\ p - 1 \in Nat /\ p + 1 <= Len(t) /\ 1 \in Nat
    BY <1>3, <1>5
  <2> HIDE DEF open, p, t
  <2>2. /\ without \in Texts /\ Len(without) = Len(t) - 1
        /\ c \in Texts /\ Len(c) = 1
    BY <1>3, <2>1, DeleteLemma
  <2> DEFINE v == LogDelete(open, p, c)
  <2>3. v \in Seq(Changes) /\ Opened(v, without, Len(log), t)
    BY <1>2, <1>3, <2>1, GroupDeleteLemma
  <2> HIDE DEF v, without, c
  <2>4. p - 1 \in 0 .. Len(without)
    BY <1>3, <2>1, <2>2
  <2>5. w \in Texts /\ Len(w) = Len(without) + Len(c)
    BY <2>2, <2>4, InsertLemma
  <2>6. p + 1 \in 0 .. Len(w)
    BY <1>3, <2>1, <2>2, <2>5
  <2> DEFINE x == LogInsert(v, p - 1, c)
             pos == p + 1
  <2>7. x \in Seq(Changes) /\ Opened(x, w, Len(log), t)
    BY <1>3, <2>2, <2>3, <2>4, GroupInsertLemma
  <2>8. Grouped(w, pos, x)
    BY <1>1, <1>5 DEF v
  <2>9. pos \in 0 .. Len(w)
    BY <2>6
  <2> HIDE DEF w, x, pos
  <2>10. Opened(x, w, Len(log), line.text)
    BY <2>7 DEF t
  <2> QED
    BY <1>1, <1>3, <2>5, <2>7, <2>8, <2>9, <2>10, GroupStepLemma
<1> QED
  BY <1>4, <1>5

-----------------------------------------------------------------------------
(* The kills and the yanks.                                                *)

\* What was taken from a text comes back to its place, after or before what was
\* taken there or behind it.
LEMMA KillBackLemma ==
  ASSUME NEW t \in Texts, NEW i \in Nat, NEW n \in Nat, i + n <= Len(t), NEW k \in Texts
  PROVE  LET s == Slice(t, i, i + n)
             w == Without(t, i, n) IN
         /\ With(w, i, s) = t
         /\ With(w, i, k ++ s) = With(t, i, k)
         /\ With(w, i, s ++ k) = With(t, i + n, k)
<1>1. PICK p \in Texts, s \in Texts, q \in Texts :
           /\ Len(p) = i /\ Len(s) = n /\ t = (p ++ s) ++ q
           /\ Slice(t, i, i + n) = s /\ Without(t, i, n) = p ++ q
           /\ \A new \in Texts : With(Without(t, i, n), i, new) = (p ++ new) ++ q
  BY AroundLemma
<1> DEFINE w == Without(t, i, n)
<1>2. k ++ s \in Texts /\ s ++ k \in Texts
  BY CatLemma
<1>3. With(w, i, s) = t
  BY <1>1
<1>4. With(w, i, k ++ s) = With(t, i, k)
  <2> DEFINE x == k ++ s
             y == s ++ q
             z == p ++ k
  <2>1. y \in Texts /\ (p ++ x) ++ q = z ++ y
    BY FourLemma
  <2>2. t = p ++ y
    BY <1>1, AssocLemma
  <2>3. With(p ++ y, Len(p), k) = (p ++ k) ++ y
    <3> HIDE DEF y
    <3> QED
      BY <2>1, WithLemma
  <2>4. With(w, i, x) = (p ++ x) ++ q
    BY <1>1, <1>2
  <2> HIDE DEF x, y, w
  <2> QED
    BY <1>1, <2>1, <2>2, <2>3, <2>4 DEF x
<1>5. With(w, i, s ++ k) = With(t, i + n, k)
  <2> DEFINE x == s ++ k
             y == k ++ q
             z == p ++ s
  <2>1. z \in Texts /\ (p ++ x) ++ q = (z ++ k) ++ q
    BY FourLemma
  <2>2. t = z ++ q /\ Len(z) = i + n
    BY <1>1, CatLemma
  <2>3. With(z ++ q, Len(z), k) = (z ++ k) ++ q
    <3> HIDE DEF z
    <3> QED
      BY <2>1, WithLemma
  <2>4. With(w, i, x) = (p ++ x) ++ q
    BY <1>1, <1>2
  <2> HIDE DEF x, z, w
  <2> QED
    BY <1>1, <2>1, <2>2, <2>3, <2>4 DEF x
<1> QED
  BY <1>1, <1>3, <1>4, <1>5

\* What was put into a text is found there.
LEMMA YankBackLemma ==
  ASSUME NEW t \in Texts, NEW i \in 0 .. Len(t), NEW s \in Texts
  PROVE  Slice(With(t, i, s), i, i + Len(s)) = s
<1>1. PICK p \in Texts, q \in Texts : Len(p) = i /\ t = p ++ q
  BY PlaceLemma
<1>2. With(p ++ q, Len(p), s) = (p ++ s) ++ q
  BY WithLemma
<1>3. Slice((p ++ s) ++ q, Len(p), Len(p) + Len(s)) = s
  BY WithoutLemma
<1> QED
  BY <1>1, <1>2, <1>3

\* A kill: what it took stands at i, the line's cursor or n characters before it.
LEMMA KillLemma ==
  ASSUME Sound, NEW n \in Nat, NEW dir, NEW i \in Nat, i + n <= Len(line.text), Kill(dir, n),
         i = IF dir = "forward" THEN line.pos ELSE line.pos - n
  PROVE  Sound'
<1> DEFINE t == line.text
           s == Slice(t, i, i + n)
           w == Without(t, i, n)
           last == IF ring.last = "kill" THEN ghost.kill ELSE t
<1>1. /\ line' = At(w, i) /\ log' = LogDelete(log, i, s) /\ level' = level
      /\ ring' = Killed(ring, s, dir)
      /\ ghost' = [Plain EXCEPT !.kill = last] /\ recall' = recall
  BY DEF Kill, RingFor, ResetsRing
<1>2. /\ t \in Texts /\ line.pos \in 0 .. Len(t) /\ line.pos \in Nat /\ Len(t) \in Nat
      /\ log \in Seq(Changes) /\ Traced(log, t) /\ level \in Nat
      /\ RingType(ring) /\ ghost \in Ghosts /\ recall \in Recalls
  BY FoundLemma
<1>3. KillsComeBack
  BY DEF Sound, RingSound
<1>4. (dir = "forward" /\ line.pos = i) \/ (dir # "forward" /\ line.pos = i + n)
  BY <1>2
<1>5. /\ w \in Texts /\ Len(w) = Len(t) - n /\ s \in Texts
      /\ log' \in Seq(Changes) /\ Traced(log', w)
  BY <1>1, <1>2, DeleteLemma, LogDeleteLemma
<1>6. line' \in Lines /\ line'.text = w /\ line'.pos = i
  <2> HIDE DEF w
  <2>1. i \in 0 .. Len(w)
    BY <1>2, <1>5
  <2> QED
    BY <1>1, <1>5, <2>1, AtLemma
<1>7. EditSound'
  BY <1>1, <1>2, <1>5, <1>6 DEF EditSound
<1>8. last \in Texts \cup {NoText}
  BY <1>2 DEF Ghosts
<1>9. /\ RingType(ring') /\ ring'.last = "kill"
      /\ ring'.slots[ring'.index] =
           IF ring.last = "kill" THEN Joined(ring.slots[ring.index], s, dir) ELSE s
  <2> HIDE DEF s
  <2> QED
    BY <1>1, <1>2, <1>5, KilledLemma
<1>10. With(w, i, ring'.slots[ring'.index]) = last
  <2>1. CASE ring.last # "kill"
    <3>1. With(w, i, s) = t
      BY <1>2, KillBackLemma
    <3> QED
      BY <1>9, <2>1, <3>1
  <2>2. CASE ring.last = "kill"
    <3> DEFINE k == ring.slots[ring.index]
    <3>1. k \in Texts
      BY <1>2, <2>2, SlotLemma
    <3>2. With(t, line.pos, k) = ghost.kill
      BY <1>3, <2>2 DEF KillsComeBack
    <3> HIDE DEF k
    <3>3. With(w, i, k ++ s) = With(t, i, k) /\ With(w, i, s ++ k) = With(t, i + n, k)
      BY <1>2, <3>1, KillBackLemma
    <3>4. ring'.slots[ring'.index] = IF dir = "forward" THEN k ++ s ELSE s ++ k
      BY <1>9, <2>2 DEF Joined, ++, k
    <3> HIDE DEF t, s, w
    <3> QED
      BY <1>4, <2>2, <3>2, <3>3, <3>4
  <2> QED
    BY <2>1, <2>2
<1> HIDE DEF last, w, s
<1>11. ghost' = [group |-> NoText, kill |-> last, claim |-> FALSE]
  <2>1. Plain = [group |-> NoText, kill |-> NoText, claim |-> FALSE]
    BY <1>2, PlainLemma
  <2>2. ghost' = [Plain EXCEPT !.kill = last]
    BY <1>1
  <2> HIDE DEF t
  <2> QED
    BY <2>1, <2>2
<1>12. GhostSound'
  <2>1. ghost' \in Ghosts
    BY <1>8, <1>11 DEF Ghosts
  <2>2. UndoIsWhole'
    BY <1>11 DEF UndoIsWhole
  <2> QED
    BY <2>1, <2>2 DEF GhostSound
<1>13. YankPopFits' /\ KillsComeBack'
  <2>1. YankPopFits'
    BY <1>9 DEF YankPopFits
  <2>2. ghost'.kill = last
    BY <1>11
  <2> QED
    BY <1>6, <1>10, <2>1, <2>2 DEF KillsComeBack
<1>14. RingSound'
  BY <1>9, <1>13 DEF RingSound, RingType
<1> QED
  BY <1>1, <1>2, <1>7, <1>12, <1>14 DEF Sound

LEMMA KillForwardLemma ==
  ASSUME Sound, NEW n \in Ahead, Kill("forward", n)
  PROVE  Sound'
<1>1. n \in Nat /\ line.pos \in Nat /\ line.pos + n <= Len(line.text)
  BY FoundLemma DEF Ahead
<1> QED
  BY <1>1, KillLemma

LEMMA KillBackwardLemma ==
  ASSUME Sound, NEW n \in Behind, Kill("backward", n)
  PROVE  Sound'
<1>1. n \in Nat /\ line.pos - n \in Nat /\ line.pos - n + n <= Len(line.text)
  BY FoundLemma DEF Behind
<1> DEFINE i == line.pos - n
<1>2. i \in Nat /\ i + n <= Len(line.text) /\ i = IF "backward" = "forward" THEN line.pos ELSE line.pos - n
  BY <1>1
<1> HIDE DEF i
<1> QED
  BY <1>1, <1>2, KillLemma

\* The ring after a yank, and the line with the text of its slot before the cursor.
LEMMA YankedSoundLemma ==
  ASSUME NEW r, RingType(r), r.slots # <<>>, ring' = Yanked(r),
         NEW t \in Texts, NEW i \in 0 .. Len(t), NEW s \in Texts, s = r.slots[r.index],
         line' = At(With(t, i, s), i + Len(s))
  PROVE  RingSound'
<1>1. /\ RingType(ring') /\ ring'.last = "yank"
      /\ ring'.slots[ring'.index] = s /\ ring'.size = Len(s)
  BY YankedLemma
<1>2. line'.text = With(t, i, s) /\ line'.pos = i + Len(s)
  BY DEF At
<1>3. Len(s) \in Nat /\ i \in Nat
  <2>1. Len(s) \in Nat /\ Len(t) \in Nat
    BY CatLemma
  <2> QED
    BY <2>1
<1>4. Slice(line'.text, line'.pos - ring'.size, line'.pos) = s
  <2>1. line'.pos - ring'.size = i
    BY <1>1, <1>2, <1>3
  <2>2. Slice(With(t, i, s), i, i + Len(s)) = s
    BY YankBackLemma
  <2> QED
    BY <1>2, <2>1, <2>2
<1>5. line'.pos >= ring'.size
  BY <1>1, <1>2, <1>3
<1>6. YankPopFits'
  BY <1>1, <1>4, <1>5 DEF YankPopFits
<1>7. KillsComeBack'
  BY <1>1 DEF KillsComeBack
<1> QED
  BY <1>1, <1>6, <1>7 DEF RingSound, RingType

LEMMA YankLemma ==
  ASSUME Sound, Yank
  PROVE  Sound'
<1> DEFINE t == line.text
           i == line.pos
           s == ring.slots[ring.index]
<1>1. /\ line' = At(With(t, i, s), i + Len(s)) /\ log' = LogInsert(log, i, s) /\ level' = level
      /\ ring' = Yanked(ring) /\ ghost' = Plain /\ recall' = recall /\ ring.slots # <<>>
  BY DEF Yank, RingFor, ResetsRing
<1>2. /\ t \in Texts /\ i \in 0 .. Len(t) /\ Len(t) \in Nat
      /\ log \in Seq(Changes) /\ Traced(log, t) /\ level \in Nat
      /\ RingType(ring) /\ ghost \in Ghosts /\ recall \in Recalls
  BY FoundLemma
<1>3. s \in Texts /\ Len(s) \in Nat
  BY <1>1, <1>2, SlotLemma, CatLemma
<1> HIDE DEF t, i
<1>4. RingSound'
  BY <1>1, <1>2, <1>3, YankedSoundLemma
<1> HIDE DEF s
<1>5. log' \in Seq(Changes) /\ Traced(log', With(t, i, s))
  BY <1>1, <1>2, <1>3, LogInsertLemma
<1>6. line' \in Lines /\ line'.text = With(t, i, s)
  <2>1. With(t, i, s) \in Texts /\ Len(With(t, i, s)) = Len(t) + Len(s)
    BY <1>2, <1>3, InsertLemma
  <2>2. i + Len(s) \in 0 .. Len(With(t, i, s))
    BY <1>2, <1>3, <2>1
  <2> QED
    BY <1>1, <2>1, <2>2, AtLemma
<1>7. EditSound'
  BY <1>1, <1>2, <1>5, <1>6 DEF EditSound
<1>8. GhostSound'
  BY <1>1, <1>2, PlainSoundLemma
<1> QED
  BY <1>1, <1>2, <1>4, <1>7, <1>8 DEF Sound

LEMMA YankPopLemma ==
  ASSUME Sound, YankPop
  PROVE  Sound'
<1> DEFINE t == line.text
           n == ring.size
           i == line.pos - n
           r == Rotated(ring)
           s == r.slots[r.index]
           open == Append(log, Begin)
           old == Slice(t, i, i + n)
           w == Without(t, i, n)
           v == LogDelete(open, i, old)
           u == LogInsert(v, i, s)
           text == With(w, i, s)
           pos == i + Len(s)
<1>1. /\ t \in Texts /\ line.pos \in 0 .. Len(t) /\ line.pos \in Nat /\ Len(t) \in Nat
      /\ Len(log) \in Nat /\ RingType(ring) /\ recall \in Recalls
  BY FoundLemma
<1>2. ring.last = "yank" /\ ring.slots # <<>> /\ ring' = Yanked(r) /\ recall' = recall
  BY DEF YankPop, RingFor, ResetsRing
<1>3. n \in Nat /\ line.pos >= n
  BY <1>1, <1>2, SlotLemma DEF Sound, RingSound, YankPopFits
<1>4. i \in Nat /\ i + n = line.pos /\ i + n <= Len(t)
  BY <1>1, <1>3
<1>5. RingType(r) /\ r.slots # <<>>
  BY <1>1, <1>2, RotatedLemma
<1> HIDE DEF r
<1>6. s \in Texts /\ Len(s) \in Nat
  BY <1>5, SlotLemma, CatLemma
<1>7. ring'.slots[ring'.index] = s
  BY <1>2, <1>5, YankedLemma
<1>8. Grouped(text, pos, u)
  BY <1>4, <1>7 DEF YankPop
<1>9. /\ open \in Seq(Changes) /\ Opened(open, t, Len(log), t)
      /\ open # <<>> /\ Last(open) = Begin
  BY OpenGroupLemma
<1> DEFINE found == t
<1> HIDE DEF open, i, n, found, s
<1>10. w \in Texts /\ Len(w) = Len(t) - n
  <2> HIDE DEF t
  <2> QED
    BY <1>1, <1>3, <1>4, DeleteLemma
<1>11. v \in Seq(Changes) /\ Opened(v, w, Len(log), found)
  <2>1. Opened(open, t, Len(log), found)
    BY <1>9 DEF found
  <2> HIDE DEF t
  <2> QED
    BY <1>1, <1>3, <1>4, <1>9, <2>1, GroupDeleteLemma
<1>12. i \in 0 .. Len(w)
  BY <1>1, <1>3, <1>4, <1>10
<1> HIDE DEF v, w
<1>13. text \in Texts /\ Len(text) = Len(w) + Len(s)
  BY <1>6, <1>10, <1>12, InsertLemma
<1>14. u \in Seq(Changes) /\ Opened(u, text, Len(log), found)
  BY <1>1, <1>6, <1>10, <1>11, <1>12, GroupInsertLemma
<1> HIDE DEF u
<1>15. pos \in 0 .. Len(text)
  <2> HIDE DEF text
  <2> QED
    BY <1>4, <1>6, <1>10, <1>12, <1>13
<1>16. EditSound' /\ GhostSound' /\ line' = At(text, pos)
  <2> HIDE DEF text, pos
  <2>1. Opened(u, text, Len(log), line.text)
    BY <1>14 DEF found
  <2> QED
    BY <1>8, <1>13, <1>14, <1>15, <2>1, GroupedLemma
<1>17. RingSound'
  <2>1. s = r.slots[r.index]
    BY DEF s
  <2> QED
    BY <1>2, <1>5, <1>6, <1>10, <1>12, <1>16, <2>1, YankedSoundLemma
<1> QED
  BY <1>1, <1>2, <1>16, <1>17 DEF Sound

-----------------------------------------------------------------------------
(* The theorems.                                                           *)

IInv == Sound /\ commands \in Nat

LEMMA InitLemma == Init => IInv
<1> SUFFICES ASSUME Init PROVE IInv
  OBVIOUS
<1>1. /\ line = Fresh /\ log = <<>> /\ level = 0 /\ recall = OwnLine /\ commands = 0
      /\ ring = [slots |-> <<>>, index |-> 1, last |-> "other", size |-> 0]
      /\ ghost = [group |-> NoText, kill |-> NoText, claim |-> FALSE]
  BY DEF Init
<1>2. <<>> \in Texts /\ Len(<<>>) = 0
  BY EmptyLemma
<1>3. Fresh \in Lines /\ Fresh.text = <<>>
  BY <1>2 DEF Fresh, Lines
<1>4. <<>> \in Seq(Changes) /\ Traced(<<>>, <<>>)
  BY EmptySeq, EmptyTraceLemma
<1>5. EditSound
  BY <1>1, <1>3, <1>4 DEF EditSound
<1>6. RingSound
  <2>1. RingType(ring)
    <3>1. <<>> \in Seq(Texts)
      BY EmptySeq
    <3> QED
      BY <1>1, <3>1 DEF RingType
  <2>2. YankPopFits /\ KillsComeBack
    BY <1>1 DEF YankPopFits, KillsComeBack
  <2> QED
    BY <2>1, <2>2 DEF RingSound
<1>7. GhostSound
  <2>1. ghost \in Ghosts
    BY <1>1 DEF Ghosts
  <2>2. UndoIsWhole
    BY <1>1 DEF UndoIsWhole
  <2> QED
    BY <2>1, <2>2 DEF GhostSound
<1>8. recall \in Recalls
  BY <1>1, <1>3 DEF Recalls, OwnLine
<1> QED
  BY <1>1, <1>5, <1>6, <1>7, <1>8 DEF Sound, IInv

LEMMA StutterLemma ==
  ASSUME Sound, UNCHANGED <<line, log, level, ring, recall, ghost>>
  PROVE  Sound'
<1>1. EditSound'
  BY DEF Sound, EditSound
<1>2. RingSound'
  BY DEF Sound, RingSound, YankPopFits, KillsComeBack
<1>3. GhostSound'
  BY DEF Sound, GhostSound, UndoIsWhole
<1> QED
  BY <1>1, <1>2, <1>3 DEF Sound

LEMMA StepLemma == IInv /\ [Next]_vars => IInv'
<1> SUFFICES ASSUME IInv, [Next]_vars PROVE IInv'
  OBVIOUS
<1>1. Sound /\ commands \in Nat
  BY DEF IInv
<1>2. CASE UNCHANGED vars
  <2>1. UNCHANGED <<line, log, level, ring, recall, ghost>> /\ commands' = commands
    BY <1>2 DEF vars
  <2> QED
    BY <1>1, <2>1, StutterLemma DEF IInv
<1>3. CASE Next
  <2>0. commands' \in Nat
    BY <1>1, <1>3 DEF Next, Room
  <2>1. ASSUME NEW c \in Chars \ {Newline}, SelfInsert(c) PROVE Sound'
    BY <1>1, <2>1, SelfInsertLemma
  <2>2. ASSUME Paste(Entry) PROVE Sound'
    BY <1>1, <2>2, PasteLemma, CharsLemma
  <2>3. ASSUME NEW n \in Ahead, DeleteForward(n) PROVE Sound'
    BY <1>1, <2>3, DeleteForwardLemma
  <2>4. ASSUME NEW n \in Ahead, Kill("forward", n) PROVE Sound'
    BY <1>1, <2>4, KillForwardLemma
  <2>5. ASSUME NEW n \in Behind, DeleteBackward(n) PROVE Sound'
    BY <1>1, <2>5, DeleteBackwardLemma
  <2>6. ASSUME NEW n \in Behind, Kill("backward", n) PROVE Sound'
    BY <1>1, <2>6, KillBackwardLemma
  <2>7. ASSUME NEW pos \in 0 .. Len(line.text), Move(pos) PROVE Sound'
    BY <1>1, <2>7, MoveLemma
  <2>8. ASSUME TransposeChars PROVE Sound'
    BY <1>1, <2>8, TransposeCharsLemma
  <2>9. ASSUME Yank PROVE Sound'
    BY <1>1, <2>9, YankLemma
  <2>10. ASSUME YankPop PROVE Sound'
    BY <1>1, <2>10, YankPopLemma
  <2>11. ASSUME PreviousHistory PROVE Sound'
    BY <1>1, <2>11, PreviousHistoryLemma
  <2>12. ASSUME NextHistory PROVE Sound'
    BY <1>1, <2>12, NextHistoryLemma
  <2>13. ASSUME NEW i \in WordStarts, Complete(i) PROVE Sound'
    BY <1>1, <2>13, CompleteLemma
  <2>14. ASSUME NEW i \in WordStarts, CompleteFromMenu(i) PROVE Sound'
    BY <1>1, <2>14, CompleteFromMenuLemma
  <2>15. ASSUME Dismiss PROVE Sound'
    BY <1>1, <2>15, DismissLemma
  <2>16. ASSUME NEW pos \in 0 .. Len(Entry) - 1, Search(pos) PROVE Sound'
    BY <1>1, <2>16, SearchLemma
  <2>17. ASSUME EnterIncomplete PROVE Sound'
    BY <1>1, <2>17, EnterIncompleteLemma
  <2>18. ASSUME NextLine PROVE Sound'
    BY <1>1, <2>18, NextLineLemma
  <2>19. ASSUME NEW n \in 1 .. 2, Undo(n) PROVE Sound'
    BY <1>1, <2>19, UndoLemma
  <2>20. Sound'
    BY <1>3, <2>1, <2>2, <2>3, <2>4, <2>5, <2>6, <2>7, <2>8, <2>9, <2>10, <2>11, <2>12,
       <2>13, <2>14, <2>15, <2>16, <2>17, <2>18, <2>19 DEF Next
  <2> QED
    BY <2>0, <2>20 DEF IInv
<1> QED
  BY <1>2, <1>3

LEMMA InductiveLemma == Spec => []IInv
  BY InitLemma, StepLemma, PTL DEF Spec

LEMMA SoundTypeLemma == IInv => TypeOK
<1> SUFFICES ASSUME IInv PROVE TypeOK
  OBVIOUS
<1>1. Sound /\ commands \in Nat
  BY DEF IInv
<1>2. line \in [text : Seq(Chars), pos : Nat] /\ line.pos <= Len(line.text)
  BY <1>1, FoundLemma DEF Lines, Texts
<1>3. log \in Seq(Changes) /\ level \in Nat
  BY <1>1, FoundLemma
<1>4. /\ ring \in [slots : Seq(Seq(Chars)), index : Nat \ {0}, last : {"kill", "yank", "other"},
                   size : Nat]
      /\ \/ ring.index \in DOMAIN ring.slots
         \/ ring.slots = <<>> /\ ring.index = 1 /\ ring.last = "other"
  <2>1. RingType(ring)
    BY <1>1, FoundLemma
  <2> QED
    BY <2>1 DEF RingType, Texts
<1>5. recall \in [on : BOOLEAN, saved : Lines]
  BY <1>1, FoundLemma DEF Recalls
<1>6. recall.saved \in Lines
  BY <1>5
<1>7. recall.saved \in [text : Seq(Chars), pos : Nat] /\ recall.saved.pos <= Len(recall.saved.text)
  BY <1>6 DEF Lines, Texts
<1>8. recall \in [on : BOOLEAN, saved : [text : Seq(Chars), pos : Nat]]
  BY <1>5, <1>7
<1>9. ghost \in [group : Seq(Chars) \cup {NoText}, kill : Seq(Chars) \cup {NoText},
                 claim : BOOLEAN]
  BY <1>1, FoundLemma DEF Ghosts, Texts
<1> QED
  BY <1>1, <1>2, <1>3, <1>4, <1>7, <1>8, <1>9 DEF TypeOK

\* The undo log of undo.rs holds its word: taken back from the last to the first,
\* each change finds on the line what it brought, and together they lead back to
\* the empty line, whatever Changeset::insert, delete and replace merged and
\* whatever Changeset::end closed.
THEOREM LogTheorem == Spec => []LogAgrees
<1>1. IInv => LogAgrees
  <2> SUFFICES ASSUME IInv PROVE LogAgrees
    OBVIOUS
  <2>1. line \in Lines /\ log \in Seq(Changes) /\ Traced(log, line.text)
    BY FoundLemma DEF IInv
  <2> QED
    BY <2>1, AgreesLemma
<1> QED
  BY <1>1, InductiveLemma, PTL

\* One undo right after a group of changes (LineBuffer::transpose_chars, an entry
\* that edit.rs recalls, a candidate of the menu, a yank-pop) restores the text that
\* the command found, because Changeset::undo goes on to the group's Begin.
THEOREM UndoTheorem == Spec => []UndoIsWhole
<1>1. IInv => UndoIsWhole
  BY DEF IInv, Sound, GhostSound
<1> QED
  BY <1>1, InductiveLemma, PTL

\* As long as KillRing::last_action is a yank of n characters, the n characters
\* before the cursor are those of the ring's slot: edit_yank_pop takes away what the
\* last yank brought and nothing else.
THEOREM YankTheorem == Spec => []YankPopFits
<1>1. IInv => YankPopFits
  BY DEF IInv, Sound, RingSound
<1> QED
  BY <1>1, InductiveLemma, PTL

\* After a run of kills the slot of KillRing::kill holds what the run took from the
\* line, kills forward after kills backward: a yank at the cursor restores the line
\* that the first kill found.
THEOREM KillsTheorem == Spec => []KillsComeBack
<1>1. IInv => KillsComeBack
  BY DEF IInv, Sound, RingSound
<1> QED
  BY <1>1, InductiveLemma, PTL

\* The cursor stays on the line (line_buffer.rs slices at it without a check), the
\* index of the ring stays on a slot, and a recalled entry keeps a line to go back to.
THEOREM TypeTheorem == Spec => []TypeOK
  BY SoundTypeLemma, InductiveLemma, PTL

=============================================================================
