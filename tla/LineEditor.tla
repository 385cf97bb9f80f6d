----------------------------- MODULE LineEditor -----------------------------
(***************************************************************************)
(* The line editor of the REPL (wq-rl) as the REPL configures it, with the *)
(* Emacs keys and completion menus: the line and its cursor                *)
(* (line_buffer.rs), the undo log (undo.rs), the kill ring (kill_ring.rs)  *)
(* and the recall of history (edit.rs).  An action is one command of the   *)
(* read loop (lib.rs, command.rs).  A menu or a search, which reads        *)
(* further keys, is one action too: nothing else happens until it ends.    *)
(***************************************************************************)
EXTENDS Naturals, Integers, Sequences, FiniteSets, SequencesExt

CONSTANTS Letters,   \* alphanumeric characters
          Marks,     \* other characters, the newline among them
          Newline,
          Entry,     \* the one entry of the history
          Rest,      \* what completion adds to a word
          Slots,     \* capacity of the kill ring
          MaxText,   \* bound: length of the line
          MaxLog,    \* bound: length of the undo log
          MaxLevel,  \* bound: groups left open
          MaxCommands \* bound: commands

ASSUME LineEditorAssumption ==
  /\ Newline \in Marks /\ Letters \cap Marks = {}
  /\ Entry \in Seq(Letters \cup Marks) /\ Entry # <<>>
  /\ Rest \in Seq(Letters) /\ Rest # <<>>
  /\ {Slots, MaxText, MaxLog, MaxLevel, MaxCommands} \subseteq Nat \ {0}

Chars == Letters \cup Marks

VARIABLES
  line,    \* the text and the cursor
  log,     \* Changeset::undos
  level,   \* Changeset::undo_group_level
  ring,    \* KillRing
  recall,  \* whether the line is one of the history, and the line saved for it
  ghost,   \* the text before the last group and before the run of kills, and
           \* whether the last end() told of changes that there were not
  commands \* how many there were, for the bound

vars == <<line, log, level, ring, recall, ghost, commands>>

NoText == <<"none">>

Fresh == [text |-> <<>>, pos |-> 0]
OwnLine == [on |-> FALSE, saved |-> Fresh]

Init ==
  /\ line = Fresh /\ log = <<>> /\ level = 0
  /\ ring = [slots |-> <<>>, index |-> 1, last |-> "other", size |-> 0]
  /\ recall = OwnLine
  /\ ghost = [group |-> NoText, kill |-> NoText, claim |-> FALSE]
  /\ commands = 0

(***************************************************************************)
(* The line.                                                               *)
(***************************************************************************)
Slice(t, i, j) == SubSeq(t, i + 1, j)
Without(t, i, n) == Slice(t, 0, i) \o Slice(t, i + n, Len(t))
With(t, i, s) == Slice(t, 0, i) \o s \o Slice(t, i, Len(t))

At(text, pos) == [text |-> text, pos |-> pos]

(***************************************************************************)
(* The undo log.  A change tells where, what went and what came.           *)
(***************************************************************************)
Begin == [kind |-> "begin", idx |-> 0, old |-> <<>>, new |-> <<>>]
End == [kind |-> "end", idx |-> 0, old |-> <<>>, new |-> <<>>]
Change(kind, i, old, new) == [kind |-> kind, idx |-> i, old |-> old, new |-> new]
Changes ==
  {Begin, End}
    \cup [kind : {"insert"}, idx : Nat, old : {<<>>}, new : Seq(Chars)]
    \cup [kind : {"delete"}, idx : Nat, old : Seq(Chars), new : {<<>>}]
    \cup [kind : {"replace"}, idx : Nat, old : Seq(Chars), new : Seq(Chars)]

\* Change::undo.
Undone(change, l) ==
  IF change.kind \in {"begin", "end"} THEN l
  ELSE LET t == With(Without(l.text, change.idx, Len(change.new)), change.idx, change.old) IN
       At(t, change.idx + Len(change.old))

\* A letter typed after the last insertion becomes part of it.
InsertSeq(c, i, u) ==
  /\ c \in Letters
  /\ u # <<>> /\ Last(u).kind = "insert"
  /\ Last(u).idx + Len(Last(u).new) = i

LogChar(u, i, c) ==
  IF InsertSeq(c, i, u)
  THEN Front(u) \o <<[Last(u) EXCEPT !.new = Append(@, c)]>>
  ELSE Append(u, Change("insert", i, <<>>, <<c>>))

LogInsert(u, i, s) ==
  IF s = <<>> THEN u ELSE Append(u, Change("insert", i, <<>>, s))

SingleChar(s) == Len(s) = 1 /\ s[1] \in Letters

\* Slip: every deletion is taken for one at the cursor.
MergedForward(d, i, s) == [d EXCEPT !.old = @ \o s]

\* Deletions at one place go on after it, those that end there before it.
MergedDelete(d, i, s) ==
  IF d.idx = i THEN [d EXCEPT !.old = @ \o s]
  ELSE [d EXCEPT !.old = s \o @, !.idx = i]

LogDelete(u, i, s) ==
  IF s = <<>> THEN u
  ELSE IF /\ SingleChar(s)
          /\ u # <<>> /\ Last(u).kind = "delete"
          /\ Last(u).idx \in {i, i + Len(s)}
       THEN Append(Front(u), MergedDelete(Last(u), i, s))
       ELSE Append(u, Change("delete", i, s, <<>>))

\* A replacement right after the last one becomes part of it.
LogReplace(u, i, old, new) ==
  IF u # <<>> /\ Last(u).kind = "replace" /\ Last(u).idx + Len(Last(u).new) = i
  THEN Append(Front(u), [Last(u) EXCEPT !.old = @ \o old, !.new = @ \o new])
  ELSE Append(u, Change("replace", i, old, new))

\* A group without a change is taken back.
EmptyGroup(u) == u # <<>> /\ Last(u) = Begin

CloseOne(u) == IF EmptyGroup(u) THEN Front(u) ELSE Append(u, End)

\* Changeset::end closes every level, whether or not its Begin is still there.
Closed(u, n) ==
  LET closed[k \in 0 .. n] == IF k = 0 THEN u ELSE CloseOne(closed[k - 1])
  IN closed[n]

\* end() tells of changes when it closed a group that it did not find empty.
Touched(u, n) == \E k \in 0 .. n - 1 : ~EmptyGroup(Closed(u, k))

\* The Ends less the Begins among the last k changes.
Waiting(u, k) ==
  LET tail == Len(u) - k + 1 .. Len(u) IN
  Cardinality({j \in tail : u[j] = End}) - Cardinality({j \in tail : u[j] = Begin})

\* Slip: an End does not make undo wait for its Begin.
NothingAwaited(u, k) == TRUE

\* The changes are taken back up to here when no group is left half undone.
Whole(u, k) == Waiting(u, k) <= 0

\* How many changes Changeset::undo takes back for a count of n.
Taken(u, n) ==
  LET enough == {k \in 1 .. Len(u) : Cardinality({j \in 1 .. k : Whole(u, j)}) >= n} IN
  IF enough = {} THEN Len(u) ELSE CHOOSE k \in enough : \A j \in enough : k <= j

\* The line when the last k changes have been taken back.
LineAfterUndo(l, u, k) ==
  LET after[j \in 0 .. k] == IF j = 0 THEN l ELSE Undone(u[Len(u) - j + 1], after[j - 1])
  IN after[k]

(***************************************************************************)
(* The kill ring.                                                          *)
(***************************************************************************)
Reset(r) == [r EXCEPT !.last = "other", !.size = 0]

\* Slip: what was killed goes to the other end of the slot.
Crossed(slot, s, dir) == IF dir = "forward" THEN s \o slot ELSE slot \o s

Joined(slot, s, dir) == IF dir = "forward" THEN slot \o s ELSE s \o slot

NextSlot(r) ==
  CASE r.index = Slots -> 1
    [] r.index # Slots /\ r.slots # <<>> -> r.index + 1
    [] OTHER -> r.index

\* KillRing::kill: a run of kills collects in one slot.
Killed(r, s, dir) ==
  IF r.last = "kill"
  THEN [r EXCEPT !.slots[r.index] = Joined(@, s, dir)]
  ELSE LET i == NextSlot(r) IN
       [slots |-> IF i = Len(r.slots) + 1 THEN Append(r.slots, s)
                  ELSE [r.slots EXCEPT ![i] = s],
        index |-> i, last |-> "kill", size |-> 0]

Yanked(r) == [r EXCEPT !.last = "yank", !.size = Len(r.slots[r.index])]

Rotated(r) == [r EXCEPT !.index = IF @ = 1 THEN Len(r.slots) ELSE @ - 1]

(***************************************************************************)
(* Commands.  All but the kills of a stretch and the yanks end a run of    *)
(* kills or yanks before they run.                                         *)
(***************************************************************************)
\* Slip: taking back changes does not end a run.
ResetsOnEdits(command) == command \notin {"kill", "yank", "undo"}

\* Cmd::should_reset_kill_ring.
ResetsRing(command) == command \notin {"kill", "yank"}

RingFor(command) == IF ResetsRing(command) THEN Reset(ring) ELSE ring

Plain == [ghost EXCEPT !.group = NoText, !.kill = NoText, !.claim = FALSE]

\* The line and the log after a group of changes, given with their own log.
Grouped(text, pos, u) ==
  /\ line' = At(text, pos)
  /\ log' = Closed(u, level + 1)
  /\ level' = 0
  /\ ghost' = [group |-> IF level = 0 THEN line.text ELSE NoText, kill |-> NoText,
               claim |-> u = Append(log, Begin) /\ Touched(u, level + 1)]

\* The log in which the whole line was exchanged for a text.
LogUpdate(u, old, new) == LogInsert(LogDelete(u, 0, old), 0, new)

SelfInsert(c) ==
  /\ line' = At(With(line.text, line.pos, <<c>>), line.pos + 1)
  /\ log' = LogChar(log, line.pos, c)
  /\ ring' = RingFor("insert")
  /\ ghost' = Plain
  /\ UNCHANGED <<level, recall>>

\* A bracketed paste.
Paste(s) ==
  /\ line' = At(With(line.text, line.pos, s), line.pos + Len(s))
  /\ log' = LogInsert(log, line.pos, s)
  /\ ring' = RingFor("insert")
  /\ ghost' = Plain
  /\ UNCHANGED <<level, recall>>

DeleteForward(n) ==
  /\ line' = [line EXCEPT !.text = Without(@, line.pos, n)]
  /\ log' = LogDelete(log, line.pos, Slice(line.text, line.pos, line.pos + n))
  /\ ring' = RingFor("delete")
  /\ ghost' = Plain
  /\ UNCHANGED <<level, recall>>

DeleteBackward(n) ==
  LET i == line.pos - n IN
  /\ line' = At(Without(line.text, i, n), i)
  /\ log' = LogDelete(log, i, Slice(line.text, i, line.pos))
  /\ ring' = RingFor("delete")
  /\ ghost' = Plain
  /\ UNCHANGED <<level, recall>>

\* A kill of a word, of the rest of the line, of the line up to the cursor.
Kill(dir, n) ==
  LET i == IF dir = "forward" THEN line.pos ELSE line.pos - n
      s == Slice(line.text, i, i + n) IN
  /\ line' = At(Without(line.text, i, n), i)
  /\ log' = LogDelete(log, i, s)
  /\ ring' = Killed(RingFor("kill"), s, dir)
  /\ ghost' = [Plain EXCEPT !.kill = IF ring.last = "kill" THEN ghost.kill ELSE line.text]
  /\ UNCHANGED <<level, recall>>

Move(pos) ==
  /\ line' = [line EXCEPT !.pos = pos]
  /\ ring' = RingFor("move")
  /\ ghost' = Plain
  /\ UNCHANGED <<log, level, recall>>

TransposeChars ==
  LET open == Append(log, Begin)
      p == IF line.pos = Len(line.text) THEN line.pos - 1 ELSE line.pos
      c == Slice(line.text, p, p + 1)
      without == Without(line.text, p, 1) IN
  /\ IF line.pos = 0 \/ Len(line.text) < 2
     THEN Grouped(line.text, line.pos, open)
     ELSE Grouped(With(without, p - 1, c), p + 1, LogInsert(LogDelete(open, p, c), p - 1, c))
  /\ ring' = RingFor("transpose")
  /\ UNCHANGED recall

Yank ==
  /\ ring.slots # <<>>
  /\ LET s == ring.slots[ring.index] IN
     /\ line' = At(With(line.text, line.pos, s), line.pos + Len(s))
     /\ log' = LogInsert(log, line.pos, s)
  /\ ring' = Yanked(RingFor("yank"))
  /\ ghost' = Plain
  /\ UNCHANGED <<level, recall>>

YankPop ==
  /\ ring.last = "yank" /\ ring.slots # <<>>
  /\ ring' = Yanked(Rotated(RingFor("yank")))
  /\ LET i == line.pos - ring.size
         old == Slice(line.text, i, line.pos)
         s == ring'.slots[ring'.index]
     IN Grouped(With(Without(line.text, i, ring.size), i, s), i + Len(s),
                LogInsert(LogDelete(Append(log, Begin), i, old), i, s))
  /\ UNCHANGED recall

\* The first time the line is saved; the oldest entry is the last to go to.
PreviousHistory ==
  /\ ~recall.on
  /\ recall' = [on |-> TRUE, saved |-> line]
  /\ Grouped(Entry, Len(Entry), LogUpdate(Append(log, Begin), line.text, Entry))
  /\ ring' = RingFor("history")

\* Past the newest entry the saved line comes back, in no group.
NextHistory ==
  /\ recall.on
  /\ recall' = [recall EXCEPT !.on = FALSE]
  /\ line' = recall.saved
  /\ log' = LogUpdate(log, line.text, recall.saved.text)
  /\ ring' = RingFor("history")
  /\ ghost' = Plain
  /\ UNCHANGED level

\* The word before the cursor.
WordStarts ==
  {i \in 0 .. line.pos : \A k \in i + 1 .. line.pos : line.text[k] \in Letters}

\* One candidate, or a longer prefix common to all, completes the word.
Complete(i) ==
  LET old == Slice(line.text, i, line.pos) new == old \o Rest IN
  /\ line' = At(With(Without(line.text, i, Len(old)), i, new), i + Len(new))
  /\ log' = LogReplace(log, i, old, new)
  /\ ring' = RingFor("complete")
  /\ ghost' = Plain
  /\ UNCHANGED <<level, recall>>

\* A candidate is taken from the menu.
CompleteFromMenu(i) ==
  LET old == Slice(line.text, i, line.pos) new == old \o Rest IN
  /\ Grouped(With(Without(line.text, i, Len(old)), i, new), i + Len(new),
             LogReplace(Append(log, Begin), i, old, new))
  /\ ring' = RingFor("complete")
  /\ UNCHANGED recall

\* A menu that is left, or a search that is aborted, takes back what it
\* logged; the group that it opened stays open.
Dismiss ==
  /\ level' = level + 1
  /\ ring' = RingFor("complete")
  /\ ghost' = Plain
  /\ UNCHANGED <<line, log, recall>>

\* The key that ends the search is the next command.
Search(pos) ==
  /\ Grouped(Entry, pos, LogUpdate(Append(log, Begin), line.text, Entry))
  /\ ring' = RingFor("search")
  /\ UNCHANGED recall

\* Enter on input that is not complete: the validator, which changes nothing,
\* runs in a group.
EnterIncomplete ==
  LET open == Append(log, Begin) IN
  /\ line' = At(With(line.text, line.pos, <<Newline>>), line.pos + 1)
  /\ log' = LogChar(Closed(open, level + 1), line.pos, Newline)
  /\ level' = 0
  /\ ghost' = [Plain EXCEPT !.claim = Touched(open, level + 1)]
  /\ ring' = RingFor("enter")
  /\ UNCHANGED recall

\* Enter on complete input, or an interrupt: the next line starts afresh and
\* keeps the ring.
NextLine ==
  /\ line # Fresh \/ log # <<>>
  /\ line' = Fresh /\ log' = <<>> /\ level' = 0 /\ recall' = OwnLine
  /\ ring' = RingFor("enter")
  /\ ghost' = Plain

Undo(n) ==
  /\ log # <<>>
  /\ LET k == Taken(log, n) IN
     /\ line' = LineAfterUndo(line, log, k)
     /\ log' = SubSeq(log, 1, Len(log) - k)
  /\ ring' = RingFor("undo")
  /\ ghost' = Plain
  /\ UNCHANGED <<level, recall>>

\* The bounds.
Room ==
  /\ commands < MaxCommands /\ commands' = commands + 1
  /\ Len(line'.text) <= MaxText /\ Len(log') <= MaxLog /\ level' <= MaxLevel

Ahead == 1 .. Len(line.text) - line.pos
Behind == 1 .. line.pos

Next ==
  /\ \/ \E c \in Chars \ {Newline} : SelfInsert(c)
     \/ Paste(Entry)
     \/ \E n \in Ahead : DeleteForward(n) \/ Kill("forward", n)
     \/ \E n \in Behind : DeleteBackward(n) \/ Kill("backward", n)
     \/ \E pos \in 0 .. Len(line.text) : Move(pos)
     \/ TransposeChars
     \/ Yank
     \/ YankPop
     \/ PreviousHistory
     \/ NextHistory
     \/ \E i \in WordStarts : Complete(i) \/ CompleteFromMenu(i)
     \/ Dismiss
     \/ \E pos \in 0 .. Len(Entry) - 1 : Search(pos)
     \/ EnterIncomplete
     \/ NextLine
     \/ \E n \in 1 .. 2 : Undo(n)
  /\ Room

Spec == Init /\ [][Next]_vars

(***************************************************************************)
(* Properties.                                                             *)
(***************************************************************************)

\* A change can be taken back from a line that holds what came with it.
Fits(change, l) ==
  change.kind \in {"begin", "end"}
  \/ /\ change.idx + Len(change.new) <= Len(l.text)
     /\ Slice(l.text, change.idx, change.idx + Len(change.new)) = change.new

\* The changes of the log, taken back from the last to the first, each find on
\* the line what they brought, at its place, and lead to the empty line it
\* began with, however the insertions, deletions and replacements were merged
\* on the way.
LogAgrees ==
  /\ \A k \in 1 .. Len(log) : Fits(log[Len(log) - k + 1], LineAfterUndo(line, log, k - 1))
  /\ LineAfterUndo(line, log, Len(log)).text = <<>>

\* One undo right after a command that changes the line in several steps gives
\* the text the command found, never half of it: a transposition, a recalled
\* entry, a candidate, a yank exchanged for an older one.  It speaks of groups
\* begun at level 0, so not after a menu was dismissed, and not of NextHistory,
\* which deletes the entry and inserts the saved line in no group.
UndoIsWhole ==
  (ghost.group # NoText /\ ghost.group # line.text)
  => LineAfterUndo(line, log, Taken(log, 1)).text = ghost.group

\* As long as the ring remembers a yank, the text before the cursor is the
\* text of its slot, which is what the next yank-pop takes away.
YankPopFits ==
  ring.last = "yank"
  => /\ line.pos >= ring.size
     /\ Slice(line.text, line.pos - ring.size, line.pos) = ring.slots[ring.index]

\* A yank right after a run of kills, forward and backward in any order, puts
\* back what the run took, in its order and at its place.
KillsComeBack ==
  ring.last = "kill"
  => With(line.text, line.pos, ring.slots[ring.index]) = ghost.kill

\* Type correctness of the editor's state.
TypeOK ==
  /\ line \in [text : Seq(Chars), pos : Nat] /\ line.pos <= Len(line.text)
  /\ log \in Seq(Changes) /\ level \in Nat
  /\ ring \in [slots : Seq(Seq(Chars)), index : Nat \ {0}, last : {"kill", "yank", "other"},
               size : Nat]
  /\ \/ ring.index \in DOMAIN ring.slots
     \/ ring.slots = <<>> /\ ring.index = 1 /\ ring.last = "other"
  /\ recall \in [on : BOOLEAN, saved : [text : Seq(Chars), pos : Nat]]
  /\ recall.saved.pos <= Len(recall.saved.text)
  /\ ghost \in [group : Seq(Chars) \cup {NoText}, kill : Seq(Chars) \cup {NoText},
                claim : BOOLEAN]
  /\ commands \in Nat

\* end() returns true only when there were changes since begin().
EndIsTrue == ~ghost.claim
=============================================================================
