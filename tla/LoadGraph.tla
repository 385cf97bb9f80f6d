----------------------------- MODULE LoadGraph ------------------------------
(***************************************************************************)
(* Scripts that load scripts, as the REPL runs them (wq-cli/src/load.rs):  *)
(* a line of the REPL, the files and embedded scripts its directives load, *)
(* and theirs.  Each of them is an evaluation of its own of the one        *)
(* session (Session::eval_script_with_postmortem), nested in the one that  *)
(* loads it.  The REPL keeps the set of files being loaded across lines.   *)
(* What a script contains is chosen item by item, so that a file may have  *)
(* changed when it is loaded again.                                        *)
(***************************************************************************)
EXTENDS Naturals, Sequences, FiniteSets, SequencesExt

CONSTANTS Paths,     \* names under which files are loaded
          File,      \* what fs::canonicalize makes of each
          Embedded,  \* scripts compiled into the program
          NoName,
          MaxItems,  \* bound: items of a script
          MaxCrashes \* bound: evaluations that crash

ASSUME LoadAssumption ==
  /\ File \in [Paths -> Paths] /\ \A p \in Paths : File[File[p]] = File[p]
  /\ NoName \notin Paths \cup Embedded
  /\ MaxItems \in Nat /\ MaxCrashes \in Nat

VARIABLES
  calls,    \* the evaluations in progress, each with the items it has left
  loading,  \* the files marked as being loaded
  registry, \* Loader::embedded_loaded
  turn,     \* "prompt", "running" or "failing"
  error,    \* the error on its way to the prompt, or the last one there
  crash,    \* Vm::last_crash, 0 when there is none
  crashes,  \* how many evaluations crashed
  halted    \* the line was interrupted

vars == <<calls, loading, registry, turn, error, crash, crashes, halted>>

NoError == [kind |-> "none", crash |-> 0]

Init ==
  /\ calls = <<>> /\ loading = {} /\ registry = {} /\ turn = "prompt"
  /\ error = NoError /\ crash = 0 /\ crashes = 0 /\ halted = FALSE

Innermost == Last(calls)

\* The next item of the innermost script.
AtItem == turn = "running" /\ Innermost.left > 0 /\ ~halted

ItemTaken == [calls EXCEPT ![Len(calls)].left = @ - 1]

\* A nested script begins its evaluation: no crash is on record any more.
Enter(kind, name, items) ==
  /\ calls' = Append(ItemTaken, [kind |-> kind, name |-> name, left |-> items])
  /\ crash' = 0

Fail(kind, id) ==
  /\ turn' = "failing" /\ error' = [kind |-> kind, crash |-> id]

\* A line with a directive: an evaluation with a loader of its own.
Line ==
  /\ turn = "prompt"
  /\ turn' = "running"
  /\ \E n \in 1 .. MaxItems : calls' = <<[kind |-> "line", name |-> NoName, left |-> n]>>
  /\ registry' = {} /\ crash' = 0 /\ error' = NoError /\ halted' = FALSE
  /\ UNCHANGED <<loading, crashes>>

\* Code runs to its end.
Code ==
  /\ AtItem
  /\ calls' = ItemTaken /\ crash' = 0
  /\ UNCHANGED <<loading, registry, turn, error, crashes, halted>>

\* Code is interrupted: it ends without an error and nothing runs after it.
Interrupted ==
  /\ AtItem
  /\ calls' = ItemTaken /\ crash' = 0 /\ halted' = TRUE
  /\ UNCHANGED <<loading, registry, turn, error, crashes>>

\* Code that cannot be read or compiled fails without a crash.
CodeRejected ==
  /\ AtItem
  /\ calls' = ItemTaken /\ crash' = 0
  /\ Fail("evaluation", 0)
  /\ UNCHANGED <<loading, registry, crashes, halted>>

CodeCrashes ==
  /\ AtItem /\ crashes < MaxCrashes
  /\ calls' = ItemTaken
  /\ crashes' = crashes + 1 /\ crash' = crashes'
  /\ Fail("evaluation", crashes')
  /\ UNCHANGED <<loading, registry, halted>>

\* The embedded scripts hold no directives.
AtDirective == AtItem /\ Innermost.kind # "embedded"

LoadCycle(p) ==
  /\ AtDirective /\ File[p] \in loading
  /\ calls' = ItemTaken
  /\ Fail("cycle", 0)
  /\ UNCHANGED <<loading, registry, crash, crashes, halted>>

\* The file is marked before it is read, and a failure takes the mark back.
LoadUnreadable(p) ==
  /\ AtDirective /\ File[p] \notin loading
  /\ calls' = ItemTaken
  /\ Fail("io", 0)
  /\ UNCHANGED <<loading, registry, crash, crashes, halted>>

LoadFile(p) ==
  /\ AtDirective /\ File[p] \notin loading
  /\ loading' = loading \cup {File[p]}
  /\ \E n \in 0 .. MaxItems : Enter("file", p, n)
  /\ UNCHANGED <<registry, turn, error, crashes, halted>>

\* An embedded script is loaded once in a line.
SkipEmbedded(e) ==
  /\ AtDirective /\ e \in registry
  /\ calls' = ItemTaken
  /\ UNCHANGED <<loading, registry, turn, error, crash, crashes, halted>>

LoadEmbedded(e) ==
  /\ AtDirective /\ e \notin registry
  /\ \E n \in 0 .. MaxItems : Enter("embedded", e, n)
  /\ UNCHANGED <<loading, registry, turn, error, crashes, halted>>

UnknownDirective ==
  /\ AtDirective
  /\ calls' = ItemTaken
  /\ Fail("directive", 0)
  /\ UNCHANGED <<loading, registry, crash, crashes, halted>>

\* Slip: a mark is taken back only where a script ends well.
MarksAfterSuccess(c) ==
  IF c.kind = "file" /\ turn = "running" THEN loading \ {File[c.name]} ELSE loading

\* The guard of an evaluation drops its mark.
MarksAfter(c) == IF c.kind = "file" THEN loading \ {File[c.name]} ELSE loading

\* A script ends well: its evaluation leaves no crash.
Done ==
  /\ turn = "running" /\ (Innermost.left = 0 \/ halted)
  /\ calls' = Front(calls)
  /\ loading' = MarksAfter(Innermost)
  /\ registry' = IF Innermost.kind = "embedded" THEN registry \cup {Innermost.name} ELSE registry
  /\ turn' = IF Len(calls) = 1 THEN "prompt" ELSE "running"
  /\ crash' = 0
  /\ UNCHANGED <<error, crashes, halted>>

\* Slip: the error of a nested load is not told from an error of the directive.
NothingRetained == 0

\* The crash an evaluation leaves when an error ends it: that of the error,
\* if it is the one on record.
Retained == IF error.crash = crash THEN error.crash ELSE 0

\* An error ends one evaluation after the other.
Unwind ==
  /\ turn = "failing"
  /\ calls' = Front(calls)
  /\ loading' = MarksAfter(Innermost)
  /\ turn' = IF Len(calls) = 1 THEN "prompt" ELSE "failing"
  /\ crash' = Retained
  /\ UNCHANGED <<registry, error, crashes, halted>>

Next ==
  \/ Line
  \/ Code
  \/ Interrupted
  \/ CodeRejected
  \/ CodeCrashes
  \/ \E p \in Paths : LoadCycle(p) \/ LoadUnreadable(p) \/ LoadFile(p)
  \/ \E e \in Embedded : SkipEmbedded(e) \/ LoadEmbedded(e)
  \/ UnknownDirective
  \/ Done
  \/ Unwind

Spec == Init /\ [][Next]_vars

(***************************************************************************)
(* Properties.                                                             *)
(***************************************************************************)

Call == [kind : {"line", "file", "embedded"},
         name : Paths \cup Embedded \cup {NoName}, left : 0 .. MaxItems]

TypeOK ==
  /\ calls \in Seq(Call)
  /\ loading \subseteq Paths /\ registry \subseteq Embedded
  /\ turn \in {"prompt", "running", "failing"}
  /\ crash \in 0 .. MaxCrashes /\ crashes \in 0 .. MaxCrashes /\ halted \in BOOLEAN

OpenFiles == {i \in DOMAIN calls : calls[i].kind = "file"}

\* A file is marked as being loaded exactly while an evaluation of it is open,
\* and no file is open twice, under whatever names: after a load that failed
\* half way the files can be loaded again, and a cycle is one.
LoadingIsOpen ==
  /\ loading = {File[calls[i].name] : i \in OpenFiles}
  /\ \A i, j \in OpenFiles : i # j => File[calls[i].name] # File[calls[j].name]

\* Back at the prompt, the debugger's post-mortem is that of the evaluation
\* whose error ended the line, through however many loads it came, and of none
\* other: not of an earlier line, nor when the line ended well or by an error
\* of a directive.
PostmortemIsTheErrors == turn = "prompt" => crash = error.crash
=============================================================================
