------------------------------ MODULE Bytecode ------------------------------
(***************************************************************************)
(* The instructions the compiler emits for control flow and what the       *)
(* interpreter does with them (wqpl/src/interpret/vanilla.rs), for the     *)
(* code of one function or of one script.  An address is the index of an   *)
(* instruction.  Values are reduced to what control can tell apart.        *)
(*                                                                         *)
(* What the code calls is one function, f.  A tape says how its calls end: *)
(* with F, with T, or by raising; a call that returns rebinds x to its     *)
(* value, as a closure that has captured x by reference does.  Calls       *)
(* beyond the tape return F, so a loop that asks f ends.                   *)
(***************************************************************************)
EXTENDS Integers, Sequences, TLC

True     == <<"T">>
False    == <<"F">>
Unit     == <<"()">>
Callee   == <<"f">>
Raised   == <<"error">>
Ok(v)    == <<"ok", v>>
ListOf(s) == <<"list", s>>
Num(k)   == <<"int", k>>
IsNum(v) == v[1] = "int"
Booleans == {True, False}
Bool(b)  == IF b THEN True ELSE False

X      == <<"x">>         \* the variable of the program
Index  == <<"_n">>        \* the counter of N loops
Global == <<"global _n">> \* what a function finds outside it under that name
Hidden(what, at) == <<what, at>>    \* a variable of the loop that begins at at

\* Equality is an atom's; comparing a list gives no truth value.
IsAtom(v) == IsNum(v) \/ (Len(v) = 1 /\ v # Unit)
Apply(f, l, r) ==
    CASE f = "=" -> IF IsAtom(l) /\ IsAtom(r) THEN Bool(l = r) ELSE Unit
      [] f = "<" -> IF IsNum(l) /\ IsNum(r) THEN Bool(l[2] < r[2]) ELSE Unit
      [] f = "+" -> IF IsNum(l) /\ IsNum(r) THEN Num(l[2] + r[2]) ELSE Unit

Outcome(tape, n) == IF n <= Len(tape) THEN tape[n] ELSE False

----------------------------------------------------------------------------
(* Instructions *)

Const(v)          == [op |-> "const", val |-> v]
Owned(slot, v)    == [op |-> "owned", slot |-> slot, val |-> v]
Load(name)        == [op |-> "load", name |-> name]
Store(name)       == [op |-> "store", name |-> name]
StoreKeep(name)   == [op |-> "storeKeep", name |-> name]
Exists(name)      == [op |-> "exists", name |-> name]
Binary(f, l, r)   == [op |-> "binary", fun |-> f, left |-> l, right |-> r]
Jump(to)          == [op |-> "jump", to |-> to]
JumpIfFalse(to)   == [op |-> "jumpIfFalse", to |-> to]
JumpIfCmpFalse(f, l, r, to) ==
    [op |-> "jumpIfCmpFalse", fun |-> f, left |-> l, right |-> r, to |-> to]
NLoopEnter(count, snapshot, to) ==
    [op |-> "nLoopEnter", count |-> count, snapshot |-> snapshot, to |-> to]
NLoopNext(snapshot, to) == [op |-> "nLoopNext", snapshot |-> snapshot, to |-> to]
Lazy(stop, to)    == [op |-> "lazy", stop |-> stop, to |-> to]
Combine(stop)     == [op |-> "combine", stop |-> stop]
Try(len)          == [op |-> "try", len |-> len]
MakeList(n)       == [op |-> "makeList", n |-> n]
Plain(op)         == [op |-> op]
Pop               == Plain("pop")
Return            == Plain("return")
Pause             == Plain("pause")
LoadCallTarget    == Plain("loadCallTarget")
Postfix           == Plain("postfix")
TailPostfix       == Plain("tailPostfix")

\* Operands of a comparison.
OnStack     == [from |-> "stack"]
Literal(v)  == [from |-> "const", val |-> v]
Named(name) == [from |-> "name", name |-> name]

Jumps(inst) == "to" \in DOMAIN inst

----------------------------------------------------------------------------
(* Execution *)

\* The machine of one activation, and what has been seen of it: the calls it
\* made and the owned constants it has taken.
Start(vars) ==
    [pc |-> 1, stack |-> <<>>, vars |-> vars, tries |-> <<>>,
     calls |-> 0, taken |-> {}, end |-> <<>>]

Top(m)     == m.stack[Len(m.stack)]
Drop(s, n) == SubSeq(s, 1, Len(s) - n)
Push(m, v) == [m EXCEPT !.stack = Append(@, v)]
Popped(m)  == [m EXCEPT !.stack = Drop(@, 1)]
Ends(m, how, v) == [m EXCEPT !.end = <<how, v>>]

\* An error goes to the innermost try region of the activation, or ends it.
Raise(m) ==
    IF m.tries = <<>> THEN Ends(m, "raises", Raised)
    ELSE LET try == m.tries[Len(m.tries)] IN
         [m EXCEPT !.tries = Drop(@, 1),
                   !.pc = try.end,
                   !.stack = Append(SubSeq(@, 1, try.base), Raised)]

\* No try region catches an error of the machine itself.
Crash(m) == Ends(m, "crashes", Raised)

AtBoundary(m) == m.tries # <<>> /\ m.pc >= m.tries[Len(m.tries)].end

\* A region that was left at its end wraps its value; one that was jumped out
\* of only gives back what it had pushed.
FinishTry(m) ==
    LET try   == m.tries[Len(m.tries)]
        base  == SubSeq(m.stack, 1, try.base)
        value == IF Len(m.stack) > try.base THEN Top(m) ELSE Unit
    IN  [m EXCEPT !.tries = Drop(@, 1),
                  !.stack = IF m.pc = try.end THEN Append(base, Ok(value)) ELSE base]

\* The operands of a comparison, the right one first, as <<machine, l, r>>;
\* <<>> when the stack does not hold them.
Operand(m, operand) ==
    CASE operand.from = "const" -> operand.val
      [] operand.from = "name"  -> m.vars[operand.name]
      [] operand.from = "stack" -> Top(m)

Depth(operand) == IF operand = OnStack THEN 1 ELSE 0

Operands(m, inst) ==
    IF Len(m.stack) < Depth(inst.left) + Depth(inst.right) THEN <<>>
    ELSE LET r  == Operand(m, inst.right)
             m1 == [m EXCEPT !.stack = Drop(@, Depth(inst.right))]
             l  == Operand(m1, inst.left)
         IN  <<[m1 EXCEPT !.stack = Drop(@, Depth(inst.left))], l, r>>

\* A name that is not bound is an error.
LoadName(m, name) ==
    IF name \in DOMAIN m.vars THEN Push(m, m.vars[name]) ELSE Raise(m)

Set(m, name, v) == [m EXCEPT !.vars = (name :> v) @@ @]

BranchOn(m, v, to) ==
    IF v \notin Booleans THEN Raise(m)
    ELSE IF v = False THEN [m EXCEPT !.pc = to] ELSE m

\* A call in place, and one that replaces the activation.
CallF(m, tape) ==
    LET v == Outcome(tape, m.calls + 1)
        c == [Popped(m) EXCEPT !.calls = @ + 1]
    IN  IF v = Raised THEN Raise(c)
        ELSE Push([c EXCEPT !.vars[X] = v], v)

TailCallF(m, tape) ==
    LET v == Outcome(tape, m.calls + 1)
        c == [Popped(m) EXCEPT !.calls = @ + 1]
    IN  IF v = Raised THEN Ends(c, "raises", Raised)
        ELSE Ends([c EXCEPT !.vars[X] = v], "returns", v)

ReturnTop(m) ==
    IF m.stack = <<>> THEN Ends(m, "returns", Unit)
    ELSE Ends(Popped(m), "returns", Top(m))

\* How many values an instruction must find, or the machine crashes.
Needs(inst) ==
    CASE inst.op \in {"store", "storeKeep", "jumpIfFalse", "postfix", "tailPostfix"} -> 1
      [] inst.op = "combine"  -> 2
      [] inst.op = "makeList" -> inst.n
      [] OTHER -> 0

Operate(m, inst, tape) ==
    CASE inst.op = "const"     -> Push(m, inst.val)
      [] inst.op = "owned"     ->
            IF inst.slot \in m.taken THEN Crash(m)
            ELSE Push([m EXCEPT !.taken = @ \cup {inst.slot}], inst.val)
      [] inst.op = "load"      -> LoadName(m, inst.name)
      [] inst.op = "exists"    -> Push(m, Bool(inst.name \in DOMAIN m.vars))
      [] inst.op = "storeKeep" -> Set(m, inst.name, Top(m))
      [] inst.op = "store"     -> Set(Popped(m), inst.name, Top(m))
      [] inst.op = "binary"    ->
            LET o == Operands(m, inst)
            IN  IF o = <<>> THEN Crash(m) ELSE Push(o[1], Apply(inst.fun, o[2], o[3]))
      [] inst.op = "jump"        -> [m EXCEPT !.pc = inst.to]
      [] inst.op = "jumpIfFalse" -> BranchOn(Popped(m), Top(m), inst.to)
      [] inst.op = "jumpIfCmpFalse" ->
            LET o == Operands(m, inst)
            IN  IF o = <<>> THEN Crash(m)
                ELSE BranchOn(o[1], Apply(inst.fun, o[2], o[3]), inst.to)
      [] inst.op = "nLoopEnter" ->
            IF m.vars[Index][2] < m.vars[inst.count][2]
            THEN Set(m, inst.snapshot, m.vars[Index]) ELSE [m EXCEPT !.pc = inst.to]
      [] inst.op = "nLoopNext" ->
            Set([m EXCEPT !.pc = inst.to], Index, Apply("+", m.vars[inst.snapshot], Num(1)))
      [] inst.op = "lazy"      ->
            IF m.stack # <<>> /\ Top(m) = inst.stop THEN [m EXCEPT !.pc = inst.to] ELSE m
      [] inst.op = "combine"   ->
            LET l == m.stack[Len(m.stack) - 1]
                r == Top(m)
                rest == [m EXCEPT !.stack = Drop(@, 2)]
            IN  IF {l, r} \subseteq Booleans
                THEN Push(rest, IF inst.stop \in {l, r} THEN inst.stop ELSE r)
                ELSE Raise(rest)
      [] inst.op = "makeList"  ->
            Push([m EXCEPT !.stack = Drop(@, inst.n)],
                 ListOf(SubSeq(m.stack, Len(m.stack) - inst.n + 1, Len(m.stack))))
      [] inst.op = "try"       ->
            [m EXCEPT !.tries = Append(@, [end |-> m.pc + inst.len, base |-> Len(m.stack)])]
      [] inst.op = "pop"       -> IF m.stack = <<>> THEN m ELSE Popped(m)
      [] inst.op = "loadCallTarget" -> Push(m, Callee)
      [] inst.op = "postfix"     -> IF Top(m) = Callee THEN CallF(m, tape) ELSE Raise(Popped(m))
      [] inst.op = "tailPostfix" -> IF Top(m) = Callee THEN TailCallF(m, tape) ELSE Raise(Popped(m))
      [] inst.op = "return"    -> ReturnTop(m)
      [] inst.op = "pause"     -> m

\* One turn of the interpreter's loop.
Turn(code, tape, m) ==
    IF AtBoundary(m) THEN FinishTry(m)
    ELSE LET inst == code[m.pc] IN
         IF Len(m.stack) < Needs(inst) THEN Crash(m)
         ELSE Operate([m EXCEPT !.pc = @ + 1], inst, tape)

\* What the rest of the program can tell of an execution.
Observed(m) == [end |-> m.end, calls |-> m.calls, x |-> m.vars[X]]

\* What the next line can tell of a script that ended: its _n.
IndexLeft(m) == IF m.end[1] = "returns" THEN m.vars[Index] ELSE Unit
=============================================================================
