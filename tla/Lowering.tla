------------------------------ MODULE Lowering ------------------------------
(***************************************************************************)
(* From a resolved program to the code that runs (wqpl/src/session.rs:     *)
(* 1225-1282): the compiler, the propagation of constants, the rewriting   *)
(* of tail calls, the fusion of instructions, repeated until it changes    *)
(* nothing, and the extraction of owned constants.  A step is one pass.    *)
(* What a program means is Meaning, an evaluator that knows nothing of     *)
(* code; the passes are right if the code means the same after each.       *)
(*                                                                         *)
(* A program is a script, or the body of a function of a script or of an   *)
(* imported module (kind).  Of the language it has literals, one variable, *)
(* calls of f, comparison, lazy booleans, assignment, conditionals, W and  *)
(* N loops with their counter _n, blocks, lists, @t, @b, @c, @r and @p.    *)
(***************************************************************************)
EXTENDS Passes, Functions

CONSTANTS
    Shared,     \* the literals whose value shares its backing
    Fuel,       \* bound on the instructions of one execution
    Programs,   \* programs, each a record [kind, body, vars] with the
                \* values of x and, in a script that has it, _n
    Tapes       \* what the calls of f may do

----------------------------------------------------------------------------
(* Syntax *)

Nothing          == [kind |-> "nothing"]
Lit(v)           == [kind |-> "lit", val |-> v]
Var              == [kind |-> "var"]
Call             == [kind |-> "call"]
Assign(e)        == [kind |-> "assign", expr |-> e]
Equal(l, r)      == [kind |-> "equal", left |-> l, right |-> r]
LazyBool(s, l, r) == [kind |-> "lazy", stop |-> s, left |-> l, right |-> r]
If(c, y, n)      == [kind |-> "if", cond |-> c, yes |-> y, no |-> n]
WLoop(c, b)      == [kind |-> "while", cond |-> c, body |-> b]
NLoop(c, b)      == [kind |-> "times", count |-> c, body |-> b]
Counter          == [kind |-> "index"]
Block(s)         == [kind |-> "block", stmts |-> s]
List(s)          == [kind |-> "list", items |-> s]
Attempt(e)       == [kind |-> "try", expr |-> e]
Break            == [kind |-> "break"]
Continue         == [kind |-> "continue"]
Leave(e)         == [kind |-> "return", expr |-> e]
Probe(e)         == [kind |-> "pause", expr |-> e]

Parts(n) ==
    CASE n.kind \in {"assign", "try", "return", "pause"} -> {n.expr}
      [] n.kind \in {"equal", "lazy"} -> {n.left, n.right}
      [] n.kind = "if"    -> {n.cond, n.yes, n.no}
      [] n.kind = "while" -> {n.cond, n.body}
      [] n.kind = "times" -> {n.count, n.body}
      [] n.kind = "block" -> Range(n.stmts)
      [] n.kind = "list"  -> Range(n.items)
      [] OTHER            -> {}

RECURSIVE Mentions(_, _)
Mentions(n, kinds) == n.kind \in kinds \/ (\E p \in Parts(n) : Mentions(p, kinds))

----------------------------------------------------------------------------
(* Meaning: the value of an expression, or how it ends otherwise, with the *)
(* calls it made and the values of x and of _n (i) after it.               *)

Yields(s, v)  == [s EXCEPT !.end = "value", !.v = v]
Quits(s, how) == [s EXCEPT !.end = how, !.v = Raised]
Going(s) == s.end = "value"

RECURSIVE Eval(_, _, _), EvalLoop(_, _, _, _), EvalTimes(_, _, _, _, _), EvalAll(_, _, _, _)

\* A loop, with the value of its last finished round.
EvalLoop(n, tape, s, last) ==
    LET c == Eval(n.cond, tape, s) IN
    IF ~Going(c) THEN c
    ELSE IF c.v \notin Booleans THEN Quits(c, "raises")
    ELSE IF c.v = False THEN Yields(c, last)
    ELSE LET b == Eval(n.body, tape, c) IN
         CASE b.end = "value"    -> EvalLoop(n, tape, b, b.v)
           [] b.end = "continue" -> EvalLoop(n, tape, b, last)
           [] b.end = "break"    -> Yields(b, last)
           [] OTHER              -> b

\* The rounds of an N loop from k on: each finds its number in _n.
EvalTimes(n, k, tape, s, last) ==
    IF k >= n.times THEN Yields(s, last)
    ELSE LET b == Eval(n.body, tape, [s EXCEPT !.i = Num(k)]) IN
         CASE b.end = "value"    -> EvalTimes(n, k + 1, tape, b, b.v)
           [] b.end = "continue" -> EvalTimes(n, k + 1, tape, b, last)
           [] b.end = "break"    -> Yields(b, last)
           [] OTHER              -> b

\* Expressions from left to right; the value is the sequence of theirs.
EvalAll(nodes, tape, s, vals) ==
    IF nodes = <<>> THEN Yields(s, vals)
    ELSE LET r == Eval(Head(nodes), tape, s) IN
         IF Going(r) THEN EvalAll(Tail(nodes), tape, r, Append(vals, r.v)) ELSE r

Eval(n, tape, s) ==
    CASE n.kind = "lit" -> Yields(s, n.val)
      [] n.kind = "var" -> Yields(s, s.x)
      [] n.kind = "index" -> Yields(s, s.i)
      [] n.kind = "call" ->
            LET v == Outcome(tape, s.calls + 1)
                c == [s EXCEPT !.calls = @ + 1]
            IN  IF v = Raised THEN Quits(c, "raises") ELSE Yields([c EXCEPT !.x = v], v)
      [] n.kind = "assign" ->
            LET r == Eval(n.expr, tape, s)
            IN  IF Going(r) THEN [r EXCEPT !.x = r.v] ELSE r
      [] n.kind = "equal" ->
            LET r == EvalAll(<<n.left, n.right>>, tape, s, <<>>)
            IN  IF Going(r) THEN Yields(r, Apply("=", r.v[1], r.v[2])) ELSE r
      [] n.kind = "lazy" ->
            LET l == Eval(n.left, tape, s)
                r == Eval(n.right, tape, l)
            IN  CASE ~Going(l) \/ l.v = n.stop -> l
                  [] ~Going(r)                 -> r
                  [] OTHER -> IF {l.v, r.v} \subseteq Booleans THEN r ELSE Quits(r, "raises")
      [] n.kind = "if" ->
            LET c == Eval(n.cond, tape, s)
            IN  CASE ~Going(c)          -> c
                  [] c.v \notin Booleans -> Quits(c, "raises")
                  [] c.v = True         -> Eval(n.yes, tape, c)
                  [] n.no = Nothing     -> Yields(c, Unit)
                  [] OTHER              -> Eval(n.no, tape, c)
      [] n.kind = "while" -> EvalLoop(n, tape, s, Unit)
      [] n.kind = "times" ->
            LET c == Eval(n.count, tape, s)
            IN  IF ~Going(c) THEN c
                ELSE [EvalTimes([times |-> c.v[2], body |-> n.body], 0, tape, c, Unit)
                        EXCEPT !.i = c.i]
      [] n.kind = "block" ->
            LET r == EvalAll(n.stmts, tape, s, <<>>)
            IN  IF Going(r) THEN Yields(r, r.v[Len(r.v)]) ELSE r
      [] n.kind = "list" ->
            LET r == EvalAll(n.items, tape, s, <<>>)
            IN  IF Going(r) THEN Yields(r, ListOf(r.v)) ELSE r
      [] n.kind = "try" ->
            LET r == Eval(n.expr, tape, s)
            IN  CASE r.end = "value"  -> Yields(r, Ok(r.v))
                  [] r.end = "raises" -> Yields(r, Raised)
                  [] OTHER            -> r
      [] n.kind = "return" ->
            LET r == Eval(n.expr, tape, s)
            IN  IF Going(r) THEN [r EXCEPT !.end = "return"] ELSE r
      [] n.kind = "pause" -> IF n.expr = Nothing THEN Yields(s, Unit) ELSE Eval(n.expr, tape, s)
      [] n.kind \in {"break", "continue"} -> Quits(s, n.kind)

Meaning(p, tape) ==
    LET i == IF Index \in DOMAIN p.vars THEN p.vars[Index] ELSE Unit
        r == Eval(p.body, tape,
                  [end |-> "value", v |-> Unit, calls |-> 0, x |-> p.vars[X], i |-> i])
    IN  [end   |-> <<IF r.end = "raises" THEN "raises" ELSE "returns", r.v>>,
         calls |-> r.calls, x |-> r.x]

----------------------------------------------------------------------------
(* The compiler.  Lower(n, env, needed) is the code of n: env says at      *)
(* which address it is placed, in what kind of program, and whether the    *)
(* function has a local _n by then; needed is the compiler's value_needed, *)
(* which only loops look at.                                               *)

HasControl(n) == Mentions(n, {"break", "continue", "return", "pause"})

\* A loop over a known small count is as many copies of its body, unless the
\* body has control flow.
Unrolls(n) == n.count.kind = "lit" /\ n.count.val[2] \in 0..64 /\ ~HasControl(n.body)

\* A loop that runs stores its _n; one of no round is compiled to a constant.
RECURSIVE StoresIndex(_)
StoresIndex(n) ==
    IF n.kind = "times" THEN ~Unrolls(n) \/ n.count.val # Num(0)
    ELSE \E p \in Parts(n) : StoresIndex(p)

\* The place k instructions after env, when the nodes were compiled there.  A
\* function that has stored _n has one of its own from there on; it captures none,
\* as no function of the programs is inside another.
Beyond(env, nodes, k) ==
    [env EXCEPT !.at = @ + k, !.local = @ \/ \E n \in nodes : StoresIndex(n)]

\* Operands that nothing evaluated after them can change.
CannotMutate(n) == n.kind \in {"lit", "var", "index"}

RECURSIVE ConstBody(_), ConstValue(_)
ConstBody(n) ==
    \/ n.kind = "lit"
    \/ n.kind = "block" /\ \A i \in DOMAIN n.stmts : ConstBody(n.stmts[i])
ConstValue(n) == IF n.kind = "lit" THEN n.val ELSE ConstValue(n.stmts[Len(n.stmts)])

\* The jumps of @b and @c wait for the loop they are in to know its ends.
Patched(code, break, continue) ==
    [i \in DOMAIN code |-> CASE code[i] = Plain("break")    -> Jump(break)
                             [] code[i] = Plain("continue") -> Jump(continue)
                             [] OTHER                       -> code[i]]

RECURSIVE Lower(_, _, _), LowerAll(_, _, _), LowerBlock(_, _, _), LowerRounds(_, _, _, _)

LowerCall == <<LoadCallTarget, Postfix>>

LowerAssign(n, env) == Append(Lower(n.expr, env, TRUE), StoreKeep(X))

LowerReturn(n, env) == Append(Lower(n.expr, env, TRUE), Return)

\* compile_expr_as_operand: code that is run before, if any, and the operand.
LowerOperand(n, env) ==
    CASE n.kind = "lit"   -> [code |-> <<>>, operand |-> Literal(n.val)]
      [] n.kind = "var"   -> [code |-> <<>>, operand |-> Named(X)]
      [] n.kind = "index" -> [code |-> <<>>, operand |-> Named(Index)]
      [] OTHER            -> [code |-> Lower(n, env, TRUE), operand |-> OnStack]

\* A variable on the left is read before a right operand that may change it.
LowerLeft(n, right, env) ==
    IF CannotMutate(right) \/ n.kind = "lit" THEN LowerOperand(n, env)
    ELSE [code |-> Lower(n, env, TRUE), operand |-> OnStack]

LowerEqual(n, env) ==
    LET l == LowerLeft(n.left, n.right, env)
        r == LowerOperand(n.right, Beyond(env, {n.left}, Len(l.code)))
    IN  l.code \o r.code \o <<Binary("=", l.operand, r.operand)>>

LowerLazy(n, env) ==
    LET l == Lower(n.left, env, TRUE)
        right == Beyond(env, {n.left}, Len(l) + 1)
        r == Lower(n.right, right, TRUE)
    IN  l \o <<Lazy(n.stop, right.at + Len(r) + 1)>> \o r \o <<Combine(n.stop)>>

\* Slip: a missing false branch leaves no value.
SlipLowerIf(n, env, needed) ==
    LET c == Lower(n.cond, env, TRUE)
        then == Beyond(env, {n.cond}, Len(c) + 1)
        y == Lower(n.yes, then, needed)
        else == Beyond(then, {n.yes}, Len(y) + 1)
        o == IF n.no = Nothing THEN <<>> ELSE Lower(n.no, else, needed)
    IN  c \o <<JumpIfFalse(else.at)>> \o y \o <<Jump(else.at + Len(o))>> \o o

LowerIf(n, env, needed) ==
    LET c == Lower(n.cond, env, TRUE)
        then == Beyond(env, {n.cond}, Len(c) + 1)
        y == Lower(n.yes, then, needed)
        else == Beyond(then, {n.yes}, Len(y) + 1)
        o == IF n.no = Nothing THEN <<Const(Unit)>> ELSE Lower(n.no, else, needed)
    IN  c \o <<JumpIfFalse(else.at)>> \o y \o <<Jump(else.at + Len(o))>> \o o

\* A loop whose body is constant is its condition, over and over.
LowerConstLoop(n, env) ==
    LET c == Lower(n.cond, env, TRUE)
    IN  c \o <<JumpIfFalse(env.at + Len(c) + 2), Jump(env.at), Const(ConstValue(n.body))>>

LowerLoop(n, env, needed) ==
    LET result == Hidden("result", env.at)
        init  == IF needed THEN <<Const(Unit), Store(result)>> ELSE <<>>
        start == Beyond(env, {}, Len(init))
        c     == Lower(n.cond, start, TRUE)
        b     == Lower(n.body, Beyond(start, {n.cond}, Len(c) + 1), needed)
        continue == start.at + Len(c) + Len(b) + 2
        end   == continue + 1
    IN  init \o c \o <<JumpIfFalse(end)>> \o Patched(b, end, continue)
             \o <<IF needed THEN Store(result) ELSE Pop, Jump(start.at),
                  IF needed THEN Load(result) ELSE Const(Unit)>>

\* An N loop keeps the _n it finds: a script's variable, the function's own,
\* or, in a function that has none yet, the one outside; code of an imported
\* module does not look outside.
LowerSave(env) ==
    LET old   == Hidden("old", env.at)
        bound == Hidden("bound", env.at)
    IN  CASE env.kind = "script" ->
                <<Exists(Index), StoreKeep(bound), JumpIfFalse(env.at + 5), Load(Index), Store(old)>>
          [] env.kind # "script" /\ env.local ->
                <<Const(Unit), Store(old), Load(Index), Store(old)>>
          [] env.kind = "module" /\ ~env.local ->
                <<Const(False), Store(bound), Const(Unit), Store(old)>>
          [] env.kind = "function" /\ ~env.local ->
                <<Exists(Global), StoreKeep(bound), Const(Unit), Store(old),
                  Exists(Global), JumpIfFalse(env.at + 8), Load(Global), Store(old)>>

\* The code at address at that gives back what LowerSave(env) kept.
LowerRestore(env, at) ==
    LET old   == Hidden("old", env.at)
        bound == Hidden("bound", env.at)
    IN  IF env.kind # "script" /\ env.local THEN <<Load(old), Store(Index)>>
        ELSE <<Load(bound), JumpIfFalse(at + 4), Load(old), Store(Index)>>

LowerRounds(n, env, k, needed) ==
    LET set   == <<Const(Num(k)), Store(Index)>>
        round == set \o Lower(n.body, Beyond(env, {}, 2), needed)
    IN  IF k + 1 = n.count.val[2] THEN round
        ELSE round \o <<Pop>> \o LowerRounds(n, Beyond(env, {}, Len(round) + 1), k + 1, needed)

LowerUnrolled(n, env, needed) ==
    IF n.count.val = Num(0) THEN <<Const(Unit)>>
    ELSE LET save   == LowerSave(env)
             first  == Beyond(env, {n}, Len(save))
             rounds == LowerRounds(n, first, 0, needed)
         IN  save \o rounds \o LowerRestore(env, first.at + Len(rounds))

LowerTimes(n, env, needed) ==
    LET count    == Hidden("count", env.at)
        result   == Hidden("result", env.at)
        snapshot == Hidden("snapshot", env.at)
        slots == env.kind # "script"
        c     == Lower(n.count, env, TRUE) \o <<Store(count)>>
        saver == Beyond(env, {n.count}, Len(c))
        init  == c \o LowerSave(saver) \o <<Const(Num(0)), Store(Index)>>
                   \o IF needed THEN <<Const(Unit), Store(result)>> ELSE <<>>
        start == Beyond(env, {n}, Len(init))
        round == Beyond(start, {}, IF slots THEN 1 ELSE 4)
        b     == Lower(n.body, round, needed)
        continue == round.at + Len(b) + 1
        end   == continue + IF slots THEN 1 ELSE 3
    IN  init \o (IF slots THEN <<NLoopEnter(count, snapshot, end)>>
                 ELSE <<Binary("<", Named(Index), Named(count)), JumpIfFalse(end),
                        Load(Index), Store(snapshot)>>)
             \o Patched(b, end, continue)
             \o <<IF needed THEN Store(result) ELSE Pop>>
             \o (IF slots THEN <<NLoopNext(snapshot, start.at)>>
                 ELSE <<Binary("+", Named(snapshot), Literal(Num(1))), Store(Index), Jump(start.at)>>)
             \o LowerRestore(saver, end)
             \o <<IF needed THEN Load(result) ELSE Const(Unit)>>

\* The values of all but the last statement are popped.
LowerBlock(stmts, env, needed) ==
    IF Len(stmts) = 1 THEN Lower(stmts[1], env, needed)
    ELSE LET s == Lower(Head(stmts), env, FALSE)
         IN  s \o <<Pop>> \o LowerBlock(Tail(stmts), Beyond(env, {Head(stmts)}, Len(s) + 1), needed)

LowerAll(items, env, done) ==
    IF items = <<>> THEN done
    ELSE LET e == Lower(Head(items), env, TRUE)
         IN  LowerAll(Tail(items), Beyond(env, {Head(items)}, Len(e)), done \o e)

LowerTry(n, env) ==
    LET e == Lower(n.expr, Beyond(env, {}, 1), TRUE) IN <<Try(Len(e))>> \o e

\* A pause takes no value and leaves none: it keeps that of its expression.
LowerPause(n, env, needed) ==
    IF n.expr # Nothing THEN Lower(n.expr, env, TRUE) \o <<Pause>>
    ELSE IF needed THEN <<Pause, Const(Unit)>> ELSE <<Pause>>

Lower(n, env, needed) ==
    CASE n.kind = "lit"    -> <<Const(n.val)>>
      [] n.kind = "var"    -> <<Load(X)>>
      [] n.kind = "index"  -> <<Load(Index)>>
      [] n.kind = "call"   -> LowerCall
      [] n.kind = "assign" -> LowerAssign(n, env)
      [] n.kind = "equal"  -> LowerEqual(n, env)
      [] n.kind = "lazy"   -> LowerLazy(n, env)
      [] n.kind = "if"     -> LowerIf(n, env, needed)
      [] n.kind = "while"  -> IF needed /\ ConstBody(n.body) THEN LowerConstLoop(n, env)
                              ELSE LowerLoop(n, env, needed)
      [] n.kind = "times"  -> IF Unrolls(n) THEN LowerUnrolled(n, env, needed)
                              ELSE LowerTimes(n, env, needed)
      [] n.kind = "block"  -> LowerBlock(n.stmts, env, needed)
      [] n.kind = "list"   -> Append(LowerAll(n.items, env, <<>>), MakeList(Len(n.items)))
      [] n.kind = "try"    -> LowerTry(n, env)
      [] n.kind = "return" -> LowerReturn(n, env)
      [] n.kind = "pause"  -> LowerPause(n, env, needed)
      [] n.kind \in {"break", "continue"} -> <<Plain(n.kind)>>

----------------------------------------------------------------------------
(* Constant propagation: what is known of the names and of the stack       *)
(* before each instruction, as the least fixed point of its effects.       *)

Unknown == <<"unknown">>
Lost    == [lost |-> TRUE, items |-> <<>>]   \* a stack of unknown height
Known(items) == [lost |-> FALSE, items |-> items]

Fact(s, name) == IF name \in DOMAIN s.names THEN s.names[name] ELSE Unknown
Learn(s, name, v) ==
    [s EXCEPT !.names = IF v \in {Unknown, Callee}
                        THEN [k \in DOMAIN @ \ {name} |-> @[k]] ELSE (name :> v) @@ @]
Forget(s) == [s EXCEPT !.names = <<>>]

PushFact(s, v) == IF s.stack.lost THEN s ELSE [s EXCEPT !.stack.items = Append(@, v)]
TopFact(s) ==
    IF s.stack.lost \/ s.stack.items = <<>> THEN Unknown
    ELSE s.stack.items[Len(s.stack.items)]
DropFacts(s, n) ==
    [s EXCEPT !.stack = IF @.lost \/ Len(@.items) < n THEN Lost ELSE Known(Drop(@.items, n))]

OperandFact(s, operand) ==
    CASE operand.from = "const" -> operand.val
      [] operand.from = "name"  -> Fact(s, operand.name)
      [] operand.from = "stack" -> TopFact(s)

\* The right operand is the upper one.
ComparedFact(s, inst) ==
    LET r == OperandFact(s, inst.right)
        l == OperandFact(DropFacts(s, Depth(inst.right)), inst.left)
    IN  IF Unknown \in {l, r} THEN Unknown ELSE Apply(inst.fun, l, r)
DropOperands(s, inst) == DropFacts(s, Depth(inst.left) + Depth(inst.right))

Branches(pc, v, s, to) ==
    CASE v = True  -> {<<pc + 1, s>>}
      [] v = False -> {<<to, s>>}
      [] OTHER     -> {<<pc + 1, s>>, <<to, s>>}

\* The n uppermost facts, if all are known.
TopKnown(s, n) ==
    LET from == Len(s.stack.items) - n
        top  == SubSeq(s.stack.items, from + 1, from + n)
    IN  IF s.stack.lost \/ from < 0 \/ \E i \in 1..n : top[i] = Unknown THEN <<>> ELSE <<top>>

CombinedFact(s, stop) ==
    LET known == TopKnown(s, 2) IN
    IF known # <<>> /\ Range(known[1]) \subseteq Booleans
    THEN IF stop \in Range(known[1]) THEN stop ELSE known[1][2]
    ELSE Unknown

ListFact(s, n) ==
    LET known == TopKnown(s, n) IN IF known = <<>> THEN Unknown ELSE ListOf(known[1])

\* Where an instruction leads, with what is known there.  A call may do
\* anything to the variables, and so may what a try region covers.
Effects(pc, inst, s) ==
    LET next(state) == {<<pc + 1, state>>} IN
    CASE inst.op = "const"     -> next(PushFact(s, inst.val))
      [] inst.op \in {"owned", "exists", "loadCallTarget"} -> next(PushFact(s, Unknown))
      [] inst.op = "load"      -> next(PushFact(s, Fact(s, inst.name)))
      [] inst.op = "storeKeep" -> next(Learn(s, inst.name, TopFact(s)))
      [] inst.op = "store"     -> next(Learn(DropFacts(s, 1), inst.name, TopFact(s)))
      [] inst.op = "binary"    -> next(PushFact(DropOperands(s, inst), ComparedFact(s, inst)))
      [] inst.op = "combine"   -> next(PushFact(DropFacts(s, 2), CombinedFact(s, inst.stop)))
      [] inst.op = "makeList"  -> next(PushFact(DropFacts(s, inst.n), ListFact(s, inst.n)))
      [] inst.op = "postfix"   -> next(PushFact(Forget(DropFacts(s, 1)), Unknown))
      [] inst.op = "pop"       -> next(DropFacts(s, 1))
      [] inst.op = "pause"     -> next(s)
      [] inst.op = "jump"      -> {<<inst.to, s>>}
      [] inst.op = "jumpIfFalse" -> Branches(pc, TopFact(s), DropFacts(s, 1), inst.to)
      [] inst.op = "jumpIfCmpFalse" ->
            Branches(pc, ComparedFact(s, inst), DropOperands(s, inst), inst.to)
      [] inst.op = "nLoopEnter" ->
            LET known   == {Fact(s, Index), Fact(s, inst.count)}
                goes    == IF Unknown \in known THEN Unknown
                           ELSE Apply("<", Fact(s, Index), Fact(s, inst.count))
                entered == Learn(s, inst.snapshot, Fact(s, Index))
            IN  (IF goes = False THEN {} ELSE {<<pc + 1, entered>>})
                    \cup (IF goes = True THEN {} ELSE {<<inst.to, s>>})
      [] inst.op = "nLoopNext" ->
            {<<inst.to, Learn(s, Index, IF Fact(s, inst.snapshot) = Unknown THEN Unknown
                                        ELSE Apply("+", Fact(s, inst.snapshot), Num(1)))>>}
      [] inst.op = "lazy"      ->
            LET stopped == PushFact(DropFacts(s, 1), inst.stop)
            IN  CASE TopFact(s) = inst.stop   -> {<<inst.to, stopped>>}
                  [] TopFact(s) \in Booleans  -> next(s)
                  [] OTHER                    -> next(s) \cup {<<inst.to, stopped>>}
      [] inst.op = "try"       ->
            {<<pc + 1 + inst.len, PushFact(Forget(s), Unknown)>>}
               \cup (IF inst.len > 0 THEN next(s) ELSE {})
      [] inst.op \in {"return", "tailPostfix"} -> {}

\* What is known when several ways lead to one place.
Meet(states) ==
    LET one   == CHOOSE s \in states : TRUE
        items == one.stack.items
    IN  [names |-> [k \in {k \in DOMAIN one.names : \A s \in states : Fact(s, k) = one.names[k]}
                      |-> one.names[k]],
         stack |-> IF \E s \in states : s.stack.lost \/ Len(s.stack.items) # Len(items) THEN Lost
                   ELSE Known([i \in DOMAIN items |->
                                IF \A s \in states : s.stack.items[i] = items[i]
                                THEN items[i] ELSE Unknown])]

RECURSIVE Settle(_, _, _)
Settle(c, facts, work) ==
    IF work = {} THEN facts
    ELSE LET pc      == CHOOSE pc \in work : TRUE
             out     == {e \in Effects(pc, c[pc], facts[pc]) : e[1] <= Len(c)}
             targets == {e[1] : e \in out}
             known   == DOMAIN facts
             incoming(t) == {e[2] : e \in {e \in out : e[1] = t}}
             new     == [t \in known \cup targets |->
                            IF t \notin targets THEN facts[t]
                            ELSE Meet(incoming(t) \cup {facts[k] : k \in known \cap {t}})]
             changed == {t \in targets : t \notin known \/ new[t] # facts[t]}
         IN  Settle(c, new, (work \ {pc}) \cup changed)

\* A script knows the globals it is compiled with.
Facts(c, p) ==
    LET start == [names |-> IF p.kind = "script" THEN p.vars ELSE <<>>, stack |-> Known(<<>>)]
    IN  Settle(c, (1 :> start), {1})

KnownOperand(operand, s) ==
    IF operand.from = "name" /\ Fact(s, operand.name) # Unknown
    THEN Literal(Fact(s, operand.name)) ELSE operand

Rewritten(inst, s) ==
    CASE inst.op = "load" ->
            IF Fact(s, inst.name) = Unknown THEN inst ELSE Const(Fact(s, inst.name))
      [] inst.op = "binary" ->
            LET l == KnownOperand(inst.left, s)
                r == KnownOperand(inst.right, s)
            IN  IF l.from = "const" /\ r.from = "const" THEN Const(Apply(inst.fun, l.val, r.val))
                ELSE Binary(inst.fun, l, r)
      [] OTHER -> inst

Propagated(c, p) ==
    LET facts == Facts(c, p) IN
    [pc \in DOMAIN c |-> IF pc \in DOMAIN facts THEN Rewritten(c[pc], facts[pc]) ELSE c[pc]]

----------------------------------------------------------------------------
(* Owned constants: a script gives a value away where it loads it once. *)

Successors(c, pc) ==
    LET inst == c[pc]
        to   == CASE inst.op = "return"    -> {}
                  [] inst.op \in {"jump", "nLoopNext"} -> {inst.to}
                  [] Jumps(inst)           -> {pc + 1, inst.to}
                  [] inst.op = "try"       -> {pc + 1 + inst.len}
                                                \cup (IF inst.len > 0 THEN {pc + 1} ELSE {})
                  [] OTHER                 -> {pc + 1}
    IN  to \cap DOMAIN c

RECURSIVE Reached(_, _)
Reached(c, pcs) ==
    LET more == pcs \cup UNION {Successors(c, pc) : pc \in pcs}
    IN  IF more = pcs THEN pcs ELSE Reached(c, more)

Cyclic(c, pc) == pc \in Reached(c, Successors(c, pc))

Extracted(c) ==
    [pc \in DOMAIN c |->
        IF c[pc].op = "const" /\ c[pc].val \in Shared /\ ~Cyclic(c, pc)
        THEN Owned(pc, c[pc].val) ELSE c[pc]]

\* A jump out of a try region.
JumpsOutOfTry(c) ==
    \E i, j \in DOMAIN c : /\ c[i].op = "try" /\ j \in i..(i + c[i].len)
                           /\ Jumps(c[j]) /\ c[j].to \notin i..(i + 1 + c[i].len)

----------------------------------------------------------------------------
(* Executions, of at most Fuel instructions *)

RECURSIVE Turns(_, _, _, _)
Turns(code, tape, m, fuel) ==
    IF m.end # <<>> THEN m
    ELSE IF fuel = 0 THEN Ends(m, "runs on", Unit)
    ELSE Turns(code, tape, Turn(code, tape, m), fuel - 1)

Execution(code, tape, vars) == Turns(code, tape, Start(vars), Fuel)

----------------------------------------------------------------------------
(* The passes *)

VARIABLES
    program,    \* the program, as it was written
    phase,      \* the pass that was last
    code,       \* the code after it
    hazards     \* what the passes met that they do not ask about

vars == <<program, phase, code, hazards>>

Init ==
    /\ program \in Programs
    /\ phase = "source"
    /\ code = <<>>
    /\ hazards = {}

Pass(from, to, result) ==
    /\ phase = from
    /\ phase' = to
    /\ code' = result
    /\ UNCHANGED program

Entry == [at |-> 1, kind |-> program.kind, local |-> FALSE]

Compile ==
    /\ Pass("source", "compiled", Append(Lower(program.body, Entry, TRUE), Return))
    /\ UNCHANGED hazards

PropagateConstants ==
    /\ Pass("compiled", "propagated", Propagated(code, program))
    /\ UNCHANGED hazards

\* A script makes no tail calls.
RewriteTailCalls ==
    /\ Pass("propagated", "rewritten", IF program.kind = "script" THEN code ELSE TailsRewritten(code))
    /\ UNCHANGED hazards

FuseOnce ==
    /\ Fused(code) # code
    /\ Pass("rewritten", "rewritten", Fused(code))
    /\ hazards' = hazards \cup (IF JumpsIntoPair(code) THEN {"pair"} ELSE {})

\* Nothing is left to fuse; a script also gives its constants away.
ExtractOwned ==
    /\ phase = "rewritten"
    /\ Fused(code) = code
    /\ Pass("rewritten", "ready", IF program.kind = "script" THEN Extracted(code) ELSE code)
    /\ hazards' = hazards \cup (IF program.kind = "script" /\ JumpsOutOfTry(code) THEN {"try"} ELSE {})

Next == Compile \/ PropagateConstants \/ RewriteTailCalls \/ FuseOnce \/ ExtractOwned

Spec == Init /\ [][Next]_vars

----------------------------------------------------------------------------
(* Properties *)

Agrees(tape) ==
    LET end == Execution(code, tape, program.vars)
    IN  /\ Observed(end) = Meaning(program, tape)
        /\ program.kind = "script" /\ Index \in DOMAIN program.vars
              => IndexLeft(end) \in {program.vars[Index], Unit}

\* After every pass the code does what the program means, however the calls
\* in it end: it ends in the same way with the same value, has called f as
\* often, and leaves the same x.  Fusion may not see that a jump lands inside
\* a pair, and extraction may not see that an error takes a loop around again.
MeaningKept ==
    phase # "source" /\ hazards = {} => \A tape \in Tapes : Agrees(tape)

\* All ways to an instruction find the same number of values on the stack, and
\* the code is of the shape that the passes rely on without asking for it.
HeightsAgree ==
    phase # "source" /\ "pair" \notin hazards =>
        LET facts == Facts(code, program)
        IN  /\ \A pc \in DOMAIN facts : ~facts[pc].stack.lost
            /\ WellFormed(code)

\* What the book says of a conditional, fusion included: condition, true
\* branch, false branch.
ConditionChooses ==
    phase = "ready" /\ program.kind # "script" => \A tape \in Tapes : Agrees(tape)

\* An instruction that gives its value away is executed once.
OwnedIsLoadedOnce ==
    phase = "ready" /\ "pair" \notin hazards =>
        \A tape \in Tapes : Execution(code, tape, program.vars).end[1] # "crashes"
=============================================================================
