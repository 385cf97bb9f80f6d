----------------------------- MODULE MCLowering -----------------------------
(* Small programs: every construct around every construct.                 *)
EXTENDS Lowering

Tag   == <<"tag">>      \* a literal whose value shares its backing
MCShared == {Tag, Unit}
MCTapes  == [1..3 -> {True, False, Raised}]

Leaves == {Lit(True), Lit(Tag), Var, Call}

\* Conditions that ask f and end a loop when it has no more to say.
Conditions ==
    {Call, Equal(Call, Lit(True)), LazyBool(False, Call, Call),
     If(Call, Call, Lit(False)), Block(<<Call, Call>>)}

\* What may stand in the body of a loop only.
Loose ==
    {Break, Continue, If(Call, Break, Nothing), If(Call, Continue, Call),
     Block(<<Assign(Lit(Tag)), Call, Break>>), If(Call, Call, Break)}
LooseTries ==
    {Attempt(e) : e \in {Break, If(Call, Continue, Call), Block(<<Assign(Lit(Tag)), Call, Break>>)}}

Loops(bodies) ==
    {WLoop(c, b) : c \in Conditions, b \in bodies}
        \cup {WLoop(Call, Block(<<b, Call>>)) : b \in bodies}
        \cup {WLoop(Call, Block(<<Call, b>>)) : b \in bodies}

Small ==
    Leaves
        \cup {Assign(e) : e \in Leaves}
        \cup {Attempt(e) : e \in Leaves}
        \cup {Leave(e) : e \in Leaves}
        \cup {Probe(e) : e \in Leaves}
        \cup {Equal(l, r) : l, r \in Leaves}
        \cup {LazyBool(stop, l, r) : stop \in Booleans, l \in {Var, Call}, r \in Leaves}
        \cup {If(c, y, n) : c \in {Var, Call}, y \in Leaves, n \in Leaves \cup {Nothing}}
        \cup {Block(<<s, t>>) : s, t \in Leaves}
        \cup {List(<<l, r>>) : l \in {Var, Call}, r \in Leaves}
        \cup Loops({Var, Call} \cup Loose)

\* One construct around an expression.
Around(e) ==
    {e, Assign(e), Attempt(e), Leave(e), Probe(e),
     Equal(Var, e), Equal(e, Var), Equal(Call, e), Equal(e, Call),
     LazyBool(True, e, Call), LazyBool(False, Call, e),
     If(e, Var, Call), If(Call, e, Nothing), If(Call, e, Var), If(Call, Var, e),
     Block(<<e, Var>>), Block(<<Assign(Lit(True)), e, Var>>), Block(<<Call, e>>),
     List(<<e, Call>>), List(<<Lit(Tag), Block(<<e, Var>>), Call>>),
     Block(<<Attempt(e), Var>>), Block(<<WLoop(Call, e), Var>>),
     WLoop(Block(<<e, Call>>), Var), WLoop(Call, Block(<<e, Call>>)),
     WLoop(Call, Block(<<Call, e>>))}

Twice(e) == UNION {Around(a) : a \in Around(e)}

Bodies ==
    UNION {Around(e) : e \in Small} \cup Loops(LooseTries)
        \cup Twice(Call) \cup Twice(Attempt(Call)) \cup Twice(WLoop(Call, Call))

\* N loops: counts the compiler knows and counts it does not.
Counts == {Lit(Num(k)) : k \in 0..2} \cup {Block(<<Call, Lit(Num(2))>>)}
Counted ==
    {Call, Assign(Counter), Equal(Counter, Lit(Num(1))), List(<<Counter, Call, Counter>>),
     If(Call, Break, Nothing), If(Equal(Counter, Lit(Num(0))), Continue, Call),
     Block(<<Attempt(Call), Assign(Counter)>>), Probe(Assign(Counter))}
InnerLoops == {List(<<Counter, NLoop(c, Assign(Counter)), Counter>>) : c \in Counts}
NLoops == {NLoop(c, b) : c \in Counts, b \in Counted \cup InnerLoops}
\* A loop of no round, which stores no _n, before another one.
AfterNone == {Block(<<NLoop(Lit(Num(0)), Call), n>>) : n \in NLoops}
NBodies == UNION {Around(e) : e \in NLoops} \cup AfterNone

\* An error that leaves an N loop leaves its _n behind.
RECURSIVE LoopInTry(_)
LoopInTry(n) == \/ n.kind = "try" /\ Mentions(n, {"times"})
                \/ \E p \in Parts(n) : LoopInTry(p)

Function(body) == [kind |-> "function", body |-> body, vars |-> (X :> True) @@ (Index :> Unit)]
InModule(body) == [Function(body) EXCEPT !.kind = "module"]
Script(body)   == [kind |-> "script", body |-> body, vars |-> (X :> True)]
Counting(body) == [Script(body) EXCEPT !.vars = (Index :> Num(7)) @@ @]

\* @r is for functions only.
MCPrograms ==
    {Function(b) : b \in Bodies}
        \cup {Script(b) : b \in {b \in Bodies : ~Mentions(b, {"return"})}}
        \cup {InModule(b) : b \in NBodies}
        \cup {p \in {Script(b) : b \in NLoops} \cup {Counting(b) : b \in NBodies} :
                 ~Mentions(p.body, {"return"}) /\ ~LoopInTry(p.body)}

\* Programs that are left out above, each kind for a configuration of its own:
\* a loop whose value is that of a constant body, a jump out of a list, an N
\* loop in a function that has no _n yet, one that an error leaves, and a @p
\* without an expression, which leaves no value for its statement to pop.
ConstLoops == {Function(WLoop(Call, Lit(Tag))), Script(WLoop(Call, Lit(Tag)))}
OperandJumps ==
    {Function(List(<<Var, WLoop(Call, List(<<Call, j>>)), Call>>)) : j \in {Break, Continue}}
FirstLoops == {Function(List(<<Var, n, Call>>)) : n \in NLoops}
BareProbes == {Function(List(<<Var, Block(<<Probe(Nothing), Call>>), Call>>))}
LoopsInTry ==
    {InModule(NLoop(Lit(Num(2)), List(<<Attempt(NLoop(Lit(Num(2)), Call)), Counter>>)))}
=============================================================================
