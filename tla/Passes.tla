------------------------------- MODULE Passes -------------------------------
(***************************************************************************)
(* The passes that rewrite code without asking what it computes: tail      *)
(* calls (wqpl/src/compile/tce.rs) and fusion (wqpl/src/compile/fuse.rs),  *)
(* and the shape of the code the compiler hands to them.                   *)
(***************************************************************************)
EXTENDS Bytecode, FiniteSets

----------------------------------------------------------------------------
(* Tail calls: a call whose value is returned, outside try regions. *)

InTry(c, pc) == \E i \in 1..(pc - 1) : c[i].op = "try" /\ pc <= i + c[i].len

\* Slip: also inside a try region, which is then gone when the call raises.
SlipTailsRewritten(c) ==
    [pc \in DOMAIN c |->
        IF pc < Len(c) /\ c[pc] = Postfix /\ c[pc + 1] = Return THEN TailPostfix ELSE c[pc]]

TailsRewritten(c) ==
    [pc \in DOMAIN c |->
        IF pc < Len(c) /\ c[pc] = Postfix /\ c[pc + 1] = Return /\ ~InTry(c, pc)
        THEN TailPostfix ELSE c[pc]]

----------------------------------------------------------------------------
(* Fusion: one pass over the code. *)

TryEnds(c, pc) == \E i \in 1..(pc - 1) : c[i].op = "try" /\ i + 1 + c[i].len = pc

Pairs == {<<"const", "pop">>, <<"storeKeep", "pop">>, <<"binary", "jumpIfFalse">>}

\* Two instructions that become one, or nothing; of the operators only
\* comparisons have a jump of their own.
IsPair(c, i) ==
    /\ i < Len(c) /\ <<c[i].op, c[i + 1].op>> \in Pairs /\ ~TryEnds(c, i + 1)
    /\ c[i].op = "binary" => c[i].fun \in {"=", "<"}

ToNext(c, i) == Jumps(c[i]) /\ c[i].to = i + 1

Kept(c) ==
    {i \in DOMAIN c : /\ ~(IsPair(c, i) /\ c[i].op = "const")
                      /\ ~(i > 1 /\ IsPair(c, i - 1))
                      /\ ~(c[i].op = "jump" /\ ToNext(c, i))}

\* An address becomes that of the first instruction kept at it or after it.
Before(kept, pc) == Cardinality({i \in kept : i < pc})
Moves(c) ==
    LET kept == Kept(c) IN [pc \in 1..(Len(c) + 1) |-> Before(kept, pc) + 1]

FusedInst(c, i) ==
    CASE IsPair(c, i) /\ c[i].op = "storeKeep" -> Store(c[i].name)
      [] IsPair(c, i) /\ c[i].op = "binary"    ->
            JumpIfCmpFalse(c[i].fun, c[i].left, c[i].right, c[i + 1].to)
      [] c[i].op = "jumpIfFalse" /\ ToNext(c, i) -> Pop
      [] OTHER -> c[i]

Relocated(moves, i, inst) ==
    CASE Jumps(inst)       -> [inst EXCEPT !.to = moves[@]]
      [] inst.op = "try"   -> Try(moves[i + 1 + inst.len] - moves[i] - 1)
      [] OTHER             -> inst

Fused(c) ==
    LET kept  == Kept(c)
        moves == Moves(c)
    IN  [k \in 1..Cardinality(kept) |->
            LET i == CHOOSE i \in kept : moves[i] = k
            IN  Relocated(moves, i, FusedInst(c, i))]

\* A jump to the second half of a pair: fusion does not ask for it.
JumpsIntoPair(c) ==
    \E i, j \in DOMAIN c : IsPair(c, i) /\ Jumps(c[j]) /\ c[j].to = i + 1

----------------------------------------------------------------------------
(* The shape of compiled code *)

Fields(op) ==
    CASE op = "const"       -> {"op", "val"}
      [] op = "owned"       -> {"op", "slot", "val"}
      [] op \in {"load", "store", "storeKeep", "exists"} -> {"op", "name"}
      [] op = "binary"      -> {"op", "fun", "left", "right"}
      [] op \in {"jump", "jumpIfFalse"} -> {"op", "to"}
      [] op = "jumpIfCmpFalse" -> {"op", "fun", "left", "right", "to"}
      [] op = "nLoopEnter"  -> {"op", "count", "snapshot", "to"}
      [] op = "nLoopNext"   -> {"op", "snapshot", "to"}
      [] op = "lazy"        -> {"op", "stop", "to"}
      [] op = "combine"     -> {"op", "stop"}
      [] op = "try"         -> {"op", "len"}
      [] op = "makeList"    -> {"op", "n"}
      [] op \in {"pop", "return", "pause", "loadCallTarget", "postfix", "tailPostfix"} -> {"op"}

Ops ==
    {"const", "owned", "load", "store", "storeKeep", "exists", "binary", "jump",
     "jumpIfFalse", "jumpIfCmpFalse", "nLoopEnter", "nLoopNext", "lazy", "combine",
     "try", "makeList", "pop", "return", "pause", "loadCallTarget", "postfix",
     "tailPostfix"}

\* A jump, or a region, ends in the code.
Fits(c, i) ==
    LET inst == c[i] IN
    /\ inst.op \in Ops
    /\ inst = [f \in DOMAIN inst |-> inst[f]] /\ DOMAIN inst = Fields(inst.op)
    /\ Jumps(inst) => inst.to \in DOMAIN c
    /\ inst.op = "try" => inst.len \in Nat /\ i + 1 + inst.len \in DOMAIN c
    /\ inst.op = "makeList" => inst.n \in Nat

Regions(c)   == {i \in DOMAIN c : c[i].op = "try"}
RegionEnd(c, i) == i + 1 + c[i].len
Inside(c, i) == (i + 1)..(RegionEnd(c, i) - 1)

\* Regions are nested, and what leaves one by a jump leaves it forwards, past
\* something that fusion keeps.
RegionsNest(c) ==
    LET kept == Kept(c) IN
    \A i \in Regions(c) :
        /\ \A j \in Regions(c) \cap Inside(c, i) : RegionEnd(c, j) <= RegionEnd(c, i)
        /\ \A j \in Inside(c, i) : Jumps(c[j]) =>
              \/ c[j].to \in (i + 1)..RegionEnd(c, i)
              \/ \E k \in kept : RegionEnd(c, i) <= k /\ k < c[j].to

\* A branch to the next instruction tests nothing, so fusion makes it a pop.
BranchesSomewhere(c) ==
    \A i \in DOMAIN c : c[i].op = "jumpIfFalse" /\ ToNext(c, i) => i > 1 /\ IsPair(c, i - 1)

WellFormed(c) ==
    /\ DOMAIN c = 1..Len(c) /\ Len(c) \in Nat \ {0} /\ c[Len(c)].op = "return"
    /\ \A i \in DOMAIN c : Fits(c, i)
    /\ RegionsNest(c)
    /\ BranchesSomewhere(c)
=============================================================================
