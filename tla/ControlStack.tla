---------------------------- MODULE ControlStack ----------------------------
(***************************************************************************)
(* What the calls, try blocks, builtins and imports of wq promise, as if   *)
(* the virtual machine had one stack of contexts.  Contexts are left in    *)
(* the reverse of the order in which they were entered; an error goes to   *)
(* the innermost context that handles it and ends every context above it;  *)
(* a module is cached when its initializer is left, and forgotten when an  *)
(* error ends it.  VmCalls has five stacks that refer to one another by    *)
(* call depth instead.                                                     *)
(*                                                                         *)
(* A stopped evaluation (Ctrl-C, cliargs) is left in any order.            *)
(***************************************************************************)
EXTENDS Naturals, Sequences

CONSTANTS Modules, NoModule

VARIABLES stack, thrown, cache, stopped

vars == <<stack, thrown, cache, stopped>>

(* A call knows the module whose initializer it runs, and whether it was   *)
(* made by a builtin that turns the errors of its callbacks into data.     *)
Call(module, captured) == [kind |-> "call", module |-> module, captured |-> captured]
Plain(kind) == [kind |-> kind, module |-> NoModule, captured |-> FALSE]

Contexts == {Call(m, c) : m \in Modules \cup {NoModule}, c \in BOOLEAN}
              \cup {Plain("try"), Plain("builtin")}

(* try never handles an error of the machine itself *)
Handles(context, e) == \/ context.kind = "try" /\ e = "user"
                       \/ context.captured

Down(k) == SubSeq(stack, 1, k)
Above(k) == {stack[i] : i \in k + 1 .. Len(stack)}
ModulesIn(contexts) == {c.module : c \in contexts} \ {NoModule}

Settle(modules, entry) == [m \in Modules |-> IF m \in modules THEN entry ELSE cache[m]]

Init == /\ stack = <<>>
        /\ thrown = "none"
        /\ cache = [m \in Modules |-> "none"]
        /\ stopped = FALSE

Open(context) ==
  /\ thrown = "none"
  /\ context.module # NoModule => cache[context.module] = "none"
  /\ stack' = Append(stack, context)
  /\ cache' = Settle({context.module}, "loading")
  /\ UNCHANGED thrown

(* One or more contexts are left with a value: a region or a builtin ends, *)
(* or a call returns out of the regions it is in.                          *)
Leave(k) ==
  /\ thrown = "none"
  /\ \A i \in k + 2 .. Len(stack) : stack[i].kind # "call"
  /\ stack' = Down(k)
  /\ cache' = Settle(ModulesIn(Above(k)), "loaded")
  /\ UNCHANGED thrown

(* A builtin that fails ends itself. *)
Throw(e) ==
  /\ thrown = "none"
  /\ thrown' = e
  /\ \/ UNCHANGED stack
     \/ /\ stack[Len(stack)].kind = "builtin"
        /\ stack' = Down(Len(stack) - 1)
  /\ UNCHANGED cache

Unwind(k) ==
  /\ thrown # "none"
  /\ \A context \in Above(k) : ~Handles(context, thrown)
  /\ stack' = Down(k)
  /\ cache' = Settle(ModulesIn(Above(k)), "none")
  /\ thrown' = IF k = 0 THEN "none" ELSE thrown

(* The handler is left too, with the error as its value. *)
Handle(k) ==
  /\ thrown # "none"
  /\ Handles(stack[k], thrown)
  /\ \A context \in Above(k) : ~Handles(context, thrown)
  /\ stack' = Down(k - 1)
  /\ cache' = Settle(ModulesIn(Above(k)), "none")
  /\ thrown' = "none"

(* A new evaluation starts, whatever was left of the last one; modules     *)
(* that were being loaded are forgotten, loaded ones are kept.             *)
Restart ==
  /\ stack' \in {<<>>, <<Call(NoModule, FALSE)>>}
  /\ thrown' = "none"
  /\ cache' = Settle({m \in Modules : cache[m] = "loading"}, "none")

Reload == /\ stack' = <<>>
          /\ thrown' = "none"
          /\ cache' = [m \in Modules |-> "none"]

Next ==
  \/ stopped'
  \/ /\ ~stopped'
     /\ \/ /\ ~stopped
           /\ \/ \E context \in Contexts : Open(context)
              \/ \E k \in 0 .. Len(stack) - 1 : Leave(k) \/ Unwind(k)
              \/ \E k \in 1 .. Len(stack) : Handle(k)
              \/ \E e \in {"user", "machine"} : Throw(e)
        \/ Restart
        \/ Reload

Spec == Init /\ [][Next]_vars
=============================================================================
