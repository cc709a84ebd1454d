------------------------------ MODULE MC_Tree2 ------------------------------
(* Values of the constants for the model-checking runs of Tree2: a mount   *)
(* point root with the chain a, b under it, and in one of them the cgroup  *)
(* x, to which MoveTo moves.                                               *)
EXTENDS Tree2, TLC

CONSTANTS root, a, b, x, p1, p2, c1, c2, memory, io

Paths ==
    [d \in Dir |-> CASE d = root -> <<root>>
                     [] d = a -> <<root, a>>
                     [] d = b -> <<root, a, b>>
                     [] d = x -> <<root, x>>]

Else == IF x \in Dir THEN x ELSE root

Make(op, d, s) == [op |-> op, dir |-> d, ctrl |-> s, pid |-> p1, dst |-> Else]
Put(op, p, d)  == [op |-> op, dir |-> d, ctrl |-> {}, pid |-> p, dst |-> Else]

(* The callers are alike.                                                  *)
Alike == Permutations({c1, c2})

ToggleMenu ==
    {Make("new", b, {memory}), Make("enable", b, {memory, io}),
     Make("disable", b, {memory}), Make("disable", a, {memory, io}),
     Make("delete", b, {}), Make("child", a, {}), Put("add", p1, b)}

DeleteMenu ==
    {Make("delete", a, {}), Make("delete", Else, {}), Make("settype", b, {}),
     Make("move", a, {}), Make("child", b, {}), Put("add", p1, b), Put("thread", p1, b)}
=============================================================================
