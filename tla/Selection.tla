------------------------------ MODULE Selection ------------------------------
(***************************************************************************)
(* Loops that pass over some of what they go through, and pointers that    *)
(* may be nil.  Selected(s, S) is SelectSeq with a set for the test, and   *)
(* is written as a recursive function so that it can be reasoned about.    *)
(***************************************************************************)
EXTENDS Integers, Sequences

(* The elements of a sequence that are in a set, in their order.           *)
Selected(s, S) ==
    LET upTo[n \in 0 .. Len(s)] ==
            IF n = 0 THEN <<>>
            ELSE IF s[n] \in S THEN Append(upTo[n - 1], s[n]) ELSE upTo[n - 1]
    IN  upTo[Len(s)]

(* A pointer is the set of what it points to, {} for nil.                  *)
IsPointer(p) == \A v, w \in p : v = w

PointerTo(S) == {p \in SUBSET S : IsPointer(p)}

Deref(p) == CHOOSE v \in p : TRUE

(* The empty string: a name that was not given.                            *)
Blank == ""
=============================================================================
