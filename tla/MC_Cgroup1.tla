----------------------------- MODULE MC_Cgroup1 -----------------------------
(* Values of the constants for the model-checking runs of Cgroup1.         *)
EXTENDS Cgroup1, TLC

CONSTANTS s1, s2, s3, p1, p2, t1, t2, h1, h2

a  == <<"a">>
b  == <<"b">>
ac == <<"a", "c">>

TwoPaths == {a, b}
OnePath  == {a}
FlatA    == {Root, a}
Nested   == {Root, a, ac}
Full     == {Root, a, b, ac}

SubsystemOrder ==
    [s \in Subsystem |-> (s1 :> 1 @@ s2 :> 2 @@ s3 :> 3)[s]]

(* The trees found at the start.                                           *)
EmptyTree  == {{Root}}
WholeTree  == {Full}
FlatATrees == {{Root}, {Root, a}}

(* Who adds which process: each process is one caller's business.          *)
OwnProcess == {<<t1, p1>>, <<t2, p2>>}

(* MoveTo calls that never pair two handles both ways.                     *)
OneWay == {<<h1, h2>>}

AllOps == OpNames
=============================================================================
