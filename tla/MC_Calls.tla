------------------------------ MODULE MC_Calls ------------------------------
(* Values of the constants for the model-checking run of Calls.            *)
EXTENDS Calls, TLC

CONSTANTS c1, c2, s1, s2, s3, parent, child, hp, hc, p1, p2

(* An object for a cgroup, and one for the cgroup above it.                *)
Dirs     == {parent, child}
DirsOver == parent :> {parent} @@ child :> {parent, child}
Objects  == hp :> parent @@ hc :> child
Freezes  == [op : {"freeze", "thaw"}, handle : {hp, hc}]

(* With a pid and without, where there is a choice.                        *)
UnitCalls ==
    [op : {"new", "delete"}, pid : BOOLEAN] \cup [op : {"create1", "delete1"}, pid : {TRUE}]

(* What the theorems about Stat and the freezer presume.                   *)
ASSUME Presumed == Handlers = 1 /\ Freezer!OneObject

(* All processes are in the child; what is not the part of a behaviour has *)
(* one state.                                                              *)
StartHere ==
    /\ StartAll
    /\ home = [p \in Pid |-> child]
    /\ part # "freezer" => proc = [p \in Pid |-> "none"]
    /\ part # "units" => unit = "absent"

SpecHere == StartHere /\ [][NextAll]_allVars /\ Fairness
=============================================================================
