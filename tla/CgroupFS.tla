------------------------------ MODULE CgroupFS ------------------------------
(***************************************************************************)
(* The kernel side of the cgroup v1 package: one directory tree per        *)
(* mounted subsystem, and processes, each of them a member of one          *)
(* directory of every tree.  None of it is code of the repository; it is   *)
(* modelled from how package cgroup1 uses it (mkdir, rmdir through         *)
(* os.RemoveAll, reading and writing cgroup.procs).                        *)
(*                                                                         *)
(* A cgroup is the sequence of its path components, so that the path of a  *)
(* child is Append(parent, name) and the root is the empty sequence.       *)
(***************************************************************************)
EXTENDS Naturals, Sequences

CONSTANTS Subsystem,   \* the mounted controllers
          Cgroup,      \* the paths a tree may hold, Root among them
          Pid,         \* processes that exist or may be forked
          InitDirs,    \* the trees a subsystem may hold at the start
          Forks        \* whether processes fork

Root == <<>>

(* d is c or lies beneath it.                                              *)
Under(c, d) == Len(c) <= Len(d) /\ SubSeq(d, 1, Len(c)) = c

Subtree(c)   == {d \in Cgroup : Under(c, d)}
Ancestors(c) == {d \in Cgroup : Under(d, c)}

ASSUME TreeAssumption ==
    /\ Cgroup \subseteq Seq(STRING)
    /\ Root \in Cgroup
    /\ InitDirs \subseteq {D \in SUBSET Cgroup : Root \in D}

(* A directory has its parent.                                             *)
ASSUME ClosedAssumption ==
    /\ \A c \in Cgroup : \A i \in 0 .. Len(c) : SubSeq(c, 1, i) \in Cgroup
    /\ \A D \in InitDirs : \A d \in D : Ancestors(d) \subseteq D

ASSUME ForksAssumption == Forks \in BOOLEAN

VARIABLES dirs,    \* [Subsystem -> SUBSET Cgroup]: the directories
          member,  \* [Pid -> [Subsystem -> Cgroup]]: where a process is
          proc     \* [Pid -> ProcState]

kvars == <<dirs, member, proc>>

(* "new" is TASK_NEW: forked, listed, and not yet movable.                 *)
ProcState == {"none", "new", "run", "dead"}

KernelTypeOK ==
    /\ dirs \in [Subsystem -> SUBSET Cgroup]
    /\ member \in [Pid -> [Subsystem -> Cgroup]]
    /\ proc \in [Pid -> ProcState]

KernelInit ==
    /\ dirs \in [Subsystem -> InitDirs]
    /\ member \in [Pid -> [Subsystem -> Cgroup]]
    /\ \A p \in Pid, s \in Subsystem : member[p][s] \in dirs[s]
    /\ proc \in [Pid -> {"none", "run"}]
    /\ \A p \in Pid : proc[p] = "none" => member[p] = [s \in Subsystem |-> Root]

(* What cgroup.procs of directory c lists.                                 *)
ProcsIn(s, c) == {p \in Pid : proc[p] \in {"new", "run"} /\ member[p][s] = c}

Children(s, c) == {d \in dirs[s] : Len(d) = Len(c) + 1 /\ Under(c, d)}

(* os.RemoveAll on a cgroup directory: rmdir succeeds bottom-up on every   *)
(* directory of the subtree beneath which no process is left.              *)
Removable(s, c) ==
    {d \in dirs[s] \cap Subtree(c) :
        \A e \in dirs[s] \cap Subtree(d) : ProcsIn(s, e) = {}}

MkdirAll(s, c) == dirs' = [dirs EXCEPT ![s] = @ \cup Ancestors(c)]

RemoveAll(s, c) == dirs' = [dirs EXCEPT ![s] = @ \ Removable(s, c)]

WritePid(p, s, c) == member' = [member EXCEPT ![p][s] = c]

(* A child starts in the cgroups of its parent.                            *)
Fork(p, q) ==
    /\ Forks
    /\ proc[p] = "run" /\ proc[q] = "none"
    /\ proc' = [proc EXCEPT ![q] = "new"]
    /\ member' = [member EXCEPT ![q] = member[p]]
    /\ UNCHANGED dirs

Wake(p) ==
    /\ proc[p] = "new"
    /\ proc' = [proc EXCEPT ![p] = "run"]
    /\ UNCHANGED <<dirs, member>>

Exit(p) ==
    /\ proc[p] = "run"
    /\ proc' = [proc EXCEPT ![p] = "dead"]
    /\ UNCHANGED <<dirs, member>>

KernelNext == \E p \in Pid : Wake(p) \/ Exit(p) \/ \E q \in Pid : Fork(p, q)
=============================================================================
