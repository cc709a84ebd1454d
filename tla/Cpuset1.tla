------------------------------- MODULE Cpuset1 -------------------------------
(***************************************************************************)
(* The cpuset controller of package cgroup1 (cgroup1/cpuset.go): Create,   *)
(* which Update calls too, makes the directories of a path and fills what  *)
(* is empty in each from its parent, from the top down, before it writes   *)
(* the caller's values.  Calls for overlapping paths come from different   *)
(* cgroup objects, so no lock is shared, and they interleave at every      *)
(* access to a file.                                                       *)
(*                                                                         *)
(* That a cpuset must lie within its parent's and contain its children's   *)
(* is the kernel's rule, and external.  Nobody removes a directory here.   *)
(***************************************************************************)
EXTENDS Naturals, Sequences

CONSTANTS Dir,
          Path,   \* of each, the directories from the root down to it
          Cpu,    \* the cpus, and the memory nodes
          Caller,
          Menu    \* the calls of Create: [dir, cpus, mems], {} for no value

File == {"cpus", "mems"}

Root == CHOOSE d \in Dir : Len(Path[d]) = 1

CpusetAssumption ==
    /\ Dir # {} /\ Path \in [Dir -> Seq(Dir)]
    /\ \A d \in Dir : Len(Path[d]) > 0 /\ Path[d][Len(Path[d])] = d
    /\ \A d \in Dir : \A i \in 1 .. Len(Path[d]) : Path[Path[d][i]] = SubSeq(Path[d], 1, i)
    /\ \A d, e \in Dir : Path[d][1] = Path[e][1]
    /\ Cpu # {}
    /\ Menu \subseteq [dir : Dir \ {Root}, cpus : SUBSET Cpu, mems : SUBSET Cpu]

VARIABLES exists,
          val,  \* the two files of each directory
          call

vars == <<exists, val, call>>

Parent(d) == Path[d][Len(Path[d]) - 1]

(* The locals of a call: the place in the path (i), what it has still to   *)
(* do there (todo), which files of the directory it found empty, what it   *)
(* read from the parent's (par).                                           *)
Call == [at    : {"idle", "mkdir", "copy", "set", "ok", "err"},
         dir   : Dir,
         req   : [File -> SUBSET Cpu],
         i     : Nat,
         todo  : Seq({"current", "parent", "write"} \X File),
         empty : SUBSET File,
         par   : [File -> SUBSET Cpu]]

TypeOK ==
    /\ exists \subseteq Dir
    /\ val \in [Dir -> [File -> SUBSET Cpu]]
    /\ call \in [Caller -> Call]
    /\ \A c \in Caller : call[c].at = "copy" => call[c].todo # <<>>
    /\ \A d \in exists, f \in File : d # Root => val[d][f] \subseteq val[Parent(d)][f]

Nothing == [f \in File |-> {}]

Idle == [at |-> "idle", dir |-> Root, req |-> Nothing, i |-> 2, todo |-> <<>>,
         empty |-> {}, par |-> Nothing]

Init ==
    /\ exists \in {D \in SUBSET Dir : Root \in D /\ \A d \in D : d = Root \/ Parent(d) \in D}
    /\ val = [d \in Dir |-> [f \in File |-> IF d = Root THEN Cpu ELSE {}]]
    /\ call = [c \in Caller |-> Idle]

-----------------------------------------------------------------------------
Children(d) == {e \in exists : e # Root /\ Parent(e) = d}

(* The kernel takes a value that lies between those of the children and    *)
(* that of the parent.                                                     *)
MayWrite(d, f, v) ==
    v \subseteq val[Parent(d)][f] /\ \A e \in Children(d) : val[e][f] \subseteq v

Set(c, r) == call' = [call EXCEPT ![c] = r]

Write(c, d, f, v, r) ==
    IF MayWrite(d, f, v)
    THEN val' = [val EXCEPT ![d][f] = v] /\ Set(c, r)
    ELSE UNCHANGED val /\ Set(c, [Idle EXCEPT !.at = "err"])

(* Slip: only the directory itself is filled, not those above it.          *)
BeginAtLeaf(c) ==
    /\ call[c].at = "idle"
    /\ \E m \in Menu :
          LET req == [f \in File |-> IF f = "cpus" THEN m.cpus ELSE m.mems]
          IN  /\ exists' = exists \cup {Path[m.dir][k] : k \in 1 .. Len(Path[m.dir])}
              /\ Set(c, [Idle EXCEPT !.at = "mkdir", !.dir = m.dir, !.req = req,
                                     !.i = Len(Path[m.dir])])
    /\ UNCHANGED val

Begin(c) ==
    /\ call[c].at = "idle"
    /\ \E m \in Menu :
          LET req == [f \in File |-> IF f = "cpus" THEN m.cpus ELSE m.mems]
          IN  Set(c, [Idle EXCEPT !.at = "mkdir", !.dir = m.dir, !.req = req])
    /\ UNCHANGED <<exists, val>>

Copying == << <<"current", "cpus">>, <<"current", "mems">>,
              <<"parent", "cpus">>,  <<"parent", "mems">>,
              <<"write", "cpus">>,   <<"write", "mems">> >>

(* The directory the call is at; Create comes to the last one twice.       *)
Here(r) == Path[r.dir][IF r.i > Len(Path[r.dir]) THEN r.i - 1 ELSE r.i]

Mkdir(c) ==
    /\ call[c].at = "mkdir"
    /\ exists' = exists \cup {Here(call[c])}
    /\ Set(c, [call[c] EXCEPT !.at = "copy", !.todo = Copying, !.empty = {}, !.par = Nothing])
    /\ UNCHANGED val

(* After the copying at one directory: the next one, or the values.        *)
Onwards(r) ==
    IF Len(r.todo) > 1 THEN [r EXCEPT !.todo = Tail(@)]
    ELSE IF r.i <= Len(Path[r.dir])
         THEN [r EXCEPT !.at = "mkdir", !.todo = <<>>, !.i = @ + 1, !.empty = {}, !.par = Nothing]
         ELSE [r EXCEPT !.at = "set", !.todo = << <<"write", "cpus">>, <<"write", "mems">> >>,
                        !.empty = {}, !.par = Nothing]

(* copyIfNeeded: getValues of the directory, then of its parent, and what  *)
(* was empty then is written.                                              *)
ReadCurrent(c) ==
    LET r == call[c]
        f == Head(r.todo)[2]
    IN  /\ r.at = "copy" /\ Head(r.todo)[1] = "current"
        /\ Set(c, Onwards([r EXCEPT !.empty = IF val[Here(r)][f] = {} THEN @ \cup {f} ELSE @]))
        /\ UNCHANGED <<exists, val>>

ReadParent(c) ==
    LET r == call[c]
        f == Head(r.todo)[2]
    IN  /\ r.at = "copy" /\ Head(r.todo)[1] = "parent"
        /\ Set(c, Onwards([r EXCEPT !.par[f] = val[Parent(Here(r))][f]]))
        /\ UNCHANGED <<exists, val>>

Copy(c) ==
    LET r == call[c]
        f == Head(r.todo)[2]
    IN  /\ r.at = "copy" /\ Head(r.todo)[1] = "write"
        /\ IF f \in r.empty THEN Write(c, Here(r), f, r.par[f], Onwards(r))
                            ELSE UNCHANGED val /\ Set(c, Onwards(r))
        /\ UNCHANGED exists

(* The values of the caller, those it gives.                               *)
SetValue(c) ==
    LET r == call[c]
        f == Head(r.todo)[2]
    IN  /\ r.at = "set" /\ r.todo # <<>>
        /\ IF r.req[f] = {} THEN UNCHANGED val /\ Set(c, [r EXCEPT !.todo = Tail(@)])
           ELSE Write(c, r.dir, f, r.req[f], [r EXCEPT !.todo = Tail(@)])
        /\ UNCHANGED exists

Return(c) ==
    /\ call[c].at = "set" /\ call[c].todo = <<>>
    /\ Set(c, [Idle EXCEPT !.at = "ok", !.dir = call[c].dir])
    /\ UNCHANGED <<exists, val>>

Next ==
    \E c \in Caller :
        \/ Begin(c) \/ Mkdir(c) \/ ReadCurrent(c) \/ ReadParent(c) \/ Copy(c)
        \/ SetValue(c) \/ Return(c)

Spec == Init /\ [][Next]_vars

-----------------------------------------------------------------------------
(* A cgroup that Create has returned for has cpus and memory nodes, and so *)
(* has every cgroup above it, whoever was creating them at the same time:  *)
(* without, no process can be added.                                       *)
Populated ==
    \A c \in Caller :
        call[c].at = "ok" =>
            \A i \in 1 .. Len(Path[call[c].dir]), f \in File :
                val[Path[call[c].dir][i]][f] # {}
=============================================================================
