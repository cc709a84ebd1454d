-------------------------------- MODULE Stat2 --------------------------------
(***************************************************************************)
(* Stat and StatFiltered of package cgroup2 (cgroup2/manager.go) with the  *)
(* readers they call (cgroup2/utils.go): the files of a cgroup are opened  *)
(* and read one after the other, while others remove the cgroup or take    *)
(* controllers from it.  What a file holds is one of: a number, "max", or  *)
(* something the parser does not know.                                     *)
(*                                                                         *)
(* The kernel is external: the files of a controller are there while it is *)
(* enabled, and a file that is taken away after it was opened cannot be    *)
(* read any more (ENODEV).                                                 *)
(***************************************************************************)
EXTENDS Integers, Sequences, SequencesExt, FiniteSets, Selection

CONSTANTS Masks,     \* the sets of parts that are asked for
          HugePages, \* the sizes of huge pages of the host, in kB
          Oddities,  \* names of files that may hold what no parser knows
          Changes    \* bound: how often controllers are enabled or disabled

(* The bits of StatMask.                                                   *)
Part == {"pids", "cpu", "memory", "events", "io", "rdma", "hugetlb"}

Stat2Assumption ==
    /\ Masks \subseteq SUBSET Part /\ Masks # {}
    /\ HugePages \subseteq Nat \ {0} /\ IsFiniteSet(HugePages)
    /\ Changes \in Nat

(* A file: the part it is for, its controller, and how it is read.         *)
F(name, part, ctrl, kind) ==
    [name |-> name, size |-> <<0, "B">>, part |-> part, ctrl |-> ctrl, kind |-> kind]

Huge(size, name, kind) == [F(name, "hugetlb", "hugetlb", kind) EXCEPT !.size = size]

(* The files in the order in which they are opened.                        *)
PidsFiles == << F("pids.current", "pids", "pids", "uint"), F("pids.max", "pids", "pids", "uint") >>

CpuFiles == << F("cpu.stat", "cpu", "core", "kv"), F("cpu.pressure", "cpu", "core", "psi") >>

MemoryFiles ==
    << F("memory.stat", "memory", "memory", "kv"),
       F("memory.current", "memory", "memory", "uint"),
       F("memory.max", "memory", "memory", "uint"),
       F("memory.peak", "memory", "memory", "uint"),
       F("memory.swap.current", "memory", "memory", "uint"),
       F("memory.swap.max", "memory", "memory", "uint"),
       F("memory.swap.peak", "memory", "memory", "uint"),
       F("memory.pressure", "memory", "core", "psi") >>

EventFiles == << F("memory.events", "events", "memory", "kv") >>

IoFiles == << F("io.stat", "io", "io", "io"), F("io.pressure", "io", "core", "psi") >>

RdmaFiles == << F("rdma.current", "rdma", "rdma", "rdma"), F("rdma.max", "rdma", "rdma", "rdma") >>

(* getHugePageSizeFromFilenames, for a directory hugepages-<n>kB; names of *)
(* another form are passed over.                                           *)
HugePageSize(kB) ==
    IF kB >= 1048576 THEN <<kB \div 1048576, "GB">>
    ELSE IF kB >= 1024 THEN <<kB \div 1024, "MB">>
    ELSE <<kB, "KB">>

HugeFiles(sizes) ==
    FlattenSeq([i \in 1 .. Len(sizes) |->
        << Huge(sizes[i], "hugetlb.max", "uint"), Huge(sizes[i], "hugetlb.current", "uint"),
           Huge(sizes[i], "hugetlb.events", "kv1") >>])

(* What the kernel calls the files of a huge page of so many kB.           *)
KernelSize(kB) ==
    LET unit == CHOOSE u \in {<<1048576, "GB">>, <<1024, "MB">>, <<1, "KB">>} :
                  /\ u[1] <= kB
                  /\ \A v \in {1048576, 1024, 1} : v <= kB => v <= u[1]
    IN  <<kB \div unit[1], unit[2]>>

StatFiles == PidsFiles \o CpuFiles \o MemoryFiles \o EventFiles \o IoFiles \o RdmaFiles

AllFiles ==
    Range(StatFiles) \cup Range(HugeFiles(SetToSeq({KernelSize(k) : k \in HugePages})))

Controllers == {"pids", "memory", "io", "rdma", "hugetlb"}

VARIABLES on,      \* the controllers that are enabled; "core" while it exists
          changes,
          odd,     \* the file that holds what its parser does not know, or none
          sizes,   \* << hPageSizes >>, once it has been initialised
          call,    \* [at, mask, todo, more], more: the sizes are yet to be asked for
          val,     \* what has been read of the files
          torn,    \* the file that is open has been taken away
          still    \* for the properties: nothing has changed during the call

world == <<on, changes, odd>>
vars  == <<world, sizes, call, val, torn, still>>

Reading == {"none", "empty", "zero", "some", "full"}

TypeOK ==
    /\ on \subseteq Controllers \cup {"core"} /\ ("core" \notin on => on = {})
    /\ changes \in 0 .. Changes
    /\ odd \in Oddities \cup {"none"}
    /\ Len(sizes) <= 1
    /\ call.at \in {"idle", "open", "read", "nil", "err"}
    /\ call.mask \in SUBSET Part /\ call.more \in BOOLEAN
    /\ Range(call.todo) \subseteq AllFiles /\ DOMAIN val \subseteq AllFiles
    /\ Range(val) \subseteq Reading
    /\ torn \in BOOLEAN /\ still \in BOOLEAN

Init ==
    /\ on = Controllers \cup {"core"} /\ changes = 0
    /\ odd \in Oddities \cup {"none"}
    /\ sizes = <<>>
    /\ call = [at |-> "idle", mask |-> {}, todo |-> <<>>, more |-> FALSE]
    /\ val = <<>> /\ torn = FALSE /\ still = TRUE

-----------------------------------------------------------------------------
(* The others.                                                             *)
SetOn(s) ==
    /\ on' = s
    /\ torn' = (torn \/ (call.at = "read" /\ Head(call.todo).ctrl \notin s))
    /\ still' = FALSE
    /\ UNCHANGED <<odd, sizes, call, val>>

Rmdir == "core" \in on /\ SetOn({}) /\ UNCHANGED changes

Toggle(c) ==
    /\ "core" \in on /\ changes < Changes
    /\ changes' = changes + 1
    /\ SetOn(IF c \in on THEN on \ {c} ELSE on \cup {c})

-----------------------------------------------------------------------------
(* The readers: what they make of the content of a file that is there and  *)
(* stays, of an error when it is read, and of a file that is not there.    *)
ParseKV(f) == f.name # odd

(* getStatFileContentUint64: any error is a zero.                          *)
StatFileContent(f, there) == IF there /\ f.name # odd THEN "full" ELSE "zero"

(* getKVStatsFileContentUint64.                                            *)
KVStatsFileContent(f, there) == IF there /\ ParseKV(f) THEN "full" ELSE "zero"

(* A device number that it does not know ends the list.                    *)
ReadIoStats(f, there) ==
    IF ~there THEN "empty" ELSE IF f.name = odd THEN "some" ELSE "full"

(* A line that toRdmaEntry does not know is left out.                      *)
RdmaStats(f, there) ==
    IF ~there THEN "empty" ELSE IF f.name = odd THEN "some" ELSE "full"

StatPSIFromFile(f, there) == IF there /\ f.name # odd THEN "full" ELSE "none"

Content(f, there) ==
    CASE f.kind = "uint" -> StatFileContent(f, there)
      [] f.kind = "kv1"  -> KVStatsFileContent(f, there)
      [] f.kind = "io"   -> ReadIoStats(f, there)
      [] f.kind = "rdma" -> RdmaStats(f, there)
      [] f.kind = "psi"  -> StatPSIFromFile(f, there)
      [] f.kind = "kv"   -> IF there THEN "full" ELSE "empty"

Files(mask) == Selected(StatFiles, {f \in Range(StatFiles) : f.part \in mask})

(* Slip: a controller that is not there ends the call.                     *)
AfterAll(f) == <<>>

(* The part is left as it is; the others are still to be read.             *)
AfterPart(f) == Selected(Tail(call.todo), {g \in Range(call.todo) : g.part # f.part})

Begin ==
    /\ call.at \in {"idle", "nil", "err"}
    /\ \E mask \in Masks :
          call' = [at |-> "open", mask |-> mask, todo |-> Files(mask),
                   more |-> "hugetlb" \in mask]
    /\ val' = <<>> /\ torn' = FALSE /\ still' = TRUE
    /\ UNCHANGED <<world, sizes>>

Gives(f, v) == val' = [g \in DOMAIN val \cup {f} |-> IF g = f THEN v ELSE val[g]]

(* The call returns no metrics at all.                                     *)
Fails == call' = [call EXCEPT !.at = "err", !.todo = <<>>] /\ val' = <<>>

(* Slip: a file that is not there is an error of the call.                 *)
OpenStrict ==
    LET f == Head(call.todo)
    IN  /\ call.at = "open" /\ call.todo # <<>> /\ f.ctrl \notin on
        /\ IF f.kind = "kv" THEN Fails
           ELSE Gives(f, Content(f, FALSE)) /\ call' = [call EXCEPT !.todo = Tail(@)]
        /\ UNCHANGED <<world, sizes, torn, still>>

(* A file that is not there: readCPUStats, readMemoryStats and             *)
(* readMemoryEvents return an empty part without opening its other files.  *)
OpenMissing ==
    LET f == Head(call.todo)
    IN  /\ call.at = "open" /\ call.todo # <<>> /\ f.ctrl \notin on
        /\ Gives(f, Content(f, FALSE))
        /\ call' = [call EXCEPT !.todo = IF f.kind = "kv" THEN AfterPart(f) ELSE Tail(@)]
        /\ UNCHANGED <<world, sizes, torn, still>>

Open ==
    /\ call.at = "open" /\ call.todo # <<>> /\ Head(call.todo).ctrl \in on
    /\ call' = [call EXCEPT !.at = "read"]
    /\ torn' = FALSE
    /\ UNCHANGED <<world, sizes, val, still>>

(* readKVStatsFile fails on the first line it does not know, and with the  *)
(* reading of the file; the other readers do with what they have.          *)
Read ==
    LET f == Head(call.todo)
    IN  /\ call.at = "read"
        /\ IF f.kind = "kv" /\ (torn \/ ~ParseKV(f))
           THEN Fails
           ELSE /\ Gives(f, Content(f, ~torn))
                /\ call' = [call EXCEPT !.at = "open", !.todo = Tail(@)]
        /\ UNCHANGED <<world, sizes, torn, still>>

(* hugePageSizes: /sys is read once for the process, and a failure is kept *)
(* as well as the sizes.                                                   *)
HugePageSizes ==
    /\ call.at = "open" /\ call.todo = <<>> /\ call.more
    /\ sizes' \in IF sizes # <<>> THEN {sizes}
                  ELSE {<< <<>> >>, << SetToSeq({HugePageSize(k) : k \in HugePages}) >>}
    /\ call' = [call EXCEPT !.more = FALSE, !.todo = HugeFiles(sizes'[1])]
    /\ UNCHANGED <<world, val, torn, still>>

Return ==
    /\ call.at = "open" /\ call.todo = <<>> /\ ~call.more
    /\ call' = [call EXCEPT !.at = "nil"]
    /\ UNCHANGED <<world, sizes, val, torn, still>>

Next ==
    \/ Rmdir \/ \E c \in Controllers : Toggle(c)
    \/ Begin \/ OpenMissing \/ Open \/ Read \/ HugePageSizes \/ Return

Spec == Init /\ [][Next]_vars

-----------------------------------------------------------------------------
(* Stat fails only when something was taken away from the cgroup during    *)
(* the call, or one of the files of keys and values that were asked for    *)
(* has a line that is not known: a controller that is off, a cgroup that   *)
(* was removed before, and the parts that were not asked for never fail it.*)
FailsOnlyTorn ==
    call.at = "err" /\ still
      => \E f \in Range(Files(call.mask)) : f.kind = "kv" /\ f.name = odd

(* Whether the part of the file can be there at all.                       *)
PartIsOn(f) == f.part = "memory" => "memory" \in on

(* Metrics of a cgroup that is left alone have every file of every part    *)
(* asked for whose controller is enabled, huge pages by the names that the *)
(* kernel has for them, whatever the controllers that are off.             *)
Complete ==
    call.at = "nil" /\ still
      => \A f \in AllFiles :
            (/\ f.part \in call.mask /\ f.ctrl \in on /\ PartIsOn(f) /\ f.name # odd
             /\ f.part = "hugetlb" => sizes # << <<>> >>)
              => f \in DOMAIN val /\ val[f] = "full"
=============================================================================
