------------------------------ MODULE Readers1 ------------------------------
(***************************************************************************)
(* What one goroutine of Stat does for its subsystem in package cgroup1:   *)
(* the Stat methods of cpu.go, cpuacct.go, pids.go, hugetlb.go, rdma.go,   *)
(* memory.go and blkio.go read their files one after the other and stop at *)
(* the first error.  And the registration of a memory event (memory.go,    *)
(* cgroup.go).  Others meanwhile remove the cgroup, plug RDMA devices, and *)
(* do I/O in it.                                                           *)
(*                                                                         *)
(* The files are the kernel's, and external.                               *)
(***************************************************************************)
EXTENDS Naturals, Sequences, SequencesExt, FiniteSets, Selection

CONSTANTS HugePages,  \* the sizes of huge pages, in the order they are listed
          Disk,       \* block devices
          CfqDisk,    \* those whose scheduler is CFQ
          Partitions, \* /proc/partitions below its head: [disk, name]
          Device,     \* RDMA devices
          Oddities,   \* files that may hold what no parser knows
          Plugs,      \* bound: how often RDMA devices come and go
          Options     \* what NewMemory may be given: sets of ignored modules,
                      \* and whether swap is optional

Module == {Blank, "memsw", "kmem", "kmem.tcp"}
NoName == "unnamed"

ReadersAssumption ==
    /\ HugePages \in Seq(STRING \ Module) /\ IsFiniteSet(Device)
    /\ CfqDisk \subseteq Disk /\ Plugs \in Nat
    /\ Partitions \in Seq([disk : Disk, name : STRING])
    /\ Options \subseteq [ignored : SUBSET Module, optionalSwap : BOOLEAN]

(* A host that does not account for swap has it made optional or ignored.  *)
SwapIsOptional == \A o \in Options : o.optionalSwap \/ "memsw" \in o.ignored

Controllers == {"cpu", "cpuacct", "pids", "hugetlb", "rdma", "memory", "blkio"}

VARIABLES dir,     \* the cgroup exists
          odd,     \* the file that has something else in it, or none
          swap,    \* the kernel accounts for swap
          cfq,     \* the kernel has the files of CFQ
          ios,     \* the disks that I/O was done to
          plugged, \* the RDMA devices, in the order of the kernel
          plugs,
          ignored, \* m.ignored of the memory controller
          call,    \* [at, ctrl, todo, fell]
          disks,   \* the entries of IoServicedRecursive: [disk, name, from]
          size,    \* whether a file of CFQ had entries
          rdma,    \* the lists read from rdma.current and rdma.max
          fds,     \* what memoryEvent has opened and not closed
          during   \* for the properties: what has happened during the call

world == <<dir, odd, swap, cfq, ios, plugged, plugs>>
vars  == <<world, ignored, call, disks, size, rdma, fds, during>>

-----------------------------------------------------------------------------
(* The files, in the order they are read: of a module, or a size of pages. *)
R(kind, of, names) ==
    [i \in DOMAIN names |-> [kind |-> kind, of |-> of, name |-> names[i]]]

CpuFiles     == R("kv", Blank, << "cpu.stat" >>)
PidsFiles    == R("uint", Blank, << "pids.current", "pids.max" >>)
RdmaFiles    == R("rdma", Blank, << "rdma.current", "rdma.max" >>)
CpuacctFiles ==
    R("kv", Blank, << "cpuacct.stat" >>) \o R("uint", Blank, << "cpuacct.usage" >>)
    \o R("list", Blank, << "cpuacct.usage_percpu" >>)

HugetlbFiles ==
    FlattenSeq([i \in DOMAIN HugePages |->
        R("uint", HugePages[i], << "usage_in_bytes", "max_usage_in_bytes", "failcnt" >>)])

MemoryEntry(m) ==
    R("uint", m, << "usage_in_bytes", "max_usage_in_bytes", "failcnt", "limit_in_bytes" >>)

MemoryFiles ==
    R("kv", Blank, << "memory.stat", "memory.oom_control" >>)
    \o FlattenSeq([i \in 1 .. 4 |->
          LET m == << Blank, "memsw", "kmem", "kmem.tcp" >>[i]
          IN  IF m \in ignored THEN <<>> ELSE MemoryEntry(m)])

CfqFiles ==
    R("cfq", Blank, << "sectors_recursive", "io_service_bytes_recursive",
                    "io_serviced_recursive", "io_queued_recursive",
                    "io_service_time_recursive", "io_wait_time_recursive",
                    "io_merged_recursive", "time_recursive" >>)

ThrottleFiles == R("throttle", Blank, << "throttle.io_serviced", "throttle.io_service_bytes" >>)

(* It looks for a file of CFQ first, and then reads the partitions.        *)
BlkioFiles ==
    R("partitions", Blank, << "partitions" >>) \o (IF dir /\ cfq THEN CfqFiles ELSE <<>>)

Files(c) ==
    CASE c = "cpu"  -> CpuFiles  [] c = "cpuacct" -> CpuacctFiles
      [] c = "pids" -> PidsFiles [] c = "hugetlb" -> HugetlbFiles
      [] c = "rdma" -> RdmaFiles [] c = "memory"  -> MemoryFiles
      [] c = "blkio" -> BlkioFiles

(* Slip: the swap option looks at what the caller ignores only.            *)
IgnoredNever(o) == o.ignored

(* IgnoreModules, and OptionalSwap, which asks the root of the hierarchy.  *)
Ignored(o) == o.ignored \cup (IF o.optionalSwap /\ ~swap THEN {"memsw"} ELSE {})

Exists(f) ==
    /\ f.kind # "partitions" => dir
    /\ f.kind = "cfq" => cfq
    /\ f.of = "memsw" => swap

(* The first line that is no name with a number ends it.                   *)
ParsesLines(f) == f.name # odd.name

(* readUint, parseUint and parseKV: "max" for the whole of a file is 0 and *)
(* no error, another word is one.                                          *)
Parses(f) ==
    IF f.kind = "kv" THEN ParsesLines(f)
    ELSE f.name = odd.name => odd.holds = "max" /\ f.kind = "uint"

(* getDevices: the first name of a disk.                                   *)
NameOf(d) ==
    LET at == {i \in DOMAIN Partitions : Partitions[i].disk = d}
    IN  IF at = {} THEN NoName
        ELSE Partitions[CHOOSE i \in at : \A j \in at : i <= j].name

-----------------------------------------------------------------------------
Names == {NoName} \cup {Partitions[i].name : i \in DOMAIN Partitions}

TypeOK ==
    /\ dir \in BOOLEAN /\ swap \in BOOLEAN /\ cfq \in BOOLEAN
    /\ ios \subseteq Disk /\ Range(plugged) \subseteq Device /\ plugs \in 0 .. Plugs
    /\ ignored \subseteq Module
    /\ call.at \in {"idle", "read", "eventfd", "open", "control", "nil", "err"}
    /\ disks \subseteq [disk : Disk, name : Names, from : {"cfq", "throttle"}]
    /\ size \in BOOLEAN /\ Len(rdma) <= 2
    /\ fds \subseteq {"efd", "evt"}

Init ==
    /\ dir = TRUE /\ odd \in Oddities /\ swap \in BOOLEAN /\ cfq \in BOOLEAN
    /\ ios = {} /\ plugged = SetToSeq(Device) /\ plugs = 0
    /\ \E o \in Options : ignored = Ignored(o)
    /\ call = [at |-> "idle", ctrl |-> "cpu", todo |-> <<>>, fell |-> FALSE]
    /\ disks = {} /\ size = FALSE /\ rdma = <<>> /\ fds = {} /\ during = {}

-----------------------------------------------------------------------------
(* The others.                                                             *)
Happens(what) ==
    /\ during' = during \cup {what}
    /\ UNCHANGED <<odd, swap, cfq, ignored, call, disks, size, rdma, fds>>

Rmdir ==
    /\ dir /\ dir' = FALSE
    /\ UNCHANGED <<ios, plugged, plugs>> /\ Happens("rmdir")

IoStarts(d) ==
    /\ dir /\ d \notin ios /\ ios' = ios \cup {d}
    /\ UNCHANGED <<dir, plugged, plugs>> /\ Happens("io")

Plug(d) ==
    /\ plugs < Plugs /\ plugs' = plugs + 1
    /\ \/ /\ d \in Range(plugged) /\ plugged' = Selected(plugged, Device \ {d})
          /\ Happens("unplug")
       \/ /\ d \notin Range(plugged) /\ plugged' = Append(plugged, d)
          /\ Happens("plug")
    /\ UNCHANGED <<dir, ios>>

-----------------------------------------------------------------------------
Ends(result) == call' = [call EXCEPT !.at = result, !.todo = <<>>]

Begin(c) ==
    /\ call.at \in {"idle", "nil", "err"}
    /\ call' = [at |-> "read", ctrl |-> c, todo |-> Files(c), fell |-> FALSE]
    /\ disks' = {} /\ size' = FALSE /\ rdma' = <<>> /\ fds' = {} /\ during' = {}
    /\ UNCHANGED <<world, ignored>>

(* readEntry.                                                              *)
Entries(f) ==
    {[disk |-> d, name |-> NameOf(d), from |-> f.kind] :
        d \in IF f.kind = "cfq" THEN ios \cap CfqDisk ELSE ios}

Read ==
    LET f == Head(call.todo)
    IN  /\ call.at = "read" /\ call.todo # <<>>
        /\ IF Exists(f) /\ Parses(f)
           THEN /\ call' = [call EXCEPT !.todo = Tail(@)]
                /\ disks' = IF f.name \in {"io_serviced_recursive", "throttle.io_serviced"}
                            THEN disks \cup Entries(f) ELSE disks
                /\ size' = (size \/ (f.kind = "cfq" /\ Entries(f) # {}))
                /\ rdma' = IF f.kind = "rdma" THEN Append(rdma, plugged) ELSE rdma
           ELSE Ends("err") /\ UNCHANGED <<disks, size, rdma>>
        /\ UNCHANGED <<world, ignored, fds, during>>

(* Slip: the files of the throttle are read in any case.                   *)
MoreAlways == call.ctrl = "blkio" /\ ~call.fell

(* The fallback, when the files of CFQ have no entry, or are not there.    *)
More == call.ctrl = "blkio" /\ ~size /\ ~call.fell

FallBack ==
    /\ call.at = "read" /\ call.todo = <<>> /\ More
    /\ call' = [call EXCEPT !.todo = ThrottleFiles, !.fell = TRUE]
    /\ UNCHANGED <<world, ignored, disks, size, rdma, fds, during>>

(* Stat of rdma leaves its part out when the lists differ in length.       *)
Return ==
    /\ call.at = "read" /\ call.todo = <<>> /\ ~More
    /\ Ends("nil")
    /\ rdma' = IF Len(rdma) = 2 /\ Len(rdma[1]) # Len(rdma[2]) THEN <<>> ELSE rdma
    /\ UNCHANGED <<world, ignored, disks, size, fds, during>>

-----------------------------------------------------------------------------
(* OOMEventFD, RegisterMemoryEvent and memoryEvent: an eventfd, the file   *)
(* of the event, and a write to cgroup.event_control.  A handle that has   *)
(* an error or no memory controller refuses at once, and so does a process *)
(* without room for another descriptor.                                    *)
Register ==
    /\ call.at \in {"idle", "nil", "err"}
    /\ \E at \in {"open", "err"} :
          /\ call' = [at |-> at, ctrl |-> "event", todo |-> <<>>, fell |-> FALSE]
          /\ fds' = IF at = "open" THEN {"efd"} ELSE {}
    /\ disks' = {} /\ size' = FALSE /\ rdma' = <<>> /\ during' = {}
    /\ UNCHANGED <<world, ignored>>

OpenEvent ==
    /\ call.at = "open"
    /\ \/ /\ dir
          /\ fds' = fds \cup {"evt"}
          /\ call' = [call EXCEPT !.at = "control"]
       \/ Ends("err") /\ fds' = fds \ {"efd"}
    /\ UNCHANGED <<world, ignored, disks, size, rdma, during>>

(* Slip: the eventfd stays open when the kernel refuses the event.         *)
WriteControlLeaks ==
    /\ call.at = "control"
    /\ \/ dir /\ Ends("nil")
       \/ Ends("err")
    /\ fds' = fds \ {"evt"}
    /\ UNCHANGED <<world, ignored, disks, size, rdma, during>>

WriteControl ==
    /\ call.at = "control"
    /\ \/ dir /\ Ends("nil") /\ fds' = fds \ {"evt"}
       \/ Ends("err") /\ fds' = fds \ {"evt", "efd"}
    /\ UNCHANGED <<world, ignored, disks, size, rdma, during>>

Next ==
    \/ Rmdir \/ \E d \in Disk : IoStarts(d)
    \/ \E d \in Device : Plug(d)
    \/ \E c \in Controllers : Begin(c)
    \/ Read \/ FallBack \/ Return
    \/ Register \/ OpenEvent \/ WriteControl

Spec == Init /\ [][Next]_vars

-----------------------------------------------------------------------------
(* A Stat whose cgroup is there from beginning to end fails only on a file *)
(* that has something else in it: on every kernel, with the files of CFQ   *)
(* or without, and without those of swap when it was made optional         *)
(* ("OptionalSwap allows the memory controller to not fail if cgroups is   *)
(* not accounting Swap memory", memory.go:178) or ignored.                 *)
StatSucceeds ==
    call.at = "err" /\ dir /\ call.ctrl # "event"
      => \E f \in Range(Files(call.ctrl)) \cup
                  (IF call.fell THEN Range(ThrottleFiles) ELSE {}) : ~Parses(f)

(* The lists of the metrics do not mix what does not belong together: a    *)
(* disk has one entry, from the files of CFQ when they had any, under its  *)
(* first name; and the RDMA devices and their limits go in pairs, unless   *)
(* one was plugged and another unplugged between the two files.            *)
ListsMatch ==
    call.at = "nil" =>
      /\ \A e, f \in disks : e.disk = f.disk => e = f
      /\ call.ctrl = "blkio" /\ during = {} =>
           disks = {[disk |-> d, name |-> NameOf(d),
                     from |-> IF cfq /\ ios \cap CfqDisk # {} THEN "cfq" ELSE "throttle"]
                      : d \in IF cfq /\ ios \cap CfqDisk # {} THEN ios \cap CfqDisk ELSE ios}
      /\ Len(rdma) = 2 /\ ~({"plug", "unplug"} \subseteq during) => rdma[1] = rdma[2]

(* memoryEvent leaves the eventfd open when it returns it, and nothing     *)
(* when it returns an error, whenever the cgroup goes away.                *)
NoLeak ==
    /\ call.at = "nil" => fds = IF call.ctrl = "event" THEN {"efd"} ELSE {}
    /\ call.at = "err" => fds = {}
=============================================================================
