-------------------------- MODULE Settings2_proofs --------------------------
(***************************************************************************)
(* Theorems about the components of Settings that read statistics, and     *)
(* about the resources of package cgroup2.                                 *)
(***************************************************************************)
EXTENDS Settings1_proofs, DeviceFilter_proofs

-----------------------------------------------------------------------------
(* The files that the readers of package cgroup1 read.                     *)
Kinds == {"kv", "uint", "list", "rdma", "cfq", "partitions", "throttle"}

FileNames ==
    {"cpu.stat", "pids.current", "pids.max", "rdma.current", "rdma.max", "cpuacct.stat",
     "cpuacct.usage", "cpuacct.usage_percpu", "usage_in_bytes", "max_usage_in_bytes",
     "failcnt", "limit_in_bytes", "memory.stat", "memory.oom_control", "sectors_recursive",
     "io_service_bytes_recursive", "io_serviced_recursive", "io_queued_recursive",
     "io_service_time_recursive", "io_wait_time_recursive", "io_merged_recursive",
     "time_recursive", "throttle.io_serviced", "throttle.io_service_bytes", "partitions"}

AFile == [kind : Kinds, of : Readers!Module \cup STRING, name : FileNames]

(* Those of a controller, before it falls back.                            *)
FileOf(c) ==
    {f \in AFile :
        /\ f.kind = "rdma" <=> c = "rdma"
        /\ f.kind = "cfq" => cfq /\ c = "blkio"
        /\ f.kind # "throttle"
        /\ f.of = "memsw" => "memsw" \notin ignored
        /\ f.name = "io_serviced_recursive" => f.kind = "cfq"
        /\ f.name # "throttle.io_serviced"}

LEMMA ReaderFacts ==
  /\ PageSizes \in Seq(STRING \ Readers!Module) /\ IsFiniteSet(Device)
  /\ CfqDisk \subseteq Disk /\ Plugs \in Nat
  /\ Partitions \in Seq([disk : Disk, name : STRING])
  /\ Options \subseteq [ignored : SUBSET Readers!Module, optionalSwap : BOOLEAN]
<1>1. Readers!ReadersAssumption
  BY SettingsAssumption
<1> QED
  BY <1>1 DEF Readers!ReadersAssumption, Readers!IsFiniteSet, IsFiniteSet

LEMMA RIs ==
  ASSUME NEW kind, NEW of, NEW N, NEW names \in Seq(N), NEW S,
         \A n \in N : [kind |-> kind, of |-> of, name |-> n] \in S
  PROVE  /\ Readers!R(kind, of, names) \in Seq(S)
         /\ Len(Readers!R(kind, of, names)) = Len(names)
         /\ \A j \in 1 .. Len(names) :
               Readers!R(kind, of, names)[j] = [kind |-> kind, of |-> of, name |-> names[j]]
<1>1. DOMAIN names = 1 .. Len(names) /\ Len(names) \in Nat
  OBVIOUS
<1>2. \A j \in 1 .. Len(names) : names[j] \in N
  OBVIOUS
<1> DEFINE F(j) == [kind |-> kind, of |-> of, name |-> names[j]]
<1>3. \A j \in 1 .. Len(names) : F(j) \in S
  BY <1>2
<1>4. Readers!R(kind, of, names) = [j \in 1 .. Len(names) |-> F(j)]
  BY <1>1 DEF Readers!R
<1> HIDE DEF F
<1>5. /\ Readers!R(kind, of, names) \in Seq(S)
      /\ Len(Readers!R(kind, of, names)) = Len(names)
      /\ \A j \in 1 .. Len(names) : Readers!R(kind, of, names)[j] = F(j)
  BY <1>1, <1>3, <1>4
<1> QED
  BY <1>5 DEF F

LEMMA RIsLong ==
  ASSUME NEW kind, NEW of, NEW N, NEW names \in Seq(N)
  PROVE  /\ Len(Readers!R(kind, of, names)) = Len(names)
         /\ \A j \in 1 .. Len(names) :
               Readers!R(kind, of, names)[j] = [kind |-> kind, of |-> of, name |-> names[j]]
<1> DEFINE S == {[kind |-> kind, of |-> of, name |-> n] : n \in N}
<1>1. \A n \in N : [kind |-> kind, of |-> of, name |-> n] \in S
  OBVIOUS
<1> HIDE DEF S
<1> QED
  BY <1>1, RIs

LEMMA PlainFilesIs ==
  ASSUME NEW c \in Readers!Controllers \ {"blkio", "rdma"}, NEW kind \in {"kv", "uint", "list"},
         NEW of \in STRING \cup Readers!Module, of = "memsw" => "memsw" \notin ignored,
         NEW names \in Seq(FileNames \ {"io_serviced_recursive", "throttle.io_serviced"})
  PROVE  Readers!R(kind, of, names) \in Seq(FileOf(c))
<1>1. \A n \in FileNames \ {"io_serviced_recursive", "throttle.io_serviced"} :
         [kind |-> kind, of |-> of, name |-> n] \in FileOf(c)
  BY DEF FileOf, AFile, Kinds, Readers!Controllers
<1> QED
  BY <1>1, RIs

LEMMA BlankIs == Readers!Blank # "memsw"
  BY Zenon DEF Readers!Blank

LEMMA CfqFilesIs ==
  /\ cfq => Readers!CfqFiles \in Seq({f \in FileOf("blkio") : f.kind = "cfq"})
  /\ Len(Readers!CfqFiles) = 8 /\ Readers!CfqFiles[3].name = "io_serviced_recursive"
<1> DEFINE names == << "sectors_recursive", "io_service_bytes_recursive",
                    "io_serviced_recursive", "io_queued_recursive",
                    "io_service_time_recursive", "io_wait_time_recursive",
                    "io_merged_recursive", "time_recursive" >>
           N == {"sectors_recursive", "io_service_bytes_recursive",
                 "io_serviced_recursive", "io_queued_recursive",
                 "io_service_time_recursive", "io_wait_time_recursive",
                 "io_merged_recursive", "time_recursive"}
           F(n) == [kind |-> "cfq", of |-> Readers!Blank, name |-> n]
           S == {f \in FileOf("blkio") : f.kind = "cfq"}
<1>1. names \in Seq(N) /\ Len(names) = 8 /\ names[3] = "io_serviced_recursive"
  OBVIOUS
<1>2. Readers!CfqFiles = Readers!R("cfq", Readers!Blank, names)
  BY DEF Readers!CfqFiles
<1>3. ASSUME cfq, NEW n \in N PROVE F(n) \in S
  <2>1. Readers!Blank \in Readers!Module
    BY DEF Readers!Module
  <2> QED
    BY <1>3, <2>1, BlankIs DEF FileOf, AFile, Kinds, FileNames
<1> HIDE DEF names, N, S
<1>4. cfq => Readers!R("cfq", Readers!Blank, names) \in Seq(S)
  BY <1>1, <1>3, RIs
<1>5. /\ Len(Readers!R("cfq", Readers!Blank, names)) = 8
      /\ Readers!R("cfq", Readers!Blank, names)[3] = F("io_serviced_recursive")
  <2>1. /\ Len(Readers!R("cfq", Readers!Blank, names)) = Len(names)
        /\ \A j \in 1 .. Len(names) : Readers!R("cfq", Readers!Blank, names)[j] = F(names[j])
    BY <1>1, RIsLong
  <2>2. 3 \in 1 .. Len(names)
    BY <1>1
  <2> QED
    BY <1>1, <2>1, <2>2
<1> QED
  BY <1>2, <1>4, <1>5 DEF S

LEMMA SimpleFilesIs ==
  /\ Readers!CpuFiles \in Seq(FileOf("cpu"))
  /\ Readers!PidsFiles \in Seq(FileOf("pids"))
  /\ Readers!CpuacctFiles \in Seq(FileOf("cpuacct"))
<1> DEFINE N == FileNames \ {"io_serviced_recursive", "throttle.io_serviced"}
<1>1. /\ << "cpu.stat" >> \in Seq(N) /\ << "pids.current", "pids.max" >> \in Seq(N)
      /\ << "cpuacct.stat" >> \in Seq(N) /\ << "cpuacct.usage" >> \in Seq(N)
      /\ << "cpuacct.usage_percpu" >> \in Seq(N)
  BY DEF FileNames
<1>2. Readers!Blank \in STRING \cup Readers!Module
  BY DEF Readers!Module
<1>3. {"cpu", "pids", "cpuacct"} \subseteq Readers!Controllers \ {"blkio", "rdma"}
  BY DEF Readers!Controllers
<1> HIDE DEF N
<1>4. ASSUME NEW c \in {"cpu", "pids", "cpuacct"}, NEW kind \in {"kv", "uint", "list"},
             NEW names \in Seq(N)
      PROVE  Readers!R(kind, Readers!Blank, names) \in Seq(FileOf(c))
  BY <1>2, <1>3, BlankIs, PlainFilesIs DEF N
<1>5. Readers!CpuFiles \in Seq(FileOf("cpu"))
  BY <1>1, <1>4 DEF Readers!CpuFiles
<1>6. Readers!PidsFiles \in Seq(FileOf("pids"))
  BY <1>1, <1>4 DEF Readers!PidsFiles
<1>7. Readers!CpuacctFiles \in Seq(FileOf("cpuacct"))
  <2> DEFINE T == Seq(FileOf("cpuacct"))
  <2>1. /\ Readers!R("kv", Readers!Blank, << "cpuacct.stat" >>) \in T
        /\ Readers!R("uint", Readers!Blank, << "cpuacct.usage" >>) \in T
        /\ Readers!R("list", Readers!Blank, << "cpuacct.usage_percpu" >>) \in T
    BY <1>1, <1>4
  <2> QED
    BY <2>1 DEF Readers!CpuacctFiles
<1> QED
  BY <1>5, <1>6, <1>7

LEMMA HugetlbFilesIs == Readers!HugetlbFiles \in Seq(FileOf("hugetlb"))
<1> DEFINE N == FileNames \ {"io_serviced_recursive", "throttle.io_serviced"}
           names == << "usage_in_bytes", "max_usage_in_bytes", "failcnt" >>
           g == [j \in DOMAIN PageSizes |-> Readers!R("uint", PageSizes[j], names)]
<1>1. names \in Seq(N)
  BY DEF FileNames
<1>2. "hugetlb" \in Readers!Controllers \ {"blkio", "rdma"}
  BY DEF Readers!Controllers
<1>3. DOMAIN PageSizes = 1 .. Len(PageSizes) /\ Len(PageSizes) \in Nat
  BY ReaderFacts
<1>4. \A j \in 1 .. Len(PageSizes) : PageSizes[j] \in STRING \ Readers!Module
  BY ReaderFacts
<1>5. "memsw" \in Readers!Module
  BY DEF Readers!Module
<1> HIDE DEF N, names
<1>6. \A j \in 1 .. Len(PageSizes) :
         Readers!R("uint", PageSizes[j], names) \in Seq(FileOf("hugetlb"))
  BY <1>1, <1>2, <1>4, <1>5, PlainFilesIs DEF N
<1>7. g \in Seq(Seq(FileOf("hugetlb")))
  BY <1>3, <1>6
<1>8. Readers!HugetlbFiles = FlattenSeq(g)
  BY DEF Readers!HugetlbFiles, Readers!FlattenSeq, FlattenSeq, names
<1> HIDE DEF g
<1> QED
  BY <1>7, <1>8, FlattenIn

LEMMA MemoryFilesIs == Readers!MemoryFiles \in Seq(FileOf("memory"))
<1> DEFINE N == FileNames \ {"io_serviced_recursive", "throttle.io_serviced"}
           first == << "memory.stat", "memory.oom_control" >>
           names == << "usage_in_bytes", "max_usage_in_bytes", "failcnt", "limit_in_bytes" >>
           m(j) == << Readers!Blank, "memsw", "kmem", "kmem.tcp" >>[j]
           T == Seq(FileOf("memory"))
           g == [j \in 1 .. 4 |-> IF m(j) \in ignored THEN <<>> ELSE Readers!R("uint", m(j), names)]
<1>1. names \in Seq(N) /\ first \in Seq(N)
  BY DEF FileNames
<1>2. "memory" \in Readers!Controllers \ {"blkio", "rdma"}
  BY DEF Readers!Controllers
<1>3. \A j \in 1 .. 4 : m(j) \in Readers!Module
  BY DEF Readers!Module
<1>4. Readers!MemoryFiles = Readers!R("kv", Readers!Blank, first) \o FlattenSeq(g)
  BY DEF Readers!MemoryFiles, Readers!FlattenSeq, FlattenSeq, Readers!MemoryEntry
<1> HIDE DEF N, names, first, m
<1>5. Readers!R("kv", Readers!Blank, first) \in T
  <2>1. Readers!Blank \in Readers!Module
    BY DEF Readers!Module
  <2> QED
    BY <1>1, <1>2, <2>1, BlankIs, PlainFilesIs DEF N
<1>6. ASSUME NEW j \in 1 .. 4, m(j) \notin ignored
      PROVE  Readers!R("uint", m(j), names) \in T
  BY <1>1, <1>2, <1>3, <1>6, PlainFilesIs DEF N
<1>7. \A j \in 1 .. 4 : g[j] \in T
  BY <1>6
<1>8. DOMAIN g = 1 .. 4 /\ g = [j \in 1 .. 4 |-> g[j]]
  OBVIOUS
<1> HIDE DEF g
<1>9. g \in Seq(T)
  <2>1. 4 \in Nat
    OBVIOUS
  <2> QED
    BY <1>7, <1>8, <2>1
<1>10. FlattenSeq(g) \in T
  BY <1>9, FlattenIn
<1> QED
  BY <1>4, <1>5, <1>10

LEMMA RdmaFilesIs ==
  Readers!RdmaFiles \in Seq(FileOf("rdma")) /\ Len(Readers!RdmaFiles) = 2
<1> DEFINE N == {"rdma.current", "rdma.max"}
           names == << "rdma.current", "rdma.max" >>
<1>1. names \in Seq(N) /\ Len(names) = 2
  OBVIOUS
<1>2. \A n \in N : [kind |-> "rdma", of |-> Readers!Blank, name |-> n] \in FileOf("rdma")
  <2>1. Readers!Blank \in Readers!Module
    BY DEF Readers!Module
  <2> QED
    BY <2>1, BlankIs DEF FileOf, AFile, Kinds, FileNames
<1> HIDE DEF N, names
<1>3. /\ Readers!R("rdma", Readers!Blank, names) \in Seq(FileOf("rdma"))
      /\ Len(Readers!R("rdma", Readers!Blank, names)) = 2
  BY <1>1, <1>2, RIs
<1> QED
  BY <1>3 DEF Readers!RdmaFiles, names

LEMMA BlkioFilesIs ==
  /\ Readers!BlkioFiles \in Seq(FileOf("blkio"))
  /\ dir /\ cfq => \E j \in 1 .. Len(Readers!BlkioFiles) :
                      Readers!BlkioFiles[j].name = "io_serviced_recursive"
  /\ ~(dir /\ cfq) => \A j \in 1 .. Len(Readers!BlkioFiles) : Readers!BlkioFiles[j].kind # "cfq"
<1> DEFINE names == << "partitions" >>
           S == {f \in FileOf("blkio") : f.kind # "cfq"}
           T == {f \in FileOf("blkio") : f.kind = "cfq"}
           p == Readers!R("partitions", Readers!Blank, names)
<1>1. names \in Seq({"partitions"})
  OBVIOUS
<1>2. \A n \in {"partitions"} : [kind |-> "partitions", of |-> Readers!Blank, name |-> n] \in S
  <2>1. Readers!Blank \in Readers!Module
    BY DEF Readers!Module
  <2> QED
    BY <2>1, BlankIs DEF FileOf, AFile, Kinds, FileNames
<1>3. S \subseteq FileOf("blkio") /\ T \subseteq FileOf("blkio") /\ \A f \in S : f.kind # "cfq"
  OBVIOUS
<1>4. /\ cfq => Readers!CfqFiles \in Seq(T)
      /\ Len(Readers!CfqFiles) = 8 /\ Readers!CfqFiles[3].name = "io_serviced_recursive"
  BY CfqFilesIs
<1>5. Readers!BlkioFiles = p \o (IF dir /\ cfq THEN Readers!CfqFiles ELSE <<>>)
  BY DEF Readers!BlkioFiles
<1> HIDE DEF names, S, T
<1>6. p \in Seq(S)
  BY <1>1, <1>2, RIs
<1> HIDE DEF p
<1>7. p \in Seq(FileOf("blkio")) /\ \A j \in 1 .. Len(p) : p[j].kind # "cfq"
  BY <1>3, <1>6
<1>8. CASE dir /\ cfq
  <2> DEFINE q == Readers!CfqFiles
  <2>1. Readers!BlkioFiles = p \o q /\ q \in Seq(FileOf("blkio"))
    BY <1>3, <1>4, <1>5, <1>8
  <2> HIDE DEF q
  <2>2. /\ p \o q \in Seq(FileOf("blkio")) /\ Len(p \o q) = Len(p) + Len(q) /\ Len(p) \in Nat
        /\ \A j \in 1 .. Len(q) : (p \o q)[Len(p) + j] = q[j]
    BY <1>7, <2>1
  <2>3. Len(q) = 8 /\ q[3].name = "io_serviced_recursive"
    BY <1>4 DEF q
  <2>4. Len(p) + 3 \in 1 .. Len(p \o q) /\ (p \o q)[Len(p) + 3] = q[3]
    BY <2>2, <2>3
  <2> QED
    BY <1>8, <2>1, <2>2, <2>3, <2>4
<1>9. CASE ~(dir /\ cfq)
  <2>1. Readers!BlkioFiles = p
    BY <1>5, <1>7, <1>9
  <2> QED
    BY <1>7, <1>9, <2>1
<1> QED
  BY <1>8, <1>9

LEMMA FilesIs ==
  ASSUME NEW c \in Readers!Controllers
  PROVE  Readers!Files(c) \in Seq(FileOf(c))
  BY SimpleFilesIs, HugetlbFilesIs, MemoryFilesIs, RdmaFilesIs, BlkioFilesIs
     DEF Readers!Files, Readers!Controllers

(* The files of the throttle.                                              *)
ThrottleFile ==
    {f \in AFile :
        /\ f.kind = "throttle" /\ f.of # "memsw" /\ f.name # "io_serviced_recursive"}

LEMMA ThrottleFilesIs ==
  /\ Readers!ThrottleFiles \in Seq(ThrottleFile)
  /\ \E j \in 1 .. Len(Readers!ThrottleFiles) :
        Readers!ThrottleFiles[j].name = "throttle.io_serviced"
<1> DEFINE N == {"throttle.io_serviced", "throttle.io_service_bytes"}
           names == << "throttle.io_serviced", "throttle.io_service_bytes" >>
<1>1. names \in Seq(N) /\ Len(names) = 2 /\ names[1] = "throttle.io_serviced"
  OBVIOUS
<1>2. \A n \in N : [kind |-> "throttle", of |-> Readers!Blank, name |-> n] \in ThrottleFile
  <2>1. Readers!Blank \in Readers!Module
    BY DEF Readers!Module
  <2> QED
    BY <2>1, BlankIs DEF ThrottleFile, AFile, Kinds, FileNames
<1> HIDE DEF N, names
<1>3. /\ Readers!R("throttle", Readers!Blank, names) \in Seq(ThrottleFile)
      /\ Len(Readers!R("throttle", Readers!Blank, names)) = 2
  BY <1>1, <1>2, RIs
<1>4. Readers!R("throttle", Readers!Blank, names)[1].name = names[1]
  <2>1. 1 \in 1 .. Len(names)
    BY <1>1
  <2>2. \A j \in 1 .. Len(names) : Readers!R("throttle", Readers!Blank, names)[j]
                                    = [kind |-> "throttle", of |-> Readers!Blank, name |-> names[j]]
    BY <1>1, RIsLong
  <2> DEFINE n == names[1]
  <2>3. Readers!R("throttle", Readers!Blank, names)[1]
          = [kind |-> "throttle", of |-> Readers!Blank, name |-> n]
    BY <2>1, <2>2
  <2> HIDE DEF n
  <2>4. Readers!R("throttle", Readers!Blank, names)[1].name = n
    BY ONLY <2>3
  <2> QED
    BY <2>4 DEF n
<1>5. Readers!ThrottleFiles = Readers!R("throttle", Readers!Blank, names)
  BY DEF Readers!ThrottleFiles, names
<1> QED
  BY <1>1, <1>3, <1>4, <1>5

-----------------------------------------------------------------------------
(* The readers of package cgroup1.                                         *)
ReaderCall ==
    [at : {"idle", "read", "open", "control", "nil", "err"},
     ctrl : Readers!Controllers \cup {"event"}, todo : Seq(AFile), fell : BOOLEAN]

Entry(d, kind) == [disk |-> d, name |-> Readers!NameOf(d), from |-> kind]

WorldTypes ==
    /\ dir \in BOOLEAN /\ swap \in BOOLEAN /\ cfq \in BOOLEAN
    /\ ios \subseteq Disk /\ plugged \in Seq(Device) /\ plugs \in 0 .. Plugs
    /\ ignored \subseteq Readers!Module

(* Types, and the descriptors that each step of a registration has open.   *)
CallTypes(r, ds, sz, rd, fd) ==
    /\ r \in ReaderCall /\ sz \in BOOLEAN
    /\ rd \in Seq(Seq(Device)) /\ Len(rd) <= 2
    /\ \A e \in ds : \E d \in Disk, k \in {"cfq", "throttle"} : e = Entry(d, k)
    /\ fd \subseteq {"efd", "evt"} /\ (r.ctrl = "event" => ds = {} /\ rd = <<>>)
    /\ r.at = "read" => fd = {} /\ r.ctrl \in Readers!Controllers
    /\ r.at = "open" => fd = {"efd"} /\ r.ctrl = "event"
    /\ r.at = "control" => fd = {"efd", "evt"} /\ r.ctrl = "event"
    /\ r.at = "nil" => fd = IF r.ctrl = "event" THEN {"efd"} ELSE {}
    /\ r.at = "err" => fd = {}

ToRead(r) ==
    r.at = "read" =>
      /\ r.fell => r.ctrl = "blkio"
      /\ \A j \in 1 .. Len(r.todo) : r.todo[j] \in IF r.fell THEN ThrottleFile ELSE FileOf(r.ctrl)

(* What is still to be read is of the controller.                          *)
Listed(r) ==
    r.at = "read" /\ dir =>
      \A j \in 1 .. Len(r.todo) :
         \/ \E k \in 1 .. Len(Readers!Files(r.ctrl)) : r.todo[j] = Readers!Files(r.ctrl)[k]
         \/ r.fell /\ \E k \in 1 .. Len(Readers!ThrottleFiles) : r.todo[j] = Readers!ThrottleFiles[k]

OneKind(r, ds, sz) ==
    /\ r.at \in {"read", "nil"} =>
         \A e \in ds : e.from = IF r.fell THEN "throttle" ELSE "cfq"
    /\ r.at = "read" => /\ ~sz /\ ~r.fell => ds = {}
                        /\ r.fell => ~sz

CfqEntries      == {Entry(d, "cfq") : d \in ios \cap CfqDisk}
ThrottleEntries == {Entry(d, "throttle") : d \in ios}

(* As long as nothing happens, the entries are those of the disks.         *)
Quiet(r, ds, sz) ==
    r.at \in {"read", "nil"} /\ r.ctrl = "blkio" /\ during = {} =>
      /\ sz => dir /\ cfq /\ ios \cap CfqDisk # {}
      /\ ~r.fell => ds \subseteq CfqEntries
      /\ ~r.fell /\ dir /\ cfq =>
           \/ \E j \in 1 .. Len(r.todo) : r.todo[j].name = "io_serviced_recursive"
           \/ ds = CfqEntries /\ (CfqEntries # {} => sz)
      /\ r.fell => /\ ds \subseteq ThrottleEntries
                   /\ dir /\ cfq => ios \cap CfqDisk = {}
                   /\ \/ \E j \in 1 .. Len(r.todo) : r.todo[j].name = "throttle.io_serviced"
                      \/ ds = ThrottleEntries /\ dir
      /\ r.at = "nil" => r.todo = <<>> /\ (sz \/ r.fell)

(* A list of devices that was read before t: of t it lacks at most the end *)
(* when none was unplugged, and it is t or longer when none was plugged.   *)
Before(s, t) ==
    /\ "unplug" \notin during => Len(s) <= Len(t) /\ \A j \in 1 .. Len(s) : s[j] = t[j]
    /\ "plug" \notin during => Len(t) <= Len(s) /\ (Len(t) = Len(s) => s = t)

Pairs(r, rd) ==
    /\ r.at = "read" => IF r.ctrl = "rdma"
                        THEN /\ Len(rd) + Len(r.todo) = 2 /\ ~r.fell
                             /\ Len(rd) = 1 => Before(rd[1], plugged)
                             /\ Len(rd) = 2 => Before(rd[1], rd[2])
                        ELSE rd = <<>>
    /\ r.at = "nil" /\ Len(rd) = 2 => Len(rd[1]) = Len(rd[2]) /\ Before(rd[1], rd[2])

ReaderInv ==
    /\ WorldTypes /\ CallTypes(reading, disks, size, rdma, fds) /\ ToRead(reading)
    /\ Readers!SwapIsOptional =>
         ("memsw" \in ignored \/ swap) /\ Listed(reading) /\ Readers!StatSucceeds
    /\ OneKind(reading, disks, size) /\ Quiet(reading, disks, size) /\ Pairs(reading, rdma)

LEMMA FilesSame ==
  ASSUME dir' = dir, cfq' = cfq, ignored' = ignored, NEW c
  PROVE  Readers!Files(c)' = Readers!Files(c)
<1>1. Readers!MemoryFiles' = Readers!MemoryFiles
  BY DEF Readers!MemoryFiles
<1>2. Readers!BlkioFiles' = Readers!BlkioFiles
  BY DEF Readers!BlkioFiles
<1> QED
  BY <1>1, <1>2 DEF Readers!Files

(* While the world is as it was, a call keeps what it promises.            *)
LEMMA SucceedsSame ==
  ASSUME dir' = dir, cfq' = cfq, ignored' = ignored, oddity' = oddity, reading' = reading,
         Readers!StatSucceeds
  PROVE  Readers!StatSucceeds'
<1>1. \A c : Readers!Files(c)' = Readers!Files(c)
  BY FilesSame
<1>2. \A f : Readers!Parses(f)' = Readers!Parses(f)
  BY DEF Readers!Parses, Readers!ParsesLines
<1> QED
  BY <1>1, <1>2 DEF Readers!StatSucceeds

LEMMA SetToSeqIs ==
  ASSUME NEW S, IsFiniteSet(S)
  PROVE  /\ SetToSeq(S) \in Seq(S) /\ Len(SetToSeq(S)) = Cardinality(S)
         /\ \A x \in S : \E j \in 1 .. Len(SetToSeq(S)) : SetToSeq(S)[j] = x
<1> DEFINE n == Cardinality(S)
           f == SetToSeq(S)
<1>1. n \in Nat /\ ExistsBijection(1 .. n, S)
  BY FS_CardinalityType
<1> HIDE DEF n
<1>2. \E g \in [1 .. n -> S] : IsInjective(g)
  BY <1>1 DEF ExistsBijection, Bijection, Injection
<1>3. f \in [1 .. n -> S] /\ IsInjective(f)
  <2>1. f = CHOOSE g \in [1 .. n -> S] : IsInjective(g)
    BY DEF SetToSeq, n
  <2> HIDE DEF f
  <2> QED
    BY <1>2, <2>1
<1> HIDE DEF f
<1>4. IsFiniteSet(1 .. n) /\ Cardinality(1 .. n) = n
  BY <1>1, FS_Interval
<1>5. f \in Injection(1 .. n, S)
  BY <1>3 DEF Injection
<1>6. f \in Surjection(1 .. n, S)
  BY <1>4, <1>5, FS_Injection DEF n
<1>7. \A x \in S : \E j \in 1 .. n : f[j] = x
  BY <1>6 DEF Surjection
<1>8. f \in Seq(S) /\ Len(f) = n
  BY <1>1, <1>3
<1> QED
  BY <1>7, <1>8 DEF f, n

(* What is not selected makes it shorter.                                  *)
LEMMA SelectedShorter ==
  ASSUME NEW E, NEW s \in Seq(E), NEW S, \E j \in 1 .. Len(s) : s[j] \notin S
  PROVE  Len(Selected(s, S)) < Len(s)
<1>1. PICK f : Steps(f, s, S) /\ Selected(s, S) = f[Len(s)]
  BY SelectedSteps
<1>2. Selected(s, S) = f[Len(s)]
  BY <1>1
<1> DEFINE Good(k) == /\ f[k] \in Seq(E) /\ Len(f[k]) <= k
                      /\ (\E j \in 1 .. k : s[j] \notin S) => Len(f[k]) < k
           T == {k \in 0 .. Len(s) : Good(k)}
<1>3. Len(s) \in Nat
  OBVIOUS
<1>4. 0 \in T
  <2>1. f[0] = <<>>
    BY <1>1 DEF Steps
  <2>2. f[0] \in Seq(E) /\ Len(f[0]) = 0
    BY <2>1
  <2>3. Good(0)
    BY <2>2
  <2> QED
    BY <1>3, <2>3
<1>5. ASSUME NEW k \in 0 .. Len(s) - 1, k \in T PROVE k + 1 \in T
  <2>1. k \in Nat /\ k + 1 \in 0 .. Len(s) /\ k + 1 \in 1 .. Len(s) /\ s[k + 1] \in E
    BY <1>3
  <2>2. f[k + 1] = IF s[k + 1] \in S THEN Append(f[k], s[k + 1]) ELSE f[k]
    BY <1>1 DEF Steps
  <2>3. Good(k)
    BY <1>5
  <2>4. \A j \in 1 .. k + 1 : j = k + 1 \/ j \in 1 .. k
    BY <2>1
  <2>5. Len(f[k]) \in Nat
    BY <2>3
  <2>6. CASE s[k + 1] \notin S
    <3>1. f[k + 1] = f[k] /\ Len(f[k]) < k + 1
      BY <2>1, <2>2, <2>3, <2>5, <2>6
    <3>2. Good(k + 1)
      BY <2>1, <2>3, <2>5, <3>1
    <3> QED
      BY <2>1, <3>2
  <2>7. CASE s[k + 1] \in S
    <3>1. f[k + 1] \in Seq(E) /\ Len(f[k + 1]) = Len(f[k]) + 1
      BY <2>1, <2>2, <2>3, <2>7
    <3>2. (\E j \in 1 .. k + 1 : s[j] \notin S) => \E j \in 1 .. k : s[j] \notin S
      BY <2>4, <2>7
    <3>3. Good(k + 1)
      BY <2>1, <2>3, <2>5, <3>1, <3>2
    <3> QED
      BY <2>1, <3>3
  <2> QED
    BY <2>6, <2>7
<1> HIDE DEF T
<1>6. \A k \in 0 .. Len(s) : k \in T
  BY <1>3, <1>4, <1>5, Upwards
<1>7. Len(s) \in T
  BY <1>3, <1>6
<1> QED
  BY <1>2, <1>7 DEF T

LEMMA ReaderStarts ==
  ASSUME Readers!Init
  PROVE  ReaderInv
<1> DEFINE r == [at |-> "idle", ctrl |-> "cpu", todo |-> <<>>, fell |-> FALSE]
<1>1. /\ dir = TRUE /\ swap \in BOOLEAN /\ cfq \in BOOLEAN /\ ios = {}
      /\ plugged = Readers!SetToSeq(Device) /\ plugs = 0 /\ reading = r
      /\ disks = {} /\ size = FALSE /\ rdma = <<>> /\ fds = {} /\ during = {}
  BY DEF Readers!Init
<1>2. PICK o \in Options : ignored = Readers!Ignored(o)
  BY DEF Readers!Init
<1>3. ignored \subseteq Readers!Module
  <2>1. o.ignored \subseteq Readers!Module
    BY ReaderFacts
  <2> QED
    BY <1>2, <2>1 DEF Readers!Ignored, Readers!Module
<1>4. Readers!SwapIsOptional => "memsw" \in ignored \/ swap
  BY <1>2 DEF Readers!SwapIsOptional, Readers!Ignored
<1>5. plugged \in Seq(Device)
  <2>1. Readers!SetToSeq(Device) = SetToSeq(Device)
    BY DEF Readers!SetToSeq, SetToSeq, Readers!Cardinality, Cardinality, Readers!IsInjective,
           IsInjective
  <2> QED
    BY <1>1, <2>1, ReaderFacts, SetToSeqIs
<1>6. WorldTypes
  BY <1>1, <1>3, <1>5, ReaderFacts DEF WorldTypes
<1>7. r \in ReaderCall /\ r.at = "idle"
  BY DEF ReaderCall, Readers!Controllers
<1> HIDE DEF r
<1>8. CallTypes(r, {}, FALSE, <<>>, {})
  BY <1>7 DEF CallTypes
<1>9. ToRead(r) /\ Listed(r) /\ OneKind(r, {}, FALSE) /\ Quiet(r, {}, FALSE) /\ Pairs(r, <<>>)
  BY <1>7 DEF ToRead, Listed, OneKind, Quiet, Pairs
<1>10. Readers!StatSucceeds
  BY <1>1, <1>7 DEF Readers!StatSucceeds
<1> QED
  BY <1>1, <1>4, <1>6, <1>8, <1>9, <1>10 DEF ReaderInv

-----------------------------------------------------------------------------
(* The steps of the others.                                                *)
LEMMA ReaderRmdir ==
  ASSUME ReaderInv, Readers!Rmdir
  PROVE  ReaderInv'
<1>1. /\ dir' = FALSE /\ ios' = ios /\ plugged' = plugged /\ plugs' = plugs
      /\ during' = during \cup {"rmdir"} /\ oddity' = oddity /\ swap' = swap /\ cfq' = cfq
      /\ ignored' = ignored /\ reading' = reading /\ disks' = disks /\ size' = size
      /\ rdma' = rdma /\ fds' = fds
  BY DEF Readers!Rmdir, Readers!Happens
<1>2. WorldTypes' /\ CallTypes(reading, disks, size, rdma, fds)'
  BY <1>1 DEF ReaderInv, WorldTypes, CallTypes
<1>3. ToRead(reading)' /\ OneKind(reading, disks, size)'
  BY <1>1 DEF ReaderInv, ToRead, OneKind, FileOf
<1>4. Listed(reading)' /\ Readers!StatSucceeds' /\ Quiet(reading, disks, size)'
  BY <1>1 DEF Listed, Readers!StatSucceeds, Quiet
<1>5. Pairs(reading, rdma)'
  BY <1>1 DEF ReaderInv, Pairs, Before
<1>6. (Readers!SwapIsOptional => "memsw" \in ignored \/ swap)'
  BY <1>1 DEF ReaderInv, Readers!SwapIsOptional
<1> QED
  BY <1>2, <1>3, <1>4, <1>5, <1>6 DEF ReaderInv

LEMMA ReaderIo ==
  ASSUME ReaderInv, NEW d \in Disk, Readers!IoStarts(d)
  PROVE  ReaderInv'
<1>1. /\ dir' = dir /\ ios' = ios \cup {d} /\ plugged' = plugged /\ plugs' = plugs
      /\ during' = during \cup {"io"} /\ oddity' = oddity /\ swap' = swap /\ cfq' = cfq
      /\ ignored' = ignored /\ reading' = reading /\ disks' = disks /\ size' = size
      /\ rdma' = rdma /\ fds' = fds
  BY DEF Readers!IoStarts, Readers!Happens
<1>2. WorldTypes' /\ CallTypes(reading, disks, size, rdma, fds)'
  BY <1>1 DEF ReaderInv, WorldTypes, CallTypes
<1>3. ToRead(reading)' /\ OneKind(reading, disks, size)'
  BY <1>1 DEF ReaderInv, ToRead, OneKind, FileOf
<1>4. Quiet(reading, disks, size)'
  BY <1>1 DEF Quiet
<1>5. Pairs(reading, rdma)'
  BY <1>1 DEF ReaderInv, Pairs, Before
<1>6. Listed(reading) => Listed(reading)'
  <2>1. \A c : Readers!Files(c)' = Readers!Files(c)
    BY <1>1, FilesSame
  <2> QED
    BY <1>1, <2>1 DEF Listed
<1>7. (Readers!SwapIsOptional =>
         ("memsw" \in ignored \/ swap) /\ Listed(reading) /\ Readers!StatSucceeds)'
  BY <1>1, <1>6, SucceedsSame DEF ReaderInv, Readers!SwapIsOptional
<1> QED
  BY <1>2, <1>3, <1>4, <1>5, <1>7 DEF ReaderInv

LEMMA ReaderPlug ==
  ASSUME ReaderInv, NEW d \in Device, Readers!Plug(d)
  PROVE  ReaderInv'
<1>1. /\ dir' = dir /\ ios' = ios /\ plugs < Plugs /\ plugs' = plugs + 1
      /\ oddity' = oddity /\ swap' = swap /\ cfq' = cfq
      /\ ignored' = ignored /\ reading' = reading /\ disks' = disks /\ size' = size
      /\ rdma' = rdma /\ fds' = fds
  BY DEF Readers!Plug, Readers!Happens
<1>2. \/ /\ d \in Readers!Range(plugged) /\ plugged' = Readers!Selected(plugged, Device \ {d})
         /\ during' = during \cup {"unplug"}
      \/ plugged' = Append(plugged, d) /\ during' = during \cup {"plug"}
  BY DEF Readers!Plug, Readers!Happens
<1>3. plugged \in Seq(Device) /\ plugs \in 0 .. Plugs
  BY DEF ReaderInv, WorldTypes
<1>4. /\ plugged' \in Seq(Device)
      /\ \A s \in Seq(Device) : Before(s, plugged) => Before(s, plugged)'
  <2>1. CASE plugged' = Append(plugged, d) /\ during' = during \cup {"plug"}
    <3> DEFINE t == Append(plugged, d)
    <3>1. /\ t \in Seq(Device) /\ Len(t) = Len(plugged) + 1 /\ Len(plugged) \in Nat
          /\ \A j \in 1 .. Len(plugged) : t[j] = plugged[j]
      BY <1>3
    <3>2. plugged' = t
      BY <2>1
    <3> HIDE DEF t
    <3>3. ASSUME NEW s \in Seq(Device), Before(s, plugged) PROVE Before(s, plugged)'
      <4>1. Len(s) \in Nat
        OBVIOUS
      <4> QED
        BY <2>1, <3>1, <3>2, <3>3, <4>1 DEF Before
    <3> QED
      BY <3>1, <3>2, <3>3
  <2>2. CASE /\ d \in Readers!Range(plugged)
             /\ plugged' = Readers!Selected(plugged, Device \ {d})
             /\ during' = during \cup {"unplug"}
    <3> DEFINE t == Selected(plugged, Device \ {d})
    <3>1. plugged' = t
      BY <2>2 DEF Readers!Selected, Selected
    <3>2. \E j \in 1 .. Len(plugged) : plugged[j] \notin Device \ {d}
      BY <1>3, <2>2 DEF Readers!Range
    <3>3. t \in Seq(Device) /\ Len(t) < Len(plugged)
      BY <1>3, <3>2, SelectedIs, SelectedShorter
    <3> HIDE DEF t
    <3>4. Len(t) \in Nat /\ Len(plugged) \in Nat
      BY <1>3, <3>3
    <3>5. ASSUME NEW s \in Seq(Device), Before(s, plugged) PROVE Before(s, plugged)'
      <4>1. Len(s) \in Nat
        OBVIOUS
      <4> QED
        BY <2>2, <3>1, <3>3, <3>4, <3>5, <4>1 DEF Before
    <3> QED
      BY <3>1, <3>3, <3>5
  <2> QED
    BY <1>2, <2>1, <2>2
<1>5. WorldTypes' /\ CallTypes(reading, disks, size, rdma, fds)'
  <2>1. plugs' \in 0 .. Plugs
    BY <1>1, <1>3, ReaderFacts
  <2> QED
    BY <1>1, <1>4, <2>1 DEF ReaderInv, WorldTypes, CallTypes
<1>6. ToRead(reading)' /\ OneKind(reading, disks, size)'
  BY <1>1 DEF ReaderInv, ToRead, OneKind, FileOf
<1>7. Quiet(reading, disks, size)'
  BY <1>2 DEF Quiet
<1>8. Pairs(reading, rdma)'
  <2>1. /\ Len(rdma) = 1 => rdma[1] \in Seq(Device)
        /\ Len(rdma) = 2 => (Before(rdma[1], rdma[2]) => Before(rdma[1], rdma[2])')
    BY <1>1, <1>2 DEF ReaderInv, CallTypes, Before
  <2>2. Len(rdma) = 1 => (Before(rdma[1], plugged) => Before(rdma[1], plugged)')
    BY <1>1, <1>4, <2>1
  <2>3. Pairs(reading, rdma)
    BY DEF ReaderInv
  <2> QED
    BY <1>1, <2>1, <2>2, <2>3 DEF Pairs
<1>9. Listed(reading) => Listed(reading)'
  <2>1. \A c : Readers!Files(c)' = Readers!Files(c)
    BY <1>1, FilesSame
  <2> QED
    BY <1>1, <2>1 DEF Listed
<1>10. (Readers!SwapIsOptional =>
         ("memsw" \in ignored \/ swap) /\ Listed(reading) /\ Readers!StatSucceeds)'
  BY <1>1, <1>9, SucceedsSame DEF ReaderInv, Readers!SwapIsOptional
<1> QED
  BY <1>5, <1>6, <1>7, <1>8, <1>10 DEF ReaderInv

-----------------------------------------------------------------------------
(* The steps of a call, which leave the world as it was.                   *)
LEMMA ReaderKeeps ==
  ASSUME ReaderInv, dir' = dir, swap' = swap, cfq' = cfq, ios' = ios, plugged' = plugged,
         plugs' = plugs, ignored' = ignored, during' = during,
         CallTypes(reading', disks', size', rdma', fds'), ToRead(reading'),
         OneKind(reading', disks', size'), Quiet(reading', disks', size'),
         Pairs(reading', rdma'),
         Readers!SwapIsOptional => Listed(reading') /\ Readers!StatSucceeds'
  PROVE  ReaderInv'
<1>1. WorldTypes' /\ CallTypes(reading, disks, size, rdma, fds)'
  BY DEF ReaderInv, WorldTypes, CallTypes
<1>2. ToRead(reading)' /\ OneKind(reading, disks, size)'
  BY DEF ToRead, OneKind, FileOf
<1>3. Quiet(reading, disks, size)'
  BY DEF Quiet, CfqEntries, ThrottleEntries
<1>4. Pairs(reading, rdma)'
  BY DEF Pairs, Before
<1>5. Listed(reading') => Listed(reading)'
  <2>1. \A c : Readers!Files(c)' = Readers!Files(c)
    BY FilesSame
  <2> QED
    BY <2>1 DEF Listed
<1>6. (Readers!SwapIsOptional => "memsw" \in ignored \/ swap)'
  BY DEF ReaderInv, Readers!SwapIsOptional
<1>7. Readers!SwapIsOptional' <=> Readers!SwapIsOptional
  BY DEF Readers!SwapIsOptional
<1> QED
  BY <1>1, <1>2, <1>3, <1>4, <1>5, <1>6, <1>7 DEF ReaderInv

LEMMA ReaderBegin ==
  ASSUME ReaderInv, NEW c \in Readers!Controllers, Readers!Begin(c)
  PROVE  ReaderInv'
<1> DEFINE todo == Readers!Files(c)
           r == [at |-> "read", ctrl |-> c, todo |-> todo, fell |-> FALSE]
<1>1. /\ reading' = r /\ disks' = {} /\ size' = FALSE /\ rdma' = <<>> /\ fds' = {}
      /\ during' = {} /\ dir' = dir /\ oddity' = oddity /\ swap' = swap /\ cfq' = cfq
      /\ ios' = ios /\ plugged' = plugged /\ plugs' = plugs /\ ignored' = ignored
  BY DEF Readers!Begin, Readers!world
<1>2. todo \in Seq(FileOf(c)) /\ FileOf(c) \subseteq AFile
  BY FilesIs DEF FileOf
<1>3. c = "rdma" => Len(todo) = 2
  BY RdmaFilesIs DEF Readers!Files
<1>4. c = "blkio" /\ dir /\ cfq => \E j \in 1 .. Len(todo) : todo[j].name = "io_serviced_recursive"
  BY BlkioFilesIs DEF Readers!Files
<1>5. \A e : Readers!Files(e)' = Readers!Files(e)
  BY <1>1, FilesSame
<1>6. todo = Readers!Files(c)
  OBVIOUS
<1> HIDE DEF todo
<1>7. todo \in Seq(AFile)
  BY <1>2
<1>8. r \in ReaderCall /\ r.at = "read" /\ r.ctrl = c /\ r.todo = todo /\ r.fell = FALSE
  BY <1>7 DEF ReaderCall
<1> HIDE DEF r
<1>9. WorldTypes'
  BY <1>1 DEF ReaderInv, WorldTypes
<1>10. CallTypes(r, {}, FALSE, <<>>, {})
  BY <1>8 DEF CallTypes
<1>11. ToRead(reading)'
  <2>1. \A j \in 1 .. Len(todo) : todo[j] \in FileOf(c)
    BY <1>2
  <2>2. ToRead(reading')
    BY <1>1, <1>8, <2>1 DEF ToRead
  <2> QED
    BY <1>1, <2>2 DEF ToRead, FileOf
<1>12. Listed(reading)'
  BY <1>1, <1>5, <1>6, <1>8 DEF Listed
<1>13. OneKind(reading, disks, size)' /\ Pairs(reading, rdma)'
  <2>1. OneKind(r, {}, FALSE)
    BY <1>8 DEF OneKind
  <2>2. Pairs(reading, rdma)'
    <3>1. c = "rdma" => Len(<<>>) + Len(todo) = 2
      BY <1>3
    <3>2. Len(<<>>) = 0
      OBVIOUS
    <3> QED
      BY <1>1, <1>8, <3>1, <3>2 DEF Pairs
  <2> QED
    BY <1>1, <2>1, <2>2 DEF OneKind
<1>14. Quiet(reading, disks, size)'
  <2>1. CASE c = "blkio"
    BY <1>1, <1>4, <1>8, <2>1 DEF Quiet
  <2>2. CASE c # "blkio"
    BY <1>1, <1>8, <2>2 DEF Quiet
  <2> QED
    BY <2>1, <2>2
<1>15. Readers!StatSucceeds'
  BY <1>1, <1>8 DEF Readers!StatSucceeds
<1>16. (Readers!SwapIsOptional => "memsw" \in ignored \/ swap)'
  BY <1>1 DEF ReaderInv, Readers!SwapIsOptional
<1>17. CallTypes(reading, disks, size, rdma, fds)'
  BY <1>1, <1>10 DEF CallTypes
<1> QED
  BY <1>1, <1>9, <1>11, <1>12, <1>13, <1>14, <1>15, <1>16, <1>17 DEF ReaderInv

LEMMA ReaderRegister ==
  ASSUME ReaderInv, Readers!Register
  PROVE  ReaderInv'
<1>1. PICK to \in {"open", "err"} :
         /\ reading' = [at |-> to, ctrl |-> "event", todo |-> <<>>, fell |-> FALSE]
         /\ fds' = IF to = "open" THEN {"efd"} ELSE {}
  BY DEF Readers!Register
<1>2. /\ disks' = {} /\ size' = FALSE /\ rdma' = <<>>
      /\ during' = {} /\ dir' = dir /\ oddity' = oddity /\ swap' = swap /\ cfq' = cfq
      /\ ios' = ios /\ plugged' = plugged /\ plugs' = plugs /\ ignored' = ignored
  BY DEF Readers!Register, Readers!world
<1> DEFINE r == [at |-> to, ctrl |-> "event", todo |-> <<>>, fell |-> FALSE]
           fd == IF to = "open" THEN {"efd"} ELSE {}
<1>3. /\ r \in ReaderCall /\ r.at = to /\ r.ctrl = "event" /\ r.todo = <<>> /\ r.fell = FALSE
  BY DEF ReaderCall
<1>4. reading' = r /\ fds' = fd
  BY <1>1
<1> HIDE DEF r
<1>5. CallTypes(r, {}, FALSE, <<>>, fd)
  BY <1>3 DEF CallTypes
<1>6. CallTypes(reading, disks, size, rdma, fds)'
  BY <1>2, <1>4, <1>5 DEF CallTypes
<1>7. WorldTypes'
  BY <1>2 DEF ReaderInv, WorldTypes
<1>8. /\ ToRead(reading)' /\ Listed(reading)' /\ OneKind(reading, disks, size)'
      /\ Quiet(reading, disks, size)' /\ Pairs(reading, rdma)' /\ Readers!StatSucceeds'
  BY <1>2, <1>3, <1>4 DEF ToRead, Listed, OneKind, Quiet, Pairs, Readers!StatSucceeds
<1>9. (Readers!SwapIsOptional => "memsw" \in ignored \/ swap)'
  BY <1>2 DEF ReaderInv, Readers!SwapIsOptional
<1> QED
  BY <1>6, <1>7, <1>8, <1>9 DEF ReaderInv

LEMMA CallMoves ==
  ASSUME NEW r \in ReaderCall, NEW to \in {"idle", "read", "open", "control", "nil", "err"}
  PROVE  /\ [r EXCEPT !.at = to] \in ReaderCall
         /\ [r EXCEPT !.at = to].at = to /\ [r EXCEPT !.at = to].ctrl = r.ctrl
         /\ [r EXCEPT !.at = to, !.todo = <<>>] \in ReaderCall
         /\ [r EXCEPT !.at = to, !.todo = <<>>].at = to
         /\ [r EXCEPT !.at = to, !.todo = <<>>].ctrl = r.ctrl
         /\ [r EXCEPT !.at = to, !.todo = <<>>].todo = <<>>
         /\ [r EXCEPT !.at = to, !.todo = <<>>].fell = r.fell
<1> DEFINE A == {"idle", "read", "open", "control", "nil", "err"}
           C == Readers!Controllers \cup {"event"}
           T == Seq(AFile)
           e == <<>>
<1>1. r \in [at : A, ctrl : C, todo : T, fell : BOOLEAN] /\ to \in A /\ e \in T
  BY DEF ReaderCall
<1> HIDE DEF A, C, T, e
<1>2. /\ [r EXCEPT !.at = to] \in [at : A, ctrl : C, todo : T, fell : BOOLEAN]
      /\ [r EXCEPT !.at = to].at = to /\ [r EXCEPT !.at = to].ctrl = r.ctrl
  BY ONLY <1>1
<1>3. /\ [r EXCEPT !.at = to, !.todo = e] \in [at : A, ctrl : C, todo : T, fell : BOOLEAN]
      /\ [r EXCEPT !.at = to, !.todo = e].at = to
      /\ [r EXCEPT !.at = to, !.todo = e].ctrl = r.ctrl
      /\ [r EXCEPT !.at = to, !.todo = e].todo = e
      /\ [r EXCEPT !.at = to, !.todo = e].fell = r.fell
  BY ONLY <1>1
<1> QED
  BY <1>2, <1>3 DEF ReaderCall, A, C, T, e

(* A step of a registration.                                               *)
LEMMA ReaderOpens ==
  ASSUME ReaderInv, Readers!OpenEvent \/ Readers!WriteControl
  PROVE  ReaderInv'
<1>1. /\ disks' = disks /\ size' = size /\ rdma' = rdma
      /\ during' = during /\ dir' = dir /\ oddity' = oddity /\ swap' = swap /\ cfq' = cfq
      /\ ios' = ios /\ plugged' = plugged /\ plugs' = plugs /\ ignored' = ignored
  BY DEF Readers!OpenEvent, Readers!WriteControl, Readers!world
<1>2. reading.ctrl = "event" /\ reading \in ReaderCall /\ CallTypes(reading, disks, size, rdma, fds)
  BY DEF ReaderInv, CallTypes, Readers!OpenEvent, Readers!WriteControl
<1>3. CallTypes(reading', disks', size', rdma', fds')
  <2>1. CASE Readers!OpenEvent
    <3>1. \/ reading' = [reading EXCEPT !.at = "control"] /\ fds' = fds \cup {"evt"}
          \/ reading' = [reading EXCEPT !.at = "err", !.todo = <<>>] /\ fds' = fds \ {"efd"}
      BY <2>1 DEF Readers!OpenEvent, Readers!Ends
    <3>2. reading.at = "open" /\ fds = {"efd"}
      BY <1>2, <2>1 DEF Readers!OpenEvent, CallTypes
    <3>3. /\ reading' \in ReaderCall /\ reading'.ctrl = "event"
          /\ \/ reading'.at = "control" /\ fds' = {"efd", "evt"}
             \/ reading'.at = "err" /\ fds' = {}
      <4> DEFINE p == [reading EXCEPT !.at = "control"]
                 q == [reading EXCEPT !.at = "err", !.todo = <<>>]
      <4>1. /\ p \in ReaderCall /\ p.at = "control" /\ p.ctrl = "event"
            /\ q \in ReaderCall /\ q.at = "err" /\ q.ctrl = "event"
        BY <1>2, CallMoves
      <4> HIDE DEF p, q
      <4> QED
        BY <3>1, <3>2, <4>1 DEF p, q
    <3> QED
      BY <1>1, <1>2, <3>3 DEF CallTypes
  <2>2. CASE Readers!WriteControl
    <3>1. \/ reading' = [reading EXCEPT !.at = "nil", !.todo = <<>>] /\ fds' = fds \ {"evt"}
          \/ reading' = [reading EXCEPT !.at = "err", !.todo = <<>>] /\ fds' = fds \ {"evt", "efd"}
      BY <2>2 DEF Readers!WriteControl, Readers!Ends
    <3>2. reading.at = "control" /\ fds = {"efd", "evt"}
      BY <1>2, <2>2 DEF Readers!WriteControl, CallTypes
    <3>3. /\ reading' \in ReaderCall /\ reading'.ctrl = "event"
          /\ \/ reading'.at = "nil" /\ fds' = {"efd"}
             \/ reading'.at = "err" /\ fds' = {}
      <4> DEFINE p == [reading EXCEPT !.at = "nil", !.todo = <<>>]
                 q == [reading EXCEPT !.at = "err", !.todo = <<>>]
      <4>1. /\ p \in ReaderCall /\ p.at = "nil" /\ p.ctrl = "event"
            /\ q \in ReaderCall /\ q.at = "err" /\ q.ctrl = "event"
        BY <1>2, CallMoves
      <4> HIDE DEF p, q
      <4> QED
        BY <3>1, <3>2, <4>1 DEF p, q
    <3> QED
      BY <1>1, <1>2, <3>3 DEF CallTypes
  <2> QED
    BY <2>1, <2>2
<1>4. reading'.at \in {"control", "nil", "err"} /\ reading'.ctrl = "event"
  BY <1>2 DEF ReaderCall, Readers!OpenEvent, Readers!WriteControl, Readers!Ends
<1>5. ToRead(reading') /\ Listed(reading') /\ Quiet(reading', disks', size') /\ Readers!StatSucceeds'
  BY <1>4 DEF ToRead, Listed, Quiet, Readers!StatSucceeds
<1>6. OneKind(reading', disks', size') /\ Pairs(reading', rdma')
  <2>1. disks = {} /\ rdma = <<>>
    BY <1>2 DEF CallTypes
  <2> QED
    BY <1>1, <1>4, <2>1 DEF OneKind, Pairs
<1> QED
  BY <1>1, <1>3, <1>5, <1>6, ReaderKeeps

LEMMA EntriesAre ==
  ASSUME NEW f, f.kind \in {"cfq", "throttle"}
  PROVE  /\ f.kind = "cfq" => Readers!Entries(f) = CfqEntries
         /\ f.kind = "throttle" => Readers!Entries(f) = ThrottleEntries
<1>1. CASE f.kind = "cfq"
  BY <1>1 DEF Readers!Entries, CfqEntries, Entry
<1>2. CASE f.kind = "throttle"
  <2>1. f.kind # "cfq"
    BY <1>2
  <2> QED
    BY <1>2, <2>1 DEF Readers!Entries, ThrottleEntries, Entry
<1> QED
  BY <1>1, <1>2

LEMMA EntriesOf ==
  ASSUME WorldTypes
  PROVE  /\ \A e \in CfqEntries : e.from = "cfq" /\ \E d \in Disk : e = Entry(d, "cfq")
         /\ \A e \in ThrottleEntries :
               e.from = "throttle" /\ \E d \in Disk : e = Entry(d, "throttle")
         /\ CfqEntries = {} <=> ios \cap CfqDisk = {}
<1>1. ios \subseteq Disk
  BY DEF WorldTypes
<1>2. \A d, k : Entry(d, k).from = k
  BY DEF Entry
<1>3. \A e \in CfqEntries : e.from = "cfq" /\ \E d \in Disk : e = Entry(d, "cfq")
  BY <1>1, <1>2 DEF CfqEntries
<1>4. \A e \in ThrottleEntries :
         e.from = "throttle" /\ \E d \in Disk : e = Entry(d, "throttle")
  BY <1>1, <1>2 DEF ThrottleEntries
<1>5. CfqEntries = {} <=> ios \cap CfqDisk = {}
  BY DEF CfqEntries
<1> QED
  BY <1>3, <1>4, <1>5

(* The parts of the invariant a step of a Stat may disturb.                *)
LEMMA ReaderReturn ==
  ASSUME ReaderInv, Readers!Return
  PROVE  ReaderInv'
<1> DEFINE r == [reading EXCEPT !.at = "nil", !.todo = <<>>]
           torn2 == Len(rdma) = 2 /\ Len(rdma[1]) # Len(rdma[2])
<1>1. /\ reading.at = "read" /\ reading.todo = <<>>
      /\ ~(reading.ctrl = "blkio" /\ ~size /\ ~reading.fell)
      /\ reading' = r /\ rdma' = IF torn2 THEN <<>> ELSE rdma
      /\ disks' = disks /\ size' = size /\ fds' = fds
      /\ during' = during /\ dir' = dir /\ oddity' = oddity /\ swap' = swap /\ cfq' = cfq
      /\ ios' = ios /\ plugged' = plugged /\ plugs' = plugs /\ ignored' = ignored
  BY DEF Readers!Return, Readers!More, Readers!Ends, Readers!world
<1>2. /\ CallTypes(reading, disks, size, rdma, fds) /\ reading \in ReaderCall
      /\ OneKind(reading, disks, size) /\ Quiet(reading, disks, size) /\ Pairs(reading, rdma)
  BY DEF ReaderInv, CallTypes
<1>3. /\ r \in ReaderCall /\ r.at = "nil" /\ r.ctrl = reading.ctrl /\ r.todo = <<>>
      /\ r.fell = reading.fell
  BY <1>2, CallMoves
<1> HIDE DEF r
<1>4. /\ fds = {} /\ reading.ctrl \in Readers!Controllers /\ reading.ctrl # "event"
      /\ rdma \in Seq(Seq(Device)) /\ Len(rdma) <= 2
  BY <1>1, <1>2 DEF CallTypes, Readers!Controllers
<1>5. rdma' \in Seq(Seq(Device)) /\ Len(rdma') <= 2 /\ (Len(rdma') = 2 => rdma' = rdma /\ ~torn2)
  BY <1>1, <1>4
<1>6. Len(reading.todo) = 0
  BY <1>1
<1>7. CallTypes(reading', disks', size', rdma', fds')
  BY <1>1, <1>2, <1>3, <1>4, <1>5 DEF CallTypes
<1>8. ToRead(reading') /\ Listed(reading') /\ Readers!StatSucceeds'
  BY <1>1, <1>3 DEF ToRead, Listed, Readers!StatSucceeds
<1>9. OneKind(reading', disks', size')
  BY <1>1, <1>2, <1>3 DEF OneKind
<1>10. Quiet(reading', disks', size')
  BY <1>1, <1>2, <1>3, <1>6 DEF Quiet
<1>11. Pairs(reading', rdma')
  <2>1. ASSUME Len(rdma') = 2
        PROVE  Len(rdma'[1]) = Len(rdma'[2]) /\ Before(rdma'[1], rdma'[2])
    <3>1. rdma' = rdma /\ ~torn2 /\ Len(rdma) = 2
      BY <1>5, <2>1
    <3>2. Before(rdma[1], rdma[2])
      <4>1. IF reading.ctrl = "rdma" THEN Len(rdma) = 2 => Before(rdma[1], rdma[2])
                                     ELSE rdma = <<>>
        BY <1>1, <1>2, Zenon DEF Pairs
      <4>2. rdma # <<>>
        BY <3>1
      <4> QED
        BY <3>1, <4>1, <4>2
    <3>3. Len(rdma[1]) = Len(rdma[2])
      BY <3>1
    <3> QED
      BY ONLY <3>1, <3>2, <3>3
  <2> QED
    BY <1>1, <1>3, <2>1 DEF Pairs
<1> QED
  BY <1>1, <1>7, <1>8, <1>9, <1>10, <1>11, ReaderKeeps

LEMMA ReaderFallBack ==
  ASSUME ReaderInv, Readers!FallBack
  PROVE  ReaderInv'
<1> DEFINE r == [reading EXCEPT !.todo = Readers!ThrottleFiles, !.fell = TRUE]
<1>1. /\ reading.at = "read" /\ reading.todo = <<>>
      /\ reading.ctrl = "blkio" /\ ~size /\ ~reading.fell /\ reading' = r
      /\ disks' = disks /\ size' = size /\ rdma' = rdma /\ fds' = fds
      /\ during' = during /\ dir' = dir /\ oddity' = oddity /\ swap' = swap /\ cfq' = cfq
      /\ ios' = ios /\ plugged' = plugged /\ plugs' = plugs /\ ignored' = ignored
  BY DEF Readers!FallBack, Readers!More, Readers!world
<1>2. /\ CallTypes(reading, disks, size, rdma, fds) /\ reading \in ReaderCall
      /\ OneKind(reading, disks, size) /\ Quiet(reading, disks, size) /\ Pairs(reading, rdma)
      /\ WorldTypes
  BY DEF ReaderInv, CallTypes
<1>3. Readers!ThrottleFiles \in Seq(AFile)
  BY ThrottleFilesIs DEF ThrottleFile
<1>4. /\ r \in ReaderCall /\ r.at = "read" /\ r.ctrl = "blkio" /\ r.fell = TRUE
      /\ r.todo = Readers!ThrottleFiles
  BY <1>1, <1>2, <1>3 DEF ReaderCall
<1> HIDE DEF r
<1>5. Len(reading.todo) = 0 /\ disks = {} /\ rdma = <<>>
  BY <1>1, <1>2 DEF OneKind, Pairs
<1>6. CallTypes(reading', disks', size', rdma', fds')
  <2>1. fds = {} /\ "blkio" \in Readers!Controllers
    BY <1>1, <1>2 DEF CallTypes, Readers!Controllers
  <2> QED
    BY <1>1, <1>2, <1>4, <2>1 DEF CallTypes
<1>7. ToRead(reading')
  <2>1. \A j \in 1 .. Len(Readers!ThrottleFiles) : Readers!ThrottleFiles[j] \in ThrottleFile
    BY ThrottleFilesIs
  <2> QED
    BY <1>1, <1>4, <2>1 DEF ToRead
<1>8. Listed(reading') /\ Readers!StatSucceeds'
  BY <1>1, <1>4 DEF Listed, Readers!StatSucceeds
<1>9. OneKind(reading', disks', size') /\ Pairs(reading', rdma')
  BY <1>1, <1>4, <1>5 DEF OneKind, Pairs
<1>10. Quiet(reading', disks', size')
  <2>1. during = {} /\ dir /\ cfq => CfqEntries = {}
    BY <1>1, <1>2, <1>5 DEF Quiet
  <2>2. during = {} /\ dir /\ cfq => ios \cap CfqDisk = {}
    BY <1>2, <2>1, EntriesOf
  <2> QED
    BY <1>1, <1>4, <1>5, <2>2, ThrottleFilesIs DEF Quiet
<1> QED
  BY <1>1, <1>6, <1>7, <1>8, <1>9, <1>10, ReaderKeeps

-----------------------------------------------------------------------------
(* It reads a file.                                                        *)
LEMMA ReaderFails ==
  ASSUME ReaderInv, Readers!Read, ~(Readers!Exists(Head(reading.todo)) /\ Readers!Parses(Head(reading.todo)))
  PROVE  ReaderInv'
<1> DEFINE f == Head(reading.todo)
           r == [reading EXCEPT !.at = "err", !.todo = <<>>]
<1>1. /\ reading.at = "read" /\ reading.todo # <<>> /\ reading' = r
      /\ disks' = disks /\ size' = size /\ rdma' = rdma /\ fds' = fds
      /\ during' = during /\ dir' = dir /\ oddity' = oddity /\ swap' = swap /\ cfq' = cfq
      /\ ios' = ios /\ plugged' = plugged /\ plugs' = plugs /\ ignored' = ignored
  BY DEF Readers!Read, Readers!Ends, Readers!world
<1>2. /\ CallTypes(reading, disks, size, rdma, fds) /\ reading \in ReaderCall /\ ToRead(reading)
  BY DEF ReaderInv, CallTypes
<1>3. /\ r \in ReaderCall /\ r.at = "err" /\ r.ctrl = reading.ctrl /\ r.fell = reading.fell
  BY <1>2, CallMoves
<1> HIDE DEF r
<1>4. /\ fds = {} /\ reading.ctrl \in Readers!Controllers /\ reading.ctrl # "event"
  BY <1>1, <1>2 DEF CallTypes, Readers!Controllers
<1>5. CallTypes(reading', disks', size', rdma', fds')
  BY <1>1, <1>2, <1>3, <1>4 DEF CallTypes
<1>6. /\ ToRead(reading') /\ Listed(reading') /\ OneKind(reading', disks', size')
      /\ Quiet(reading', disks', size') /\ Pairs(reading', rdma')
  BY <1>1, <1>3 DEF ToRead, Listed, OneKind, Quiet, Pairs
<1>7. f = reading.todo[1] /\ 1 \in 1 .. Len(reading.todo)
  <2>1. reading.todo \in Seq(AFile)
    BY <1>2 DEF ReaderCall
  <2> QED
    BY <1>1, <2>1
<1>8. f \in IF reading.fell THEN ThrottleFile ELSE FileOf(reading.ctrl)
  BY <1>1, <1>2, <1>7 DEF ToRead
<1>9. Readers!SwapIsOptional => Readers!StatSucceeds'
  <2> SUFFICES ASSUME Readers!SwapIsOptional, dir PROVE Readers!StatSucceeds'
    BY <1>1 DEF Readers!StatSucceeds
  <2>1. ("memsw" \in ignored \/ swap) /\ Listed(reading)
    BY DEF ReaderInv
  <2>2. Readers!Exists(f)
    <3>1. f.kind = "cfq" => cfq
      BY <1>8 DEF ThrottleFile, FileOf
    <3>2. f.of = "memsw" => swap
      BY <1>8, <2>1 DEF ThrottleFile, FileOf
    <3> QED
      BY <3>1, <3>2 DEF Readers!Exists
  <2>3. ~Readers!Parses(f)
    BY <2>2
  <2>4. f \in Readers!Range(Readers!Files(reading.ctrl)) \cup
                 (IF reading.fell THEN Readers!Range(Readers!ThrottleFiles) ELSE {})
    <3>1. /\ DOMAIN Readers!Files(reading.ctrl) = 1 .. Len(Readers!Files(reading.ctrl))
          /\ DOMAIN Readers!ThrottleFiles = 1 .. Len(Readers!ThrottleFiles)
      BY <1>4, FilesIs, ThrottleFilesIs
    <3>2. \/ \E k \in 1 .. Len(Readers!Files(reading.ctrl)) : f = Readers!Files(reading.ctrl)[k]
          \/ /\ reading.fell
             /\ \E k \in 1 .. Len(Readers!ThrottleFiles) : f = Readers!ThrottleFiles[k]
      BY <1>1, <1>7, <2>1 DEF Listed
    <3> HIDE DEF f
    <3> QED
      BY <3>1, <3>2 DEF Readers!Range
  <2> HIDE DEF f
  <2>5. /\ \A c : Readers!Files(c)' = Readers!Files(c)
        /\ \A x : Readers!Parses(x)' = Readers!Parses(x)
    BY <1>1, FilesSame DEF Readers!Parses, Readers!ParsesLines
  <2>6. \E x \in Readers!Range(Readers!Files(reading.ctrl)) \cup
                 (IF reading.fell THEN Readers!Range(Readers!ThrottleFiles) ELSE {}) :
           ~Readers!Parses(x)
    BY <2>3, <2>4
  <2>7. Readers!ThrottleFiles' = Readers!ThrottleFiles
    BY DEF Readers!ThrottleFiles
  <2>8. \A s : Readers!Range(s)' = Readers!Range(s)
    BY DEF Readers!Range
  <2>9. reading'.ctrl = reading.ctrl /\ reading'.fell = reading.fell
    BY <1>1, <1>3
  <2> QED
    BY <2>5, <2>6, <2>7, <2>9 DEF Readers!StatSucceeds
<1> QED
  BY <1>1, <1>5, <1>6, <1>9, ReaderKeeps

LEMMA TwoFiles ==
  ASSUME NEW n \in Nat
  PROVE  /\ \A m \in Nat : n + (m + 1) = 2 => n = 0 \/ n = 1
         /\ n + 1 = 2 => n = 1
  OBVIOUS

LEMMA ReaderParses ==
  ASSUME ReaderInv, Readers!Read, Readers!Exists(Head(reading.todo)),
         Readers!Parses(Head(reading.todo))
  PROVE  ReaderInv'
<1> DEFINE f == Head(reading.todo)
           rest == Tail(reading.todo)
           r == [reading EXCEPT !.todo = rest]
           Counts == f.name \in {"io_serviced_recursive", "throttle.io_serviced"}
<1>1. /\ reading.at = "read" /\ reading.todo # <<>> /\ reading' = r
      /\ disks' = IF Counts THEN disks \cup Readers!Entries(f) ELSE disks
      /\ size' = (size \/ (f.kind = "cfq" /\ Readers!Entries(f) # {}))
      /\ rdma' = IF f.kind = "rdma" THEN Append(rdma, plugged) ELSE rdma
      /\ fds' = fds
      /\ during' = during /\ dir' = dir /\ oddity' = oddity /\ swap' = swap /\ cfq' = cfq
      /\ ios' = ios /\ plugged' = plugged /\ plugs' = plugs /\ ignored' = ignored
  BY DEF Readers!Read, Readers!world
<1>2. /\ CallTypes(reading, disks, size, rdma, fds) /\ reading \in ReaderCall /\ ToRead(reading)
      /\ OneKind(reading, disks, size) /\ Quiet(reading, disks, size) /\ Pairs(reading, rdma)
      /\ WorldTypes
  BY DEF ReaderInv, CallTypes
<1>3. /\ reading.todo \in Seq(AFile) /\ f = reading.todo[1] /\ rest \in Seq(AFile)
      /\ Len(reading.todo) = Len(rest) + 1 /\ Len(rest) \in Nat
      /\ \A j \in 1 .. Len(rest) : rest[j] = reading.todo[j + 1]
  <2>1. reading.todo \in Seq(AFile)
    BY <1>2 DEF ReaderCall
  <2> QED
    BY <1>1, <2>1
<1> HIDE DEF f, rest
<1>4. \A j \in 1 .. Len(rest) : j + 1 \in 1 .. Len(reading.todo)
  BY <1>3
<1>5. 1 \in 1 .. Len(reading.todo) /\ \A j \in 1 .. Len(reading.todo) : j = 1 \/ j - 1 \in 1 .. Len(rest)
  BY <1>3
<1>6. \A j \in 1 .. Len(reading.todo) : j # 1 => reading.todo[j] = rest[j - 1]
  <2>1. ASSUME NEW j \in 1 .. Len(reading.todo), j # 1 PROVE reading.todo[j] = rest[j - 1]
    <3>1. j - 1 \in 1 .. Len(rest) /\ j - 1 + 1 = j
      BY <1>5, <2>1
    <3> DEFINE n == j - 1
    <3>2. rest[n] = reading.todo[n + 1]
      BY <1>3, <3>1
    <3> QED
      BY <3>1, <3>2
  <2> QED
    BY <2>1
<1>7. /\ r \in ReaderCall /\ r.at = "read" /\ r.ctrl = reading.ctrl /\ r.fell = reading.fell
      /\ r.todo = rest
  BY <1>1, <1>2, <1>3 DEF ReaderCall
<1> HIDE DEF r
<1>8. /\ fds = {} /\ reading.ctrl \in Readers!Controllers /\ reading.ctrl # "event"
  BY <1>1, <1>2 DEF CallTypes, Readers!Controllers
<1>9. f \in IF reading.fell THEN ThrottleFile ELSE FileOf(reading.ctrl)
  BY <1>1, <1>2, <1>3, <1>5 DEF ToRead
<1>10. /\ reading.fell => f.kind = "throttle" /\ f.name # "io_serviced_recursive"
       /\ ~reading.fell => /\ f.kind = "rdma" <=> reading.ctrl = "rdma"
                           /\ Counts => f.kind = "cfq" /\ f.name = "io_serviced_recursive"
                           /\ f.kind # "throttle"
       /\ reading.fell => reading.ctrl = "blkio"
  BY <1>1, <1>2, <1>9 DEF ThrottleFile, FileOf, ToRead
<1>11. f.kind \in {"kv", "uint", "list", "rdma", "cfq", "partitions", "throttle"}
  BY <1>9 DEF ThrottleFile, FileOf, AFile, Kinds
<1>12. dir \/ f.kind = "partitions"
  BY DEF Readers!Exists, f
<1>13. f.kind = "cfq" => cfq
  BY DEF Readers!Exists, f
<1>14. /\ f.kind = "cfq" => Readers!Entries(f) = CfqEntries
       /\ f.kind = "throttle" => Readers!Entries(f) = ThrottleEntries
  BY EntriesAre
<1>15. /\ \A e \in CfqEntries : e.from = "cfq" /\ \E d \in Disk : e = Entry(d, "cfq")
       /\ \A e \in ThrottleEntries :
             e.from = "throttle" /\ \E d \in Disk : e = Entry(d, "throttle")
       /\ CfqEntries = {} <=> ios \cap CfqDisk = {}
  BY <1>2, EntriesOf
<1>16. /\ reading.fell => /\ disks' = IF Counts THEN disks \cup ThrottleEntries ELSE disks
                          /\ size' = size
       /\ ~reading.fell => /\ disks' = IF Counts THEN disks \cup CfqEntries ELSE disks
                           /\ size' = (size \/ (f.kind = "cfq" /\ CfqEntries # {}))
  <2>1. size \in BOOLEAN
    BY <1>2 DEF CallTypes
  <2> HIDE DEF Counts
  <2>2. reading.fell => f.kind = "throttle" /\ f.kind # "cfq"
    BY <1>10
  <2>3. ~reading.fell => (Counts => f.kind = "cfq")
    BY <1>10
  <2> QED
    BY ONLY <1>1, <1>14, <2>1, <2>2, <2>3
<1> HIDE DEF Counts
<1>17. rdma \in Seq(Seq(Device)) /\ plugged \in Seq(Device)
  BY <1>2 DEF CallTypes, WorldTypes
<1>18. ToRead(reading')
  BY <1>1, <1>2, <1>3, <1>4, <1>7 DEF ToRead
<1>19. Listed(reading) => Listed(reading')
  <2> DEFINE In(x) == \/ \E k \in 1 .. Len(Readers!Files(reading.ctrl)) :
                             x = Readers!Files(reading.ctrl)[k]
                      \/ /\ reading.fell
                         /\ \E k \in 1 .. Len(Readers!ThrottleFiles) :
                               x = Readers!ThrottleFiles[k]
  <2> SUFFICES ASSUME Listed(reading), dir, NEW j \in 1 .. Len(rest)
               PROVE  In(rest[j])
    BY <1>1, <1>7 DEF Listed
  <2>1. \A n \in 1 .. Len(reading.todo) : In(reading.todo[n])
    BY <1>1 DEF Listed
  <2> HIDE DEF In
  <2>2. j + 1 \in 1 .. Len(reading.todo) /\ rest[j] = reading.todo[j + 1]
    BY <1>3, <1>4
  <2> QED
    BY <2>1, <2>2
<1>20. OneKind(reading', disks', size')
  BY <1>1, <1>2, <1>7, <1>10, <1>15, <1>16 DEF OneKind
<1>21. Pairs(reading', rdma') /\ Len(rdma') <= 2 /\ rdma' \in Seq(Seq(Device))
  <2>1. CASE reading.ctrl = "rdma"
    <3>1. f.kind = "rdma" /\ rdma' = Append(rdma, plugged)
      BY <1>1, <1>10, <2>1
    <3>2. /\ Len(rdma) + Len(reading.todo) = 2 /\ ~reading.fell
          /\ Len(rdma) = 1 => Before(rdma[1], plugged)
      BY <1>1, <1>2, <2>1 DEF Pairs
    <3> DEFINE rd == Append(rdma, plugged)
    <3>3. /\ rd \in Seq(Seq(Device)) /\ Len(rd) = Len(rdma) + 1 /\ Len(rdma) \in Nat
          /\ rd[Len(rdma) + 1] = plugged /\ (Len(rdma) = 1 => rd[1] = rdma[1])
      BY <1>17
    <3>4. rdma' = rd
      BY <3>1
    <3> HIDE DEF rd
    <3>5. Len(rdma) = 0 \/ Len(rdma) = 1
      <4>1. /\ Len(rdma) + Len(reading.todo) = 2 /\ Len(reading.todo) = Len(rest) + 1
            /\ Len(rest) \in Nat /\ Len(rdma) \in Nat
        BY <1>3, <3>2, <3>3
      <4>2. Len(rdma) + (Len(rest) + 1) = 2
        BY ONLY <4>1
      <4> QED
        BY ONLY <4>1, <4>2, TwoFiles
    <3>6. Len(rd) <= 2 /\ Len(rd) + Len(rest) = 2
      BY <1>3, <3>2, <3>3, <3>5
    <3>7. Before(plugged, plugged)
      BY <1>17 DEF Before
    <3>8. Len(rd) = 1 => rd[1] = plugged
      BY <3>3, <3>5
    <3>9. Len(rd) = 2 => Before(rd[1], rd[2])
      <4> SUFFICES ASSUME Len(rd) = 2 PROVE Before(rd[1], rd[2])
        OBVIOUS
      <4>1. Len(rdma) = 1 /\ rd[1] = rdma[1] /\ rd[2] = plugged
        <5>1. Len(rdma) = 1
          BY ONLY <3>3, Len(rd) = 2, TwoFiles
        <5>2. Len(rdma) + 1 = 2
          BY ONLY <5>1
        <5> QED
          BY <3>3, <5>1, <5>2
      <4> QED
        BY <3>2, <4>1
    <3>10. Len(rd) = 1 => Before(rd[1], plugged)
      BY <3>7, <3>8
    <3> QED
      BY <1>7, <1>1, <2>1, <3>2, <3>3, <3>4, <3>6, <3>9, <3>10 DEF Pairs
  <2>2. CASE reading.ctrl # "rdma"
    <3>1. f.kind # "rdma"
      BY <1>10, <2>2
    <3>2. rdma' = <<>>
      BY <1>1, <1>2, <2>2, <3>1 DEF Pairs
    <3>3. <<>> \in Seq(Seq(Device)) /\ Len(<<>>) = 0
      OBVIOUS
    <3>4. Pairs(reading', <<>>)
      BY <1>1, <1>7, <2>2, <3>3 DEF Pairs
    <3> QED
      BY <3>2, <3>3, <3>4
  <2> QED
    BY <2>1, <2>2
<1>22. CallTypes(reading', disks', size', rdma', fds')
  <2>1. \A e \in disks' : \E d \in Disk, k \in {"cfq", "throttle"} : e = Entry(d, k)
    <3>1. \A e \in disks : \E d \in Disk, k \in {"cfq", "throttle"} : e = Entry(d, k)
      BY <1>2 DEF CallTypes
    <3>2. \A e \in CfqEntries \cup ThrottleEntries :
             \E d \in Disk, k \in {"cfq", "throttle"} : e = Entry(d, k)
      BY <1>15
    <3>3. disks' \subseteq disks \cup CfqEntries \cup ThrottleEntries
      BY <1>16
    <3> QED
      BY <3>1, <3>2, <3>3
  <2>2. size' \in BOOLEAN
    BY <1>1
  <2> QED
    BY <1>1, <1>7, <1>8, <1>21, <2>1, <2>2 DEF CallTypes
<1>23. Quiet(reading', disks', size')
  <2> SUFFICES ASSUME reading.ctrl = "blkio", during = {}
               PROVE  Quiet(reading', disks', size')
    BY <1>1, <1>7 DEF Quiet
  <2>1. CASE ~reading.fell
    <3>1. /\ size => dir /\ cfq /\ ios \cap CfqDisk # {}
          /\ disks \subseteq CfqEntries
          /\ dir /\ cfq =>
               \/ \E j \in 1 .. Len(reading.todo) : reading.todo[j].name = "io_serviced_recursive"
               \/ disks = CfqEntries /\ (CfqEntries # {} => size)
      BY <1>1, <1>2, <2>1 DEF Quiet
    <3>2. /\ size' => dir /\ cfq /\ ios \cap CfqDisk # {}
      BY <1>12, <1>13, <1>15, <1>16, <2>1, <3>1
    <3>3. disks' \subseteq CfqEntries
      BY <1>16, <2>1, <3>1
    <3>4. ASSUME dir, cfq
          PROVE  \/ \E j \in 1 .. Len(rest) : rest[j].name = "io_serviced_recursive"
                 \/ disks' = CfqEntries /\ (CfqEntries # {} => size')
      <4>1. CASE f.name = "io_serviced_recursive"
        <5>1. Counts /\ f.kind = "cfq"
          BY <1>10, <2>1, <4>1 DEF Counts
        <5> QED
          BY <1>16, <2>1, <3>1, <5>1
      <4>2. CASE /\ f.name # "io_serviced_recursive"
                 /\ \E j \in 1 .. Len(reading.todo) : reading.todo[j].name = "io_serviced_recursive"
        <5>1. PICK j \in 1 .. Len(reading.todo) : reading.todo[j].name = "io_serviced_recursive"
          BY <4>2
        <5>2. j # 1
          BY <1>3, <4>2, <5>1
        <5>3. j - 1 \in 1 .. Len(rest) /\ rest[j - 1].name = "io_serviced_recursive"
          BY <1>5, <1>6, <5>1, <5>2
        <5> QED
          BY <5>3
      <4>3. CASE disks = CfqEntries /\ (CfqEntries # {} => size)
        BY <1>16, <2>1, <4>3
      <4> QED
        BY <3>1, <3>4, <4>1, <4>2, <4>3
    <3> QED
      BY <1>1, <1>7, <2>1, <3>2, <3>3, <3>4 DEF Quiet
  <2>2. CASE reading.fell
    <3>1. /\ size => dir /\ cfq /\ ios \cap CfqDisk # {}
          /\ disks \subseteq ThrottleEntries
          /\ dir /\ cfq => ios \cap CfqDisk = {}
          /\ \/ \E j \in 1 .. Len(reading.todo) : reading.todo[j].name = "throttle.io_serviced"
             \/ disks = ThrottleEntries /\ dir
      BY <1>1, <1>2, <2>2 DEF Quiet
    <3>2. disks' \subseteq ThrottleEntries
      BY <1>16, <2>2, <3>1
    <3>3. dir
      BY <1>10, <1>12, <2>2
    <3>4. \/ \E j \in 1 .. Len(rest) : rest[j].name = "throttle.io_serviced"
          \/ disks' = ThrottleEntries /\ dir
      <4>1. CASE f.name = "throttle.io_serviced"
        <5>1. Counts
          BY <4>1 DEF Counts
        <5> QED
          BY <1>16, <2>2, <3>1, <3>3, <5>1
      <4>2. CASE /\ f.name # "throttle.io_serviced"
                 /\ \E j \in 1 .. Len(reading.todo) : reading.todo[j].name = "throttle.io_serviced"
        <5>1. PICK j \in 1 .. Len(reading.todo) : reading.todo[j].name = "throttle.io_serviced"
          BY <4>2
        <5>2. j # 1
          BY <1>3, <4>2, <5>1
        <5>3. j - 1 \in 1 .. Len(rest) /\ rest[j - 1].name = "throttle.io_serviced"
          BY <1>5, <1>6, <5>1, <5>2
        <5> QED
          BY <5>3
      <4>3. CASE disks = ThrottleEntries /\ dir
        BY <1>16, <2>2, <4>3
      <4> QED
        BY <3>1, <4>1, <4>2, <4>3
    <3> QED
      BY <1>1, <1>7, <1>16, <2>2, <3>1, <3>2, <3>4 DEF Quiet
  <2> QED
    BY <2>1, <2>2
<1>24. Readers!StatSucceeds'
  BY <1>1, <1>7 DEF Readers!StatSucceeds
<1>25. Readers!SwapIsOptional => Listed(reading')
  BY <1>19 DEF ReaderInv
<1> QED
  BY <1>1, <1>18, <1>20, <1>21, <1>22, <1>23, <1>24, <1>25, ReaderKeeps

LEMMA ReaderNext ==
  ReaderInv /\ [Readers!Next]_(Readers!vars) => ReaderInv'
<1> SUFFICES ASSUME ReaderInv, [Readers!Next]_(Readers!vars) PROVE ReaderInv'
  OBVIOUS
<1>1. CASE UNCHANGED Readers!vars
  <2>1. /\ dir' = dir /\ swap' = swap /\ cfq' = cfq /\ ios' = ios /\ plugged' = plugged
        /\ plugs' = plugs /\ ignored' = ignored /\ during' = during /\ oddity' = oddity
        /\ reading' = reading /\ disks' = disks /\ size' = size /\ rdma' = rdma /\ fds' = fds
    BY <1>1 DEF Readers!vars, Readers!world
  <2>2. /\ CallTypes(reading', disks', size', rdma', fds') /\ ToRead(reading')
        /\ OneKind(reading', disks', size') /\ Quiet(reading', disks', size')
        /\ Pairs(reading', rdma')
        /\ Readers!SwapIsOptional => Listed(reading') /\ Readers!StatSucceeds
    BY <2>1 DEF ReaderInv
  <2> QED
    BY <2>1, <2>2, SucceedsSame, ReaderKeeps
<1>2. CASE Readers!Read
  BY <1>2, ReaderFails, ReaderParses
<1>3. CASE Readers!Rmdir
  BY <1>3, ReaderRmdir
<1>4. ASSUME NEW d \in Disk, Readers!IoStarts(d) PROVE ReaderInv'
  BY <1>4, ReaderIo
<1>5. ASSUME NEW d \in Device, Readers!Plug(d) PROVE ReaderInv'
  BY <1>5, ReaderPlug
<1>6. ASSUME NEW c \in Readers!Controllers, Readers!Begin(c) PROVE ReaderInv'
  BY <1>6, ReaderBegin
<1>7. CASE Readers!FallBack
  BY <1>7, ReaderFallBack
<1>8. CASE Readers!Return
  BY <1>8, ReaderReturn
<1>9. CASE Readers!Register
  BY <1>9, ReaderRegister
<1>10. CASE Readers!OpenEvent \/ Readers!WriteControl
  BY <1>10, ReaderOpens
<1> QED
  BY <1>1, <1>2, <1>3, <1>4, <1>5, <1>6, <1>7, <1>8, <1>9, <1>10 DEF Readers!Next

LEMMA ReaderMatches ==
  ReaderInv => Readers!ListsMatch
<1> SUFFICES ASSUME ReaderInv, reading.at = "nil" PROVE Readers!ListsMatch
  BY DEF Readers!ListsMatch
<1>1. /\ CallTypes(reading, disks, size, rdma, fds) /\ WorldTypes
      /\ OneKind(reading, disks, size) /\ Quiet(reading, disks, size) /\ Pairs(reading, rdma)
  BY DEF ReaderInv
<1>2. \A e, f \in disks : e.disk = f.disk => e = f
  <2>1. \A e \in disks : \E d \in Disk, k \in {"cfq", "throttle"} : e = Entry(d, k)
    BY <1>1 DEF CallTypes
  <2>2. \A d, k : Entry(d, k).disk = d /\ Entry(d, k).from = k
    BY DEF Entry
  <2>3. \A e \in disks : e = Entry(e.disk, e.from)
    BY <2>1, <2>2
  <2>4. \A e, f \in disks : e.from = f.from
    BY <1>1 DEF OneKind
  <2> QED
    BY <2>3, <2>4
<1>3. ASSUME reading.ctrl = "blkio", during = {}
      PROVE  disks = {[disk |-> d, name |-> Readers!NameOf(d),
                       from |-> IF cfq /\ ios \cap CfqDisk # {} THEN "cfq" ELSE "throttle"]
                        : d \in IF cfq /\ ios \cap CfqDisk # {} THEN ios \cap CfqDisk ELSE ios}
  <2>1. Len(reading.todo) = 0 /\ (size \/ reading.fell)
    BY <1>1, <1>3 DEF Quiet
  <2>2. CASE ~reading.fell
    <3>1. dir /\ cfq /\ ios \cap CfqDisk # {} /\ disks = CfqEntries
      BY <1>1, <1>3, <2>1, <2>2 DEF Quiet
    <3> QED
      BY <3>1 DEF CfqEntries, Entry
  <2>3. CASE reading.fell
    <3>1. disks = ThrottleEntries /\ ~(cfq /\ ios \cap CfqDisk # {})
      BY <1>1, <1>3, <2>1, <2>3 DEF Quiet
    <3> QED
      BY <3>1 DEF ThrottleEntries, Entry
  <2> QED
    BY <2>2, <2>3
<1>4. ASSUME Len(rdma) = 2, ~({"plug", "unplug"} \subseteq during) PROVE rdma[1] = rdma[2]
  <2> DEFINE s == rdma[1]
             t == rdma[2]
  <2>1. s \in Seq(Device) /\ t \in Seq(Device)
    <3>1. rdma \in Seq(Seq(Device)) /\ 1 \in 1 .. Len(rdma) /\ 2 \in 1 .. Len(rdma)
      BY <1>1, <1>4 DEF CallTypes
    <3> QED
      BY ONLY <3>1
  <2>2. Len(s) = Len(t) /\ Before(s, t)
    BY <1>1, <1>4 DEF Pairs
  <2> HIDE DEF s, t
  <2>3. ASSUME "plug" \notin during PROVE s = t
    BY <2>2, <2>3 DEF Before
  <2>4. ASSUME "unplug" \notin during PROVE s = t
    <3>1. \A j \in 1 .. Len(s) : s[j] = t[j]
      BY <2>2, <2>4 DEF Before
    <3> QED
      BY <2>1, <2>2, <3>1
  <2>5. s = t
    BY <1>4, <2>3, <2>4
  <2> QED
    BY <2>5 DEF s, t
<1> QED
  BY <1>2, <1>3, <1>4 DEF Readers!ListsMatch

LEMMA ReaderTypes ==
  ReaderInv => Readers!TypeOK
<1> SUFFICES ASSUME ReaderInv PROVE Readers!TypeOK
  OBVIOUS
<1>1. CallTypes(reading, disks, size, rdma, fds) /\ WorldTypes
  BY DEF ReaderInv
<1>2. Readers!NoName \in Readers!Names
  BY DEF Readers!Names
<1>3. \A d \in Disk : Readers!NameOf(d) \in Readers!Names
  <2> SUFFICES ASSUME NEW d \in Disk PROVE Readers!NameOf(d) \in Readers!Names
    OBVIOUS
  <2> DEFINE here == {n \in DOMAIN Partitions : Partitions[n].disk = d}
  <2>1. CASE here = {}
    BY <1>2, <2>1 DEF Readers!NameOf
  <2>2. CASE here # {}
    <3>1. here \subseteq Nat
      BY ReaderFacts
    <3>2. \E n \in here : \A m \in here : n <= m
      BY <2>2, <3>1, Least
    <3> DEFINE n == CHOOSE n \in here : \A m \in here : n <= m
    <3>3. n \in here
      BY <3>2
    <3>4. Readers!NameOf(d) = Partitions[n].name
      BY <2>2 DEF Readers!NameOf
    <3>5. n \in DOMAIN Partitions
      BY <3>3
    <3> HIDE DEF n
    <3> QED
      BY <3>4, <3>5 DEF Readers!Names
  <2> QED
    BY <2>1, <2>2
<1>4. disks \subseteq [disk : Disk, name : Readers!Names, from : {"cfq", "throttle"}]
  BY <1>1, <1>3 DEF CallTypes, Entry
<1>5. Readers!Range(plugged) \subseteq Device
  BY <1>1 DEF WorldTypes, Readers!Range
<1> QED
  BY <1>1, <1>4, <1>5 DEF CallTypes, WorldTypes, ReaderCall, Readers!TypeOK

LEMMA ReaderBehaves ==
  SpecAll => Readers!Init /\ [][Readers!Next]_(Readers!vars)
<1>1. StartAll => Readers!Init
  BY DEF StartAll
<1>2. [NextAll]_allVars => [Readers!Next]_(Readers!vars)
  BY DEF NextAll, allVars, readerVars, Readers!vars, Readers!world, Others, CpusetStep,
         MemoryStep, DevicesStep, ControlStep, ReaderStep, ResourceStep, StatStep
<1> QED
  BY <1>1, <1>2, PTL DEF SpecAll

LEMMA ReaderHolds ==
  SpecAll => []ReaderInv
  BY ReaderStarts, ReaderNext, ReaderBehaves, PTL

(* memoryEvent (memory.go:464) leaves the eventfd open that it returns, and *)
(* none when it returns an error, whenever the cgroup is removed.          *)
THEOREM NothingLeaks == SpecAll => []NoLeak
<1>1. ReaderInv => NoLeak
  BY DEF ReaderInv, CallTypes, NoLeak, Readers!NoLeak
<1> QED
  BY <1>1, ReaderHolds, PTL

(* The lists of a Stat of package cgroup1: one entry for a disk, those of  *)
(* the scheduler CFQ when it had any (blkio.go:100), and the RDMA devices  *)
(* paired with their own limits (rdma.go:98), as long as none was plugged  *)
(* and another unplugged between the two files.                            *)
THEOREM ListsBelong == SpecAll => []ListsMatch
<1>1. ReaderInv => ListsMatch
  BY ReaderMatches DEF ListsMatch
<1> QED
  BY <1>1, ReaderHolds, PTL

(* A Stat of package cgroup1 whose cgroup is there fails only on a file it *)
(* cannot parse, on hosts where swap is accounted for, made optional or    *)
(* ignored (memory.go:178).                                                *)
THEOREM ReadersSucceed ==
  ASSUME Readers!SwapIsOptional
  PROVE  SpecAll => []StatSucceeds
<1>1. ReaderInv => StatSucceeds
  BY DEF ReaderInv, StatSucceeds
<1> QED
  BY <1>1, ReaderHolds, PTL

-----------------------------------------------------------------------------
(* The files of the statistics of package cgroup2.                         *)
StatNames ==
    {"pids.current", "pids.max", "cpu.stat", "cpu.pressure", "memory.stat", "memory.current",
     "memory.max", "memory.peak", "memory.swap.current", "memory.swap.max", "memory.swap.peak",
     "memory.pressure", "memory.events", "io.stat", "io.pressure", "rdma.current", "rdma.max"}

StatKinds == {"uint", "kv", "kv1", "psi", "io", "rdma"}

StatFile ==
    [name : StatNames, size : {<<0, "B">>}, part : Stats!Part,
     ctrl : Stats!Controllers \cup {"core"}, kind : StatKinds]

PlainFile ==
    {f \in StatFile :
        /\ f.part # "hugetlb"
        /\ f.part = "cpu" => f.ctrl = "core"
        /\ f.part = "events" => f.ctrl = "memory"
        /\ f.kind = "kv" => f.part \in {"cpu", "events"} \/ (f.part = "memory" /\ f.ctrl = "memory")}

PageSizesOf == {Stats!HugePageSize(k) : k \in HugePages}

HugeFile ==
    [name : {"hugetlb.max", "hugetlb.current", "hugetlb.events"}, size : PageSizesOf,
     part : {"hugetlb"}, ctrl : {"hugetlb"}, kind : {"uint", "kv1"}]

LEMMA StatFacts ==
  HugePages \subseteq Nat \ {0} /\ IsFiniteSet(HugePages) /\ Masks \subseteq SUBSET Stats!Part
  /\ Changes \in Nat
  BY SettingsAssumption DEF Stats!Stat2Assumption, Stats!IsFiniteSet, IsFiniteSet

LEMMA FIs ==
  ASSUME NEW n \in StatNames, NEW p \in Stats!Part \ {"hugetlb"},
         NEW c \in Stats!Controllers \cup {"core"}, NEW k \in StatKinds,
         p = "cpu" => c = "core", p = "events" => c = "memory",
         k = "kv" => p \in {"cpu", "events"} \/ (p = "memory" /\ c = "memory")
  PROVE  Stats!F(n, p, c, k) \in PlainFile
<1> DEFINE f == [name |-> n, size |-> <<0, "B">>, part |-> p, ctrl |-> c, kind |-> k]
<1>1. f \in StatFile
  BY DEF StatFile
<1>2. f.part = p /\ f.ctrl = c /\ f.kind = k
  OBVIOUS
<1>3. Stats!F(n, p, c, k) = f
  BY DEF Stats!F
<1> HIDE DEF f
<1> QED
  BY <1>1, <1>2, <1>3 DEF PlainFile

LEMMA StatFilesIs == Stats!StatFiles \in Seq(PlainFile)
<1> DEFINE G(n, p, c, k) == Stats!F(n, p, c, k)
<1>1. {"pids", "cpu", "memory", "events", "io", "rdma"} \subseteq Stats!Part \ {"hugetlb"}
  BY DEF Stats!Part
<1>2. {"pids", "memory", "io", "rdma", "core"} \subseteq Stats!Controllers \cup {"core"}
  BY DEF Stats!Controllers
<1>3. \A n \in {"pids.current", "pids.max"} : G(n, "pids", "pids", "uint") \in PlainFile
  BY <1>1, <1>2, FIs DEF StatNames, StatKinds
<1>4. /\ G("cpu.stat", "cpu", "core", "kv") \in PlainFile
      /\ G("cpu.pressure", "cpu", "core", "psi") \in PlainFile
  BY <1>1, <1>2, FIs DEF StatNames, StatKinds
<1>5. /\ \A n \in {"memory.current", "memory.max", "memory.peak", "memory.swap.current",
                   "memory.swap.max", "memory.swap.peak"} :
            G(n, "memory", "memory", "uint") \in PlainFile
      /\ G("memory.stat", "memory", "memory", "kv") \in PlainFile
      /\ G("memory.pressure", "memory", "core", "psi") \in PlainFile
      /\ G("memory.events", "events", "memory", "kv") \in PlainFile
  BY <1>1, <1>2, FIs DEF StatNames, StatKinds
<1>6. /\ G("io.stat", "io", "io", "io") \in PlainFile
      /\ G("io.pressure", "io", "core", "psi") \in PlainFile
      /\ \A n \in {"rdma.current", "rdma.max"} : G(n, "rdma", "rdma", "rdma") \in PlainFile
  BY <1>1, <1>2, FIs DEF StatNames, StatKinds
<1>7. Stats!PidsFiles \in Seq(PlainFile) /\ Stats!CpuFiles \in Seq(PlainFile)
  BY <1>3, <1>4 DEF Stats!PidsFiles, Stats!CpuFiles
<1>8. Stats!MemoryFiles \in Seq(PlainFile) /\ Stats!EventFiles \in Seq(PlainFile)
  BY <1>5 DEF Stats!MemoryFiles, Stats!EventFiles
<1>9. Stats!IoFiles \in Seq(PlainFile) /\ Stats!RdmaFiles \in Seq(PlainFile)
  BY <1>6 DEF Stats!IoFiles, Stats!RdmaFiles
<1> QED
  BY <1>7, <1>8, <1>9 DEF Stats!StatFiles

LEMMA HugeFilesIs ==
  ASSUME NEW s \in Seq(PageSizesOf)
  PROVE  Stats!HugeFiles(s) \in Seq(HugeFile)
<1> DEFINE G(x) == << Stats!Huge(x, "hugetlb.max", "uint"),
                      Stats!Huge(x, "hugetlb.current", "uint"),
                      Stats!Huge(x, "hugetlb.events", "kv1") >>
           g == [j \in 1 .. Len(s) |-> G(s[j])]
<1>1. ASSUME NEW x \in PageSizesOf, NEW n \in {"hugetlb.max", "hugetlb.current", "hugetlb.events"},
             NEW k \in {"uint", "kv1"}
      PROVE  Stats!Huge(x, n, k) \in HugeFile
  <2> DEFINE f == [name |-> n, size |-> <<0, "B">>, part |-> "hugetlb", ctrl |-> "hugetlb",
                   kind |-> k]
  <2>1. Stats!Huge(x, n, k) = [f EXCEPT !.size = x]
    BY DEF Stats!Huge, Stats!F
  <2>2. [f EXCEPT !.size = x] = [name |-> n, size |-> x, part |-> "hugetlb", ctrl |-> "hugetlb",
                                 kind |-> k]
    OBVIOUS
  <2> QED
    BY <2>1, <2>2 DEF HugeFile
<1>2. \A x \in PageSizesOf : G(x) \in Seq(HugeFile)
  BY <1>1
<1> HIDE DEF G
<1>3. \A j \in 1 .. Len(s) : s[j] \in PageSizesOf
  OBVIOUS
<1>4. g \in Seq(Seq(HugeFile))
  BY <1>2, <1>3
<1>5. Stats!HugeFiles(s) = FlattenSeq(g)
  BY DEF Stats!HugeFiles, Stats!FlattenSeq, FlattenSeq, G
<1> HIDE DEF g
<1> QED
  BY <1>4, <1>5, FlattenIn

(* The two names of a size of huge pages agree.                            *)
LEMMA SizesAgree ==
  ASSUME NEW k \in Nat \ {0}
  PROVE  Stats!KernelSize(k) = Stats!HugePageSize(k)
<1> DEFINE U == {<<1048576, "GB">>, <<1024, "MB">>, <<1, "KB">>}
           Fits(u) == u[1] <= k /\ \A v \in {1048576, 1024, 1} : v <= k => v <= u[1]
           big == CHOOSE u \in U : Fits(u)
<1>1. Stats!KernelSize(k) = <<k \div big[1], big[2]>>
  BY DEF Stats!KernelSize
<1>2. CASE k >= 1048576
  <2>1. \A u \in U : Fits(u) <=> u = <<1048576, "GB">>
    BY <1>2
  <2>2. big = <<1048576, "GB">>
    BY <2>1
  <2> HIDE DEF big
  <2> QED
    BY <1>1, <1>2, <2>2 DEF Stats!HugePageSize
<1>3. CASE k >= 1024 /\ k < 1048576
  <2>1. \A u \in U : Fits(u) <=> u = <<1024, "MB">>
    BY <1>3
  <2>2. big = <<1024, "MB">>
    BY <2>1
  <2> HIDE DEF big
  <2> QED
    BY <1>1, <1>3, <2>2 DEF Stats!HugePageSize
<1>4. CASE k < 1024
  <2>1. \A u \in U : Fits(u) <=> u = <<1, "KB">>
    BY <1>4
  <2>2. big = <<1, "KB">>
    BY <2>1
  <2>3. k \div 1 = k
    OBVIOUS
  <2> HIDE DEF big
  <2> QED
    BY <1>1, <1>4, <2>2, <2>3 DEF Stats!HugePageSize
<1> QED
  BY <1>2, <1>3, <1>4

LEMMA PageSizesIs ==
  /\ PageSizesOf = {Stats!KernelSize(k) : k \in HugePages}
  /\ Stats!SetToSeq(PageSizesOf) \in Seq(PageSizesOf)
<1>1. PageSizesOf = {Stats!KernelSize(k) : k \in HugePages}
  BY SizesAgree, StatFacts DEF PageSizesOf
<1>2. IsFiniteSet(PageSizesOf)
  <2> DEFINE f == [k \in HugePages |-> Stats!HugePageSize(k)]
  <2>1. f \in Surjection(HugePages, PageSizesOf)
    BY DEF Surjection, PageSizesOf
  <2> QED
    BY <2>1, StatFacts, FS_Surjection
<1>3. Stats!SetToSeq(PageSizesOf) = SetToSeq(PageSizesOf)
  BY DEF Stats!SetToSeq, SetToSeq, Stats!Cardinality, Cardinality, Stats!IsInjective, IsInjective
<1> QED
  BY <1>1, <1>2, <1>3, SetToSeqIs

HugeList == Stats!HugeFiles(Stats!SetToSeq(PageSizesOf))

(* All files, by their place in the list they are of.                      *)
LEMMA AllFilesAre ==
  /\ HugeList \in Seq(HugeFile)
  /\ \A f \in Stats!AllFiles :
        \/ f \in PlainFile /\ \E j \in 1 .. Len(Stats!StatFiles) : f = Stats!StatFiles[j]
        \/ f \in HugeFile /\ \E j \in 1 .. Len(HugeList) : f = HugeList[j]
  /\ \A j \in 1 .. Len(Stats!StatFiles) : Stats!StatFiles[j] \in Stats!AllFiles
  /\ \A j \in 1 .. Len(HugeList) : HugeList[j] \in Stats!AllFiles
<1> DEFINE s == Stats!StatFiles
           h == HugeList
<1>1. h \in Seq(HugeFile)
  BY PageSizesIs, HugeFilesIs DEF HugeList
<1>2. s \in Seq(PlainFile)
  BY StatFilesIs
<1>3. Stats!AllFiles = Stats!Range(s) \cup Stats!Range(h)
  BY PageSizesIs DEF Stats!AllFiles, HugeList
<1> HIDE DEF s, h
<1>4. DOMAIN s = 1 .. Len(s) /\ DOMAIN h = 1 .. Len(h)
  BY <1>1, <1>2
<1>5. /\ \A f \in Stats!AllFiles : \/ \E j \in 1 .. Len(s) : f = s[j]
                                   \/ \E j \in 1 .. Len(h) : f = h[j]
      /\ \A j \in 1 .. Len(s) : s[j] \in Stats!AllFiles
      /\ \A j \in 1 .. Len(h) : h[j] \in Stats!AllFiles
  BY <1>3, <1>4 DEF Stats!Range
<1>6. /\ \A j \in 1 .. Len(s) : s[j] \in PlainFile
      /\ \A j \in 1 .. Len(h) : h[j] \in HugeFile
  BY <1>1, <1>2
<1>7. /\ \A f \in Stats!AllFiles : \/ f \in PlainFile /\ \E j \in 1 .. Len(s) : f = s[j]
                                   \/ f \in HugeFile /\ \E j \in 1 .. Len(h) : f = h[j]
  BY <1>5, <1>6
<1> QED
  BY <1>1, <1>5, <1>7 DEF s, h

-----------------------------------------------------------------------------
(* The statistics of package cgroup2.                                      *)
StatCall ==
    [at : {"idle", "open", "read", "nil", "err"}, mask : SUBSET Stats!Part,
     todo : Seq(Stats!AllFiles), more : BOOLEAN]

StatTypes ==
    /\ enabled \subseteq Stats!Controllers \cup {"core"} /\ ("core" \notin enabled => enabled = {})
    /\ toggles \in 0 .. Changes /\ odd \in Oddities \cup {"none"}
    /\ sizes \in {<<>>, << <<>> >>, << Stats!SetToSeq(PageSizesOf) >>}
    /\ torn \in BOOLEAN /\ calm \in BOOLEAN

(* What is to be read was asked for; a file that is open is there as long  *)
(* as nothing happens.                                                     *)
StatCallTypes(r, v) ==
    /\ r \in StatCall
    /\ DOMAIN v \subseteq Stats!AllFiles /\ \A f \in DOMAIN v : v[f] \in Stats!Reading
    /\ r.at = "read" => r.todo # <<>>
    /\ \A j \in 1 .. Len(r.todo) :
          \/ r.todo[j].kind # "kv"
          \/ \E k \in 1 .. Len(Stats!Files(r.mask)) : r.todo[j] = Stats!Files(r.mask)[k]
    /\ r.at = "nil" => r.todo = <<>> /\ ~r.more

Expected(f, mask) ==
    f.part \in mask /\ f.ctrl \in enabled /\ Stats!PartIsOn(f) /\ f.name # odd

Full(f, v) == f \in DOMAIN v /\ v[f] = "full"

(* What is wanted has been read, or is still to be read.                   *)
NoneLost(r, v, known) ==
    r.at \in {"open", "read", "nil"} /\ calm =>
      \A f \in Stats!AllFiles :
         Expected(f, r.mask) =>
           \/ f.part = "hugetlb" /\ (r.more \/ known = << <<>> >>)
           \/ \E j \in 1 .. Len(r.todo) : r.todo[j] = f
           \/ Full(f, v)

StatInv ==
    /\ StatTypes /\ StatCallTypes(stat, read) /\ NoneLost(stat, read, sizes)
    /\ stat.at = "read" /\ calm => ~torn
    /\ Stats!FailsOnlyTorn

LEMMA FilesAsked ==
  ASSUME NEW mask
  PROVE  /\ Stats!Files(mask) \in Seq(Stats!AllFiles)
         /\ \A f \in PlainFile : \A j \in 1 .. Len(Stats!StatFiles) :
               f = Stats!StatFiles[j] /\ f.part \in mask =>
                 \E k \in 1 .. Len(Stats!Files(mask)) : Stats!Files(mask)[k] = f
         /\ \A j \in 1 .. Len(Stats!Files(mask)) : Stats!Files(mask)[j].part \in mask
<1> DEFINE s == Stats!StatFiles
           S == {f \in Stats!Range(s) : f.part \in mask}
<1>1. Stats!Files(mask) = Selected(s, S)
  BY DEF Stats!Files, Stats!Selected, Selected
<1>2. s \in Seq(PlainFile) /\ \A j \in 1 .. Len(s) : s[j] \in Stats!AllFiles
  BY StatFilesIs, AllFilesAre
<1> HIDE DEF s
<1>3. s \in Seq(Stats!AllFiles) /\ DOMAIN s = 1 .. Len(s)
  BY <1>2
<1>4. \A j \in 1 .. Len(s) : s[j].part \in mask => s[j] \in S
  BY <1>3 DEF Stats!Range
<1>5. \A f \in S : f.part \in mask
  OBVIOUS
<1> HIDE DEF S
<1>6. /\ Selected(s, S) \in Seq(Stats!AllFiles)
      /\ \A k \in 1 .. Len(Selected(s, S)) :
            \E j \in 1 .. Len(s) : Selected(s, S)[k] = s[j] /\ s[j] \in S
      /\ \A j \in 1 .. Len(s) :
            s[j] \in S => \E k \in 1 .. Len(Selected(s, S)) : Selected(s, S)[k] = s[j]
  BY <1>3, SelectedIs, SMTT(60)
<1> QED
  BY <1>1, <1>4, <1>5, <1>6 DEF s

(* The files of huge pages have no keys, and all are listed.               *)
LEMMA KindsAre ==
  /\ \A f \in HugeFile : f.kind # "kv" /\ f.part = "hugetlb" /\ f.ctrl = "hugetlb"
  /\ \A f \in PlainFile : f.part # "hugetlb" /\ f.part \in Stats!Part
  /\ \A f \in PlainFile \cup HugeFile : f.kind \in StatKinds
  BY DEF HugeFile, PlainFile, StatFile, StatKinds

LEMMA StatStarts ==
  ASSUME Stats!Init
  PROVE  StatInv
<1> DEFINE r == [at |-> "idle", mask |-> {}, todo |-> <<>>, more |-> FALSE]
<1>1. /\ enabled = Stats!Controllers \cup {"core"} /\ toggles = 0 /\ odd \in Oddities \cup {"none"}
      /\ sizes = <<>> /\ stat = r /\ read = <<>> /\ torn = FALSE /\ calm = TRUE
  BY DEF Stats!Init
<1>2. r \in StatCall /\ r.at = "idle" /\ r.todo = <<>>
  BY DEF StatCall
<1> HIDE DEF r
<1>3. StatTypes
  <2>1. 0 \in 0 .. Changes
    BY StatFacts
  <2>2. "core" \in enabled
    BY <1>1
  <2> QED
    BY <1>1, <2>1, <2>2 DEF StatTypes
<1>4. StatCallTypes(r, <<>>)
  BY <1>2 DEF StatCallTypes
<1>5. NoneLost(r, <<>>, <<>>)
  BY <1>2 DEF NoneLost
<1> QED
  BY <1>1, <1>2, <1>3, <1>4, <1>5 DEF StatInv, Stats!FailsOnlyTorn

(* The others: whatever they do, it is no longer calm.                     *)
LEMMA StatOthers ==
  ASSUME StatInv, Stats!Rmdir \/ \E c \in Stats!Controllers : Stats!Toggle(c)
  PROVE  StatInv'
<1>1. /\ torn' \in BOOLEAN /\ calm' = FALSE /\ odd' = odd /\ sizes' = sizes /\ stat' = stat
      /\ read' = read
  BY DEF Stats!Rmdir, Stats!Toggle, Stats!SetOn
<1>2. /\ enabled' \subseteq Stats!Controllers \cup {"core"}
      /\ "core" \notin enabled' => enabled' = {}
  BY DEF Stats!Rmdir, Stats!Toggle, Stats!SetOn, Stats!Controllers, StatInv, StatTypes
<1>3. toggles' \in 0 .. Changes
  <2>1. toggles' = toggles \/ (toggles < Changes /\ toggles' = toggles + 1)
    BY DEF Stats!Rmdir, Stats!Toggle
  <2>2. toggles \in 0 .. Changes
    BY DEF StatInv, StatTypes
  <2> QED
    BY <2>1, <2>2, StatFacts
<1>4. StatTypes'
  BY <1>1, <1>2, <1>3 DEF StatInv, StatTypes
<1>5. StatCallTypes(stat, read)'
  BY <1>1 DEF StatInv, StatCallTypes
<1>6. NoneLost(stat, read, sizes)' /\ Stats!FailsOnlyTorn'
  BY <1>1 DEF NoneLost, Stats!FailsOnlyTorn
<1> QED
  BY <1>1, <1>4, <1>5, <1>6 DEF StatInv

(* The steps of a call, which leave the cgroup as it is.                   *)
LEMMA StatKeeps ==
  ASSUME StatInv, enabled' = enabled, toggles' = toggles, odd' = odd,
         sizes' \in {<<>>, << <<>> >>, << Stats!SetToSeq(PageSizesOf) >>},
         torn' \in BOOLEAN, calm' = calm, StatCallTypes(stat', read'),
         NoneLost(stat', read', sizes'), stat'.at = "read" /\ calm => ~torn',
         stat'.at = "err" /\ calm =>
            \E k \in 1 .. Len(Stats!Files(stat'.mask)) :
               Stats!Files(stat'.mask)[k].kind = "kv" /\ Stats!Files(stat'.mask)[k].name = odd
  PROVE  StatInv'
<1>1. StatTypes' /\ StatCallTypes(stat, read)'
  BY DEF StatInv, StatTypes, StatCallTypes
<1>2. NoneLost(stat, read, sizes)'
  BY DEF NoneLost, Expected, Full, Stats!PartIsOn
<1>3. Stats!FailsOnlyTorn'
  <2> SUFFICES ASSUME stat'.at = "err", calm'
               PROVE  \E f \in Stats!Range(Stats!Files(stat'.mask)) : f.kind = "kv" /\ f.name = odd'
    BY DEF Stats!FailsOnlyTorn
  <2> DEFINE s == Stats!Files(stat'.mask)
  <2>1. s \in Seq(Stats!AllFiles)
    BY FilesAsked
  <2>2. \E k \in 1 .. Len(s) : s[k].kind = "kv" /\ s[k].name = odd
    OBVIOUS
  <2> HIDE DEF s
  <2>3. DOMAIN s = 1 .. Len(s)
    BY <2>1
  <2>4. \E f \in Stats!Range(s) : f.kind = "kv" /\ f.name = odd
    BY <2>2, <2>3 DEF Stats!Range
  <2> QED
    BY <2>4 DEF s
<1> QED
  BY <1>1, <1>2, <1>3 DEF StatInv

LEMMA StatBegin ==
  ASSUME StatInv, Stats!Begin
  PROVE  StatInv'
<1>1. PICK mask \in Masks :
         stat' = [at |-> "open", mask |-> mask, todo |-> Stats!Files(mask),
                  more |-> "hugetlb" \in mask]
  BY DEF Stats!Begin
<1>2. /\ read' = <<>> /\ torn' = FALSE /\ calm' = TRUE /\ enabled' = enabled
      /\ toggles' = toggles /\ odd' = odd /\ sizes' = sizes
  BY DEF Stats!Begin, Stats!world
<1> DEFINE todo == Stats!Files(mask)
           r == [at |-> "open", mask |-> mask, todo |-> todo, more |-> "hugetlb" \in mask]
<1>3. mask \in SUBSET Stats!Part
  BY StatFacts
<1>4. /\ todo \in Seq(Stats!AllFiles)
      /\ \A f \in PlainFile : \A j \in 1 .. Len(Stats!StatFiles) :
            f = Stats!StatFiles[j] /\ f.part \in mask => \E k \in 1 .. Len(todo) : todo[k] = f
  BY FilesAsked
<1>5. stat' = r /\ todo = Stats!Files(mask)
  BY <1>1
<1> HIDE DEF todo
<1>6. /\ r \in StatCall /\ r.at = "open" /\ r.mask = mask /\ r.todo = todo
      /\ r.more = ("hugetlb" \in mask)
  BY <1>3, <1>4 DEF StatCall
<1> HIDE DEF r
<1>7. StatTypes'
  BY <1>2 DEF StatInv, StatTypes
<1>8. StatCallTypes(stat, read)'
  <2>1. StatCallTypes(r, <<>>)
    BY <1>5, <1>6 DEF StatCallTypes
  <2> QED
    BY <1>2, <1>5, <2>1 DEF StatCallTypes
<1>9. NoneLost(stat, read, sizes)'
  <2> SUFFICES ASSUME NEW f \in Stats!AllFiles, f.part \in mask
               PROVE  \/ f.part = "hugetlb" /\ r.more
                      \/ \E j \in 1 .. Len(todo) : todo[j] = f
    BY <1>5, <1>6 DEF NoneLost, Expected
  <2>1. CASE f \in PlainFile /\ \E j \in 1 .. Len(Stats!StatFiles) : f = Stats!StatFiles[j]
    BY <1>4, <2>1
  <2>2. CASE f \in HugeFile
    BY <1>6, <2>2, KindsAre
  <2> QED
    BY <2>1, <2>2, AllFilesAre
<1> QED
  BY <1>2, <1>5, <1>6, <1>7, <1>8, <1>9 DEF StatInv, Stats!FailsOnlyTorn

LEMMA GivesIs ==
  ASSUME NEW f, NEW v, Stats!Gives(f, v)
  PROVE  /\ DOMAIN read' = DOMAIN read \cup {f} /\ read'[f] = v
         /\ \A g \in DOMAIN read : g # f => read'[g] = read[g]
  BY DEF Stats!Gives

(* A file is done with: it is given, and no other that is expected is left *)
(* out.                                                                    *)
LEMMA StatAdvances ==
  ASSUME StatInv, stat.at \in {"open", "read"},
         NEW f \in Stats!AllFiles, NEW v \in Stats!Reading, Stats!Gives(f, v),
         NEW r \in StatCall, r.at = "open", r.mask = stat.mask, r.more = stat.more,
         \A k \in 1 .. Len(r.todo) : \E j \in 1 .. Len(stat.todo) : r.todo[k] = stat.todo[j],
         calm /\ Expected(f, stat.mask) => v = "full",
         calm => \A j \in 1 .. Len(stat.todo) :
                    Expected(stat.todo[j], stat.mask) =>
                       stat.todo[j] = f \/ \E k \in 1 .. Len(r.todo) : r.todo[k] = stat.todo[j]
  PROVE  StatCallTypes(r, read') /\ NoneLost(r, read', sizes)
<1>1. /\ DOMAIN read' = DOMAIN read \cup {f} /\ read'[f] = v
      /\ \A g \in DOMAIN read : g # f => read'[g] = read[g]
  BY GivesIs
<1>2. StatCallTypes(stat, read) /\ NoneLost(stat, read, sizes)
  BY DEF StatInv
<1>3. StatCallTypes(r, read')
  <2>1. DOMAIN read' \subseteq Stats!AllFiles /\ \A g \in DOMAIN read' : read'[g] \in Stats!Reading
    BY <1>1, <1>2 DEF StatCallTypes
  <2>2. \A k \in 1 .. Len(r.todo) :
          \/ r.todo[k].kind # "kv"
          \/ \E n \in 1 .. Len(Stats!Files(r.mask)) : r.todo[k] = Stats!Files(r.mask)[n]
    BY <1>2 DEF StatCallTypes
  <2> QED
    BY <2>1, <2>2 DEF StatCallTypes
<1>4. NoneLost(r, read', sizes)
  <2> SUFFICES ASSUME calm, NEW g \in Stats!AllFiles, Expected(g, stat.mask)
               PROVE  \/ g.part = "hugetlb" /\ (r.more \/ sizes = << <<>> >>)
                      \/ \E j \in 1 .. Len(r.todo) : r.todo[j] = g
                      \/ Full(g, read')
    BY DEF NoneLost
  <2>1. \/ g.part = "hugetlb" /\ (stat.more \/ sizes = << <<>> >>)
        \/ \E j \in 1 .. Len(stat.todo) : stat.todo[j] = g
        \/ Full(g, read)
    BY <1>2 DEF NoneLost
  <2>2. CASE g = f
    BY <1>1, <2>2 DEF Full
  <2>3. CASE g # f /\ Full(g, read)
    BY <1>1, <2>3 DEF Full
  <2>4. CASE g # f /\ \E j \in 1 .. Len(stat.todo) : stat.todo[j] = g
    BY <2>4
  <2> QED
    BY <2>1, <2>2, <2>3, <2>4
<1> QED
  BY <1>3, <1>4

LEMMA ContentIs ==
  ASSUME NEW f \in Stats!AllFiles, NEW there \in BOOLEAN
  PROVE  /\ Stats!Content(f, there) \in Stats!Reading
         /\ there /\ f.name # odd => Stats!Content(f, there) = "full"
<1>1. f.kind \in StatKinds
  BY AllFilesAre, KindsAre
<1>2. Stats!Content(f, there) \in Stats!Reading
  BY <1>1 DEF Stats!Content, Stats!Reading, StatKinds, Stats!StatFileContent,
     Stats!KVStatsFileContent, Stats!ReadIoStats, Stats!RdmaStats, Stats!StatPSIFromFile
<1>3. ASSUME there, f.name # odd PROVE Stats!Content(f, there) = "full"
  BY <1>1, <1>3 DEF Stats!Content, Stats!ParseKV, StatKinds, Stats!StatFileContent,
     Stats!KVStatsFileContent, Stats!ReadIoStats, Stats!RdmaStats, Stats!StatPSIFromFile
<1> QED
  BY <1>2, <1>3

(* The head of what is to be read, and what follows it.                    *)
LEMMA StatHead ==
  ASSUME StatInv, stat.todo # <<>>
  PROVE  /\ stat \in StatCall /\ stat.todo \in Seq(Stats!AllFiles)
         /\ Head(stat.todo) = stat.todo[1] /\ Head(stat.todo) \in Stats!AllFiles
         /\ 1 \in 1 .. Len(stat.todo)
         /\ Tail(stat.todo) \in Seq(Stats!AllFiles)
         /\ \A k \in 1 .. Len(Tail(stat.todo)) :
               \E j \in 1 .. Len(stat.todo) : Tail(stat.todo)[k] = stat.todo[j]
         /\ \A j \in 1 .. Len(stat.todo) :
               \/ stat.todo[j] = Head(stat.todo)
               \/ \E k \in 1 .. Len(Tail(stat.todo)) : Tail(stat.todo)[k] = stat.todo[j]
<1> DEFINE s == stat.todo
           t == Tail(s)
<1>1. stat \in StatCall /\ s \in Seq(Stats!AllFiles) /\ s # <<>>
  BY DEF StatInv, StatCallTypes, StatCall
<1> HIDE DEF s
<1>2. /\ Head(s) = s[1] /\ Head(s) \in Stats!AllFiles /\ 1 \in 1 .. Len(s)
      /\ t \in Seq(Stats!AllFiles) /\ Len(s) = Len(t) + 1 /\ Len(t) \in Nat
      /\ \A k \in 1 .. Len(t) : t[k] = s[k + 1]
  BY <1>1
<1> HIDE DEF t
<1>3. \A k \in 1 .. Len(t) : k + 1 \in 1 .. Len(s)
  BY <1>2
<1>4. ASSUME NEW j \in 1 .. Len(s), j # 1 PROVE \E k \in 1 .. Len(t) : t[k] = s[j]
  <2> DEFINE n == j - 1
  <2>1. n \in 1 .. Len(t) /\ n + 1 = j
    BY <1>2, <1>4
  <2> HIDE DEF n
  <2>2. t[n] = s[j]
    BY <1>2, <2>1
  <2> QED
    BY <2>1, <2>2
<1>5. \A k \in 1 .. Len(t) : \E j \in 1 .. Len(s) : t[k] = s[j]
  BY <1>2, <1>3
<1> QED
  BY <1>1, <1>2, <1>4, <1>5 DEF s, t

LEMMA StatMissing ==
  ASSUME StatInv, Stats!OpenMissing
  PROVE  StatInv'
<1> DEFINE f == Head(stat.todo)
           rest == Tail(stat.todo)
           S == {g \in Stats!Range(stat.todo) : g.part # f.part}
           next == IF f.kind = "kv" THEN Stats!AfterPart(f) ELSE rest
           r == [stat EXCEPT !.todo = next]
<1>1. /\ stat.at = "open" /\ stat.todo # <<>> /\ f.ctrl \notin enabled
      /\ Stats!Gives(f, Stats!Content(f, FALSE)) /\ stat' = r
      /\ enabled' = enabled /\ toggles' = toggles /\ odd' = odd /\ sizes' = sizes
      /\ torn' = torn /\ calm' = calm
  BY DEF Stats!OpenMissing, Stats!world
<1>2. /\ stat \in StatCall /\ stat.todo \in Seq(Stats!AllFiles) /\ f \in Stats!AllFiles
      /\ rest \in Seq(Stats!AllFiles)
      /\ \A k \in 1 .. Len(rest) : \E j \in 1 .. Len(stat.todo) : rest[k] = stat.todo[j]
      /\ \A j \in 1 .. Len(stat.todo) :
            stat.todo[j] = f \/ \E k \in 1 .. Len(rest) : rest[k] = stat.todo[j]
  BY <1>1, StatHead
<1>3. Stats!AfterPart(f) = Selected(rest, S)
  BY DEF Stats!AfterPart, Stats!Selected, Selected
<1>4. ~Expected(f, stat.mask)
  BY <1>1 DEF Expected
<1>5. ASSUME f.kind = "kv", NEW g \in Stats!AllFiles, g.part = f.part
      PROVE  ~Expected(g, stat.mask)
  <2>1. f \in PlainFile
    BY <1>2, <1>5, AllFilesAre, KindsAre
  <2>2. g \in PlainFile
    BY <1>5, <2>1, AllFilesAre, KindsAre
  <2>3. /\ f.part \in {"cpu", "events"} \/ (f.part = "memory" /\ f.ctrl = "memory")
        /\ f.part = "cpu" => f.ctrl = "core" /\ g.ctrl = "core"
        /\ f.part = "events" => f.ctrl = "memory" /\ g.ctrl = "memory"
    BY <1>5, <2>1, <2>2 DEF PlainFile
  <2> QED
    BY <1>1, <1>5, <2>3 DEF Expected, Stats!PartIsOn
<1>6. \A j \in 1 .. Len(stat.todo) : stat.todo[j].part # f.part => stat.todo[j] \in S
  <2>1. DOMAIN stat.todo = 1 .. Len(stat.todo)
    BY <1>2
  <2> QED
    BY <2>1 DEF Stats!Range
<1> HIDE DEF f, rest, S
<1>7. /\ Selected(rest, S) \in Seq(Stats!AllFiles)
      /\ \A k \in 1 .. Len(Selected(rest, S)) :
            \E j \in 1 .. Len(rest) : Selected(rest, S)[k] = rest[j] /\ rest[j] \in S
      /\ \A j \in 1 .. Len(rest) :
            rest[j] \in S => \E k \in 1 .. Len(Selected(rest, S)) : Selected(rest, S)[k] = rest[j]
  BY <1>2, SelectedIs
<1>8. /\ next \in Seq(Stats!AllFiles)
      /\ \A k \in 1 .. Len(next) : \E j \in 1 .. Len(stat.todo) : next[k] = stat.todo[j]
      /\ \A j \in 1 .. Len(stat.todo) :
            Expected(stat.todo[j], stat.mask) =>
               stat.todo[j] = f \/ \E k \in 1 .. Len(next) : next[k] = stat.todo[j]
  <2>1. CASE f.kind # "kv"
    BY <1>2, <2>1
  <2>2. CASE f.kind = "kv"
    <3>1. next = Selected(rest, S)
      BY <1>3, <2>2
    <3> HIDE DEF next
    <3>2. ASSUME NEW k \in 1 .. Len(next)
          PROVE  \E j \in 1 .. Len(stat.todo) : next[k] = stat.todo[j]
      <4>1. PICK n \in 1 .. Len(rest) : next[k] = rest[n]
        BY <1>7, <3>1
      <4> QED
        BY <1>2, <4>1
    <3>3. ASSUME NEW j \in 1 .. Len(stat.todo), Expected(stat.todo[j], stat.mask), stat.todo[j] # f
          PROVE  \E k \in 1 .. Len(next) : next[k] = stat.todo[j]
      <4>1. stat.todo[j] \in Stats!AllFiles
        BY <1>2
      <4>2. stat.todo[j] \in S
        BY <1>5, <1>6, <2>2, <3>3, <4>1
      <4>3. PICK n \in 1 .. Len(rest) : rest[n] = stat.todo[j]
        BY <1>2, <3>3
      <4> QED
        BY <1>7, <3>1, <4>2, <4>3
    <3> QED
      BY <1>7, <3>1, <3>2, <3>3
  <2> QED
    BY <2>1, <2>2
<1> HIDE DEF next
<1>9. /\ r \in StatCall /\ r.at = "open" /\ r.mask = stat.mask /\ r.more = stat.more
      /\ r.todo = next
  BY <1>1, <1>2, <1>8 DEF StatCall
<1> HIDE DEF r
<1>10. Stats!Content(f, FALSE) \in Stats!Reading
  BY <1>2, ContentIs
<1>11. StatCallTypes(r, read') /\ NoneLost(r, read', sizes)
  BY <1>1, <1>2, <1>4, <1>8, <1>9, <1>10, StatAdvances, ZenonT(60)
<1>12. sizes \in {<<>>, << <<>> >>, << Stats!SetToSeq(PageSizesOf) >>} /\ torn \in BOOLEAN
  BY DEF StatInv, StatTypes
<1> QED
  BY <1>1, <1>9, <1>11, <1>12, StatKeeps

LEMMA StatOpen ==
  ASSUME StatInv, Stats!Open
  PROVE  StatInv'
<1> DEFINE r == [stat EXCEPT !.at = "read"]
<1>1. /\ stat.at = "open" /\ stat.todo # <<>> /\ stat' = r /\ torn' = FALSE
      /\ enabled' = enabled /\ toggles' = toggles /\ odd' = odd /\ sizes' = sizes
      /\ read' = read /\ calm' = calm
  BY DEF Stats!Open, Stats!world
<1>2. stat \in StatCall /\ StatCallTypes(stat, read) /\ NoneLost(stat, read, sizes)
  BY DEF StatInv, StatCallTypes
<1>3. /\ r \in StatCall /\ r.at = "read" /\ r.mask = stat.mask /\ r.more = stat.more
      /\ r.todo = stat.todo
  BY <1>2 DEF StatCall
<1> HIDE DEF r
<1>4. StatCallTypes(r, read)
  BY <1>1, <1>2, <1>3 DEF StatCallTypes
<1>5. NoneLost(r, read, sizes)
  BY <1>1, <1>2, <1>3 DEF NoneLost
<1>6. sizes \in {<<>>, << <<>> >>, << Stats!SetToSeq(PageSizesOf) >>}
  BY DEF StatInv, StatTypes
<1> QED
  BY <1>1, <1>3, <1>4, <1>5, <1>6, StatKeeps

LEMMA StatRead ==
  ASSUME StatInv, Stats!Read
  PROVE  StatInv'
<1> DEFINE f == Head(stat.todo)
           rest == Tail(stat.todo)
           fails == f.kind = "kv" /\ (torn \/ ~Stats!ParseKV(f))
<1>1. /\ stat.at = "read" /\ enabled' = enabled /\ toggles' = toggles /\ odd' = odd
      /\ sizes' = sizes /\ torn' = torn /\ calm' = calm
  BY DEF Stats!Read, Stats!world
<1>2. stat.todo # <<>> /\ (calm => ~torn) /\ torn \in BOOLEAN
  BY <1>1 DEF StatInv, StatCallTypes, StatTypes
<1>3. /\ stat \in StatCall /\ stat.todo \in Seq(Stats!AllFiles) /\ f \in Stats!AllFiles
      /\ f = stat.todo[1] /\ 1 \in 1 .. Len(stat.todo) /\ rest \in Seq(Stats!AllFiles)
      /\ \A k \in 1 .. Len(rest) : \E j \in 1 .. Len(stat.todo) : rest[k] = stat.todo[j]
      /\ \A j \in 1 .. Len(stat.todo) :
            stat.todo[j] = f \/ \E k \in 1 .. Len(rest) : rest[k] = stat.todo[j]
  BY <1>2, StatHead
<1>4. sizes \in {<<>>, << <<>> >>, << Stats!SetToSeq(PageSizesOf) >>}
  BY DEF StatInv, StatTypes
<1>5. /\ fails => stat' = [stat EXCEPT !.at = "err", !.todo = <<>>] /\ read' = <<>>
      /\ ~fails => /\ Stats!Gives(f, Stats!Content(f, ~torn))
                   /\ stat' = [stat EXCEPT !.at = "open", !.todo = rest]
  BY DEF Stats!Read, Stats!Fails
<1>6. f.kind = "kv" => \E k \in 1 .. Len(Stats!Files(stat.mask)) : f = Stats!Files(stat.mask)[k]
  BY <1>3 DEF StatInv, StatCallTypes
<1>7. fails /\ calm => f.kind = "kv" /\ f.name = odd
  BY <1>2 DEF Stats!ParseKV
<1> HIDE DEF f, rest, fails
<1>8. CASE fails
  <2> DEFINE r == [stat EXCEPT !.at = "err", !.todo = <<>>]
  <2>1. r \in StatCall /\ r.at = "err" /\ r.mask = stat.mask /\ r.todo = <<>>
    <3> DEFINE A == {"idle", "open", "read", "nil", "err"}
               T == Seq(Stats!AllFiles)
               e == <<>>
               q == [stat EXCEPT !.at = "err", !.todo = e]
    <3>1. stat \in [at : A, mask : SUBSET Stats!Part, todo : T, more : BOOLEAN] /\ e \in T
          /\ "err" \in A
      BY <1>3 DEF StatCall
    <3> HIDE DEF A, T, e
    <3>2. /\ q \in [at : A, mask : SUBSET Stats!Part, todo : T, more : BOOLEAN]
          /\ q.at = "err" /\ q.mask = stat.mask /\ q.todo = e
      BY ONLY <3>1
    <3> QED
      BY <3>2 DEF StatCall, A, T, e
  <2>2. stat' = r /\ read' = <<>>
    BY <1>5, <1>8
  <2> HIDE DEF r
  <2>3. StatCallTypes(r, <<>>) /\ NoneLost(r, <<>>, sizes)
    BY <2>1 DEF StatCallTypes, NoneLost
  <2>4. calm => \E k \in 1 .. Len(Stats!Files(r.mask)) :
                   Stats!Files(r.mask)[k].kind = "kv" /\ Stats!Files(r.mask)[k].name = odd
    BY <1>6, <1>7, <1>8, <2>1
  <2> QED
    BY <1>1, <1>2, <1>4, <2>1, <2>2, <2>3, <2>4, StatKeeps
<1>9. CASE ~fails
  <2> DEFINE r == [stat EXCEPT !.at = "open", !.todo = rest]
             v == Stats!Content(f, ~torn)
  <2>1. /\ r \in StatCall /\ r.at = "open" /\ r.mask = stat.mask /\ r.more = stat.more
        /\ r.todo = rest
    BY <1>3 DEF StatCall
  <2>2. stat' = r /\ Stats!Gives(f, v)
    BY <1>5, <1>9
  <2>3. v \in Stats!Reading /\ (calm /\ f.name # odd => v = "full")
    BY <1>2, <1>3, ContentIs
  <2> HIDE DEF r, v
  <2>4. StatCallTypes(r, read') /\ NoneLost(r, read', sizes)
    BY <1>1, <1>3, <2>1, <2>2, <2>3, StatAdvances, ZenonT(60) DEF Expected
  <2> QED
    BY <1>1, <1>2, <1>4, <2>1, <2>2, <2>4, StatKeeps
<1> QED
  BY <1>8, <1>9

LEMMA StatHugePages ==
  ASSUME StatInv, Stats!HugePageSizes
  PROVE  StatInv'
<1> DEFINE todo == Stats!HugeFiles(sizes'[1])
           r == [stat EXCEPT !.more = FALSE, !.todo = todo]
<1>1. /\ stat.at = "open" /\ stat.todo = <<>> /\ stat.more /\ stat' = r
      /\ sizes' \in IF sizes # <<>> THEN {sizes}
                    ELSE {<< <<>> >>,
                          << Stats!SetToSeq({Stats!HugePageSize(k) : k \in HugePages}) >>}
      /\ enabled' = enabled /\ toggles' = toggles /\ odd' = odd /\ torn' = torn
      /\ read' = read /\ calm' = calm
  BY DEF Stats!HugePageSizes, Stats!world
<1>2. /\ stat \in StatCall /\ StatCallTypes(stat, read) /\ NoneLost(stat, read, sizes)
      /\ sizes \in {<<>>, << <<>> >>, << Stats!SetToSeq(PageSizesOf) >>} /\ torn \in BOOLEAN
  BY DEF StatInv, StatCallTypes, StatTypes
<1>3. sizes' \in {<< <<>> >>, << Stats!SetToSeq(PageSizesOf) >>}
  BY <1>1, <1>2 DEF PageSizesOf
<1>4. sizes'[1] \in Seq(PageSizesOf)
  <2>1. CASE sizes' = << <<>> >>
    <3>1. sizes'[1] = <<>>
      BY <2>1
    <3> QED
      BY <3>1
  <2>2. CASE sizes' = << Stats!SetToSeq(PageSizesOf) >>
    <3> DEFINE s == Stats!SetToSeq(PageSizesOf)
    <3>1. s \in Seq(PageSizesOf) /\ sizes' = << s >>
      BY <2>2, PageSizesIs
    <3> HIDE DEF s
    <3> QED
      BY <3>1
  <2> QED
    BY <1>3, <2>1, <2>2
<1>5. sizes' # << <<>> >> => todo = HugeList
  BY <1>3 DEF HugeList
<1>6. todo \in Seq(HugeFile)
  BY <1>4, HugeFilesIs
<1>7. todo \in Seq(Stats!AllFiles)
  <2>1. CASE sizes' = << <<>> >>
    <3>1. sizes'[1] = <<>>
      BY <2>1
    <3>2. todo = <<>>
      <4>1. Stats!HugeFiles(<<>>) = Stats!FlattenSeq(<<>>)
        BY DEF Stats!HugeFiles
      <4>2. Stats!FlattenSeq(<<>>) = FlattenSeq(<<>>)
        BY DEF Stats!FlattenSeq, FlattenSeq
      <4>3. FlattenSeq(<<>>) \in Seq({})
        <5>1. <<>> \in Seq(Seq({}))
          OBVIOUS
        <5> QED
          BY <5>1, FlattenIn
      <4> QED
        BY <3>1, <4>1, <4>2, <4>3
    <3> QED
      BY <3>2
  <2>2. CASE sizes' # << <<>> >>
    BY <1>5, <2>2, AllFilesAre
  <2> QED
    BY <2>1, <2>2
<1> HIDE DEF todo
<1>8. /\ r \in StatCall /\ r.at = "open" /\ r.mask = stat.mask /\ r.more = FALSE
      /\ r.todo = todo
  BY <1>1, <1>2, <1>7 DEF StatCall
<1> HIDE DEF r
<1>9. StatCallTypes(r, read)
  <2>1. \A j \in 1 .. Len(todo) : todo[j].kind # "kv"
    BY <1>6, KindsAre
  <2> QED
    BY <1>2, <1>8, <2>1 DEF StatCallTypes
<1>10. NoneLost(r, read, sizes')
  <2> SUFFICES ASSUME calm, NEW f \in Stats!AllFiles, Expected(f, stat.mask)
               PROVE  \/ f.part = "hugetlb" /\ sizes' = << <<>> >>
                      \/ \E j \in 1 .. Len(todo) : todo[j] = f
                      \/ Full(f, read)
    BY <1>8 DEF NoneLost
  <2>1. CASE f.part = "hugetlb"
    <3>1. \E j \in 1 .. Len(HugeList) : f = HugeList[j]
      BY <2>1, AllFilesAre, KindsAre
    <3> QED
      BY <1>5, <2>1, <3>1
  <2>2. CASE f.part # "hugetlb"
    <3>1. Len(stat.todo) = 0
      BY <1>1
    <3> QED
      BY <1>1, <1>2, <2>2, <3>1 DEF NoneLost
  <2> QED
    BY <2>1, <2>2
<1> QED
  BY <1>1, <1>2, <1>3, <1>8, <1>9, <1>10, StatKeeps

LEMMA StatReturn ==
  ASSUME StatInv, Stats!Return
  PROVE  StatInv'
<1> DEFINE r == [stat EXCEPT !.at = "nil"]
<1>1. /\ stat.at = "open" /\ stat.todo = <<>> /\ ~stat.more /\ stat' = r
      /\ enabled' = enabled /\ toggles' = toggles /\ odd' = odd /\ sizes' = sizes
      /\ read' = read /\ calm' = calm /\ torn' = torn
  BY DEF Stats!Return, Stats!world
<1>2. /\ stat \in StatCall /\ StatCallTypes(stat, read) /\ NoneLost(stat, read, sizes)
      /\ sizes \in {<<>>, << <<>> >>, << Stats!SetToSeq(PageSizesOf) >>} /\ torn \in BOOLEAN
  BY DEF StatInv, StatCallTypes, StatTypes
<1>3. /\ r \in StatCall /\ r.at = "nil" /\ r.mask = stat.mask /\ r.more = stat.more
      /\ r.todo = stat.todo
  BY <1>2 DEF StatCall
<1> HIDE DEF r
<1>4. StatCallTypes(r, read)
  BY <1>1, <1>2, <1>3 DEF StatCallTypes
<1>5. NoneLost(r, read, sizes)
  BY <1>1, <1>2, <1>3 DEF NoneLost
<1> QED
  BY <1>1, <1>2, <1>3, <1>4, <1>5, StatKeeps

LEMMA StatNext ==
  StatInv /\ [Stats!Next]_(Stats!vars) => StatInv'
<1> SUFFICES ASSUME StatInv, [Stats!Next]_(Stats!vars) PROVE StatInv'
  OBVIOUS
<1>1. CASE UNCHANGED Stats!vars
  <2>1. /\ enabled' = enabled /\ toggles' = toggles /\ odd' = odd /\ sizes' = sizes
        /\ stat' = stat /\ read' = read /\ torn' = torn /\ calm' = calm
    BY <1>1 DEF Stats!vars, Stats!world
  <2> QED
    BY <2>1 DEF StatInv, StatTypes, StatCallTypes, NoneLost, Expected, Full, Stats!PartIsOn,
                Stats!FailsOnlyTorn
<1>2. CASE Stats!Rmdir \/ \E c \in Stats!Controllers : Stats!Toggle(c)
  BY <1>2, StatOthers
<1>3. CASE Stats!Begin
  BY <1>3, StatBegin
<1>4. CASE Stats!OpenMissing
  BY <1>4, StatMissing
<1>5. CASE Stats!Open
  BY <1>5, StatOpen
<1>6. CASE Stats!Read
  BY <1>6, StatRead
<1>7. CASE Stats!HugePageSizes
  BY <1>7, StatHugePages
<1>8. CASE Stats!Return
  BY <1>8, StatReturn
<1> QED
  BY <1>1, <1>2, <1>3, <1>4, <1>5, <1>6, <1>7, <1>8 DEF Stats!Next

LEMMA StatCompletes ==
  StatInv => Stats!Complete
<1> SUFFICES ASSUME StatInv, stat.at = "nil", calm, NEW f \in Stats!AllFiles,
                    Expected(f, stat.mask), f.part = "hugetlb" => sizes # << <<>> >>
             PROVE  f \in DOMAIN read /\ read[f] = "full"
  BY DEF Stats!Complete, Expected
<1>1. Len(stat.todo) = 0 /\ ~stat.more
  BY DEF StatInv, StatCallTypes
<1> QED
  BY <1>1 DEF StatInv, NoneLost, Full

LEMMA StatTypesAre ==
  StatInv => Stats!TypeOK
<1> SUFFICES ASSUME StatInv PROVE Stats!TypeOK
  OBVIOUS
<1>1. StatTypes /\ StatCallTypes(stat, read)
  BY DEF StatInv
<1>2. Stats!Range(stat.todo) \subseteq Stats!AllFiles
  <2>1. stat.todo \in Seq(Stats!AllFiles)
    BY <1>1 DEF StatCallTypes, StatCall
  <2> QED
    BY <2>1 DEF Stats!Range
<1>3. Stats!Range(read) \subseteq Stats!Reading
  BY <1>1 DEF StatCallTypes, Stats!Range
<1>4. Len(sizes) <= 1
  <2> DEFINE s == Stats!SetToSeq(PageSizesOf)
             e == <<>>
  <2>1. sizes = e \/ sizes = << e >> \/ sizes = << s >>
    BY <1>1 DEF StatTypes
  <2> HIDE DEF s
  <2>2. Len(e) = 0 /\ Len(<< e >>) = 1 /\ Len(<< s >>) = 1
    OBVIOUS
  <2> HIDE DEF e
  <2>3. Len(sizes) = 0 \/ Len(sizes) = 1
    BY ONLY <2>1, <2>2
  <2>4. \A n \in 0 .. 1 : n <= 1
    OBVIOUS
  <2>5. Len(sizes) \in 0 .. 1
    BY ONLY <2>3
  <2> QED
    BY <2>4, <2>5, Zenon
<1> QED
  BY <1>1, <1>2, <1>3, <1>4 DEF StatTypes, StatCallTypes, StatCall, Stats!TypeOK

LEMMA StatBehaves ==
  SpecAll => Stats!Init /\ [][Stats!Next]_(Stats!vars)
<1>1. StartAll => Stats!Init
  BY DEF StartAll
<1>2. [NextAll]_allVars => [Stats!Next]_(Stats!vars)
  BY DEF NextAll, allVars, statVars, Stats!vars, Stats!world, Others, CpusetStep,
         MemoryStep, DevicesStep, ControlStep, ReaderStep, ResourceStep, StatStep
<1> QED
  BY <1>1, <1>2, PTL DEF SpecAll

LEMMA StatHolds ==
  SpecAll => []StatInv
  BY StatStarts, StatNext, StatBehaves, PTL

(* Stat of package cgroup2 fails only when something was taken away from   *)
(* the cgroup during the call, or for a line it does not know in a file of *)
(* keys and values that was asked for (manager.go:585).                    *)
THEOREM FailureIsKnown == SpecAll => []FailsOnlyTorn
<1>1. StatInv => FailsOnlyTorn
  BY DEF StatInv, FailsOnlyTorn
<1> QED
  BY <1>1, StatHolds, PTL

(* Metrics of a cgroup that is left alone have every file of every part    *)
(* asked for whose controller is enabled, huge pages by the names that the *)
(* kernel has for them, whatever the controllers that are off.             *)
THEOREM MetricsAreComplete == SpecAll => []Complete
<1>1. StatInv => Complete
  BY StatCompletes DEF Complete
<1> QED
  BY <1>1, StatHolds, PTL

-----------------------------------------------------------------------------
(* The resources of package cgroup2: a list has the elements of a set.     *)
Enumerates(s, S) == s \in Seq(S) /\ \A x \in S : \E j \in 1 .. Len(s) : s[j] = x

LEMMA ListsMore ==
  ASSUME NEW s, NEW S, NEW t, NEW T, Enumerates(s, S), Enumerates(t, T)
  PROVE  Enumerates(s \o t, S \cup T)
<1>1. s \in Seq(S \cup T) /\ t \in Seq(S \cup T)
  BY DEF Enumerates
<1>2. /\ Len(s) \in Nat /\ Len(t) \in Nat /\ Len(s \o t) = Len(s) + Len(t)
      /\ s \o t \in Seq(S \cup T)
      /\ \A j \in 1 .. Len(s) : (s \o t)[j] = s[j]
      /\ \A j \in 1 .. Len(t) : (s \o t)[Len(s) + j] = t[j]
  BY <1>1
<1>3. ASSUME NEW x \in S PROVE \E j \in 1 .. Len(s \o t) : (s \o t)[j] = x
  <2>1. PICK j \in 1 .. Len(s) : s[j] = x
    BY <1>3 DEF Enumerates
  <2> QED
    BY <1>2, <2>1
<1>4. ASSUME NEW x \in T PROVE \E j \in 1 .. Len(s \o t) : (s \o t)[j] = x
  <2>1. PICK j \in 1 .. Len(t) : t[j] = x
    BY <1>4 DEF Enumerates
  <2>2. Len(s) + j \in 1 .. Len(s \o t) /\ (s \o t)[Len(s) + j] = x
    BY <1>2, <2>1
  <2> QED
    BY <2>2
<1> QED
  BY <1>2, <1>3, <1>4 DEF Enumerates

LEMMA ListsNone == Enumerates(<<>>, {})
  BY DEF Enumerates

LEMMA ListsOne ==
  ASSUME NEW x
  PROVE  Enumerates(<< x >>, {x})
<1>1. << x >> \in Seq({x}) /\ Len(<< x >>) = 1 /\ << x >>[1] = x
  OBVIOUS
<1> QED
  BY <1>1 DEF Enumerates

LEMMA DerefIs ==
  ASSUME NEW p, IsPointer(p), NEW x \in p
  PROVE  p = {x} /\ Resources!Deref(p) = x
<1>1. Resources!Deref(p) \in p
  BY DEF Resources!Deref
<1> QED
  BY <1>1 DEF IsPointer

(* What is written for a pointer: nothing for nil.                         *)
Stored(name, ctrl, p) == {Resources!V(name, ctrl, << x >>) : x \in p}

LEMMA EachLists ==
  ASSUME NEW name, NEW ctrl, NEW p, IsPointer(p)
  PROVE  Enumerates(Resources!Each(name, ctrl, p), Stored(name, ctrl, p))
<1>1. CASE p = {}
  <2>1. Resources!Each(name, ctrl, p) = <<>> /\ Stored(name, ctrl, p) = {}
    BY <1>1 DEF Resources!Each, Stored
  <2> QED
    BY <2>1, ListsNone
<1>2. ASSUME NEW x \in p PROVE Enumerates(Resources!Each(name, ctrl, p), Stored(name, ctrl, p))
  <2>1. p = {x} /\ Resources!Deref(p) = x
    BY <1>2, DerefIs
  <2> DEFINE w == Resources!V(name, ctrl, << x >>)
  <2>2. Resources!Each(name, ctrl, p) = << w >> /\ Stored(name, ctrl, p) = {w}
    BY <2>1 DEF Resources!Each, Stored
  <2> HIDE DEF w
  <2> QED
    BY <2>2, ListsOne
<1> QED
  BY <1>1, <1>2

(* What is written for every element of a list.                            *)
LEMMA EnumeratesAll ==
  ASSUME NEW n \in Nat, NEW s, s = [j \in 1 .. n |-> s[j]]
  PROVE  Enumerates(s, {s[j] : j \in 1 .. n})
<1> DEFINE S == {s[j] : j \in 1 .. n}
<1>1. \A j \in 1 .. n : s[j] \in S
  OBVIOUS
<1>2. \A x \in S : \E j \in 1 .. n : s[j] = x
  OBVIOUS
<1> HIDE DEF S
<1>3. s \in Seq(S) /\ Len(s) = n
  BY <1>1
<1> QED
  BY <1>2, <1>3 DEF Enumerates

(* The values that are written, whatever their order.                      *)
CPUWrites(c) ==
    Stored("cpu.weight", "cpu", c.weight)
    \cup {Resources!V("cpu.max", "cpu", m) : m \in c.max}
    \cup Stored("cpuset.cpus", "cpuset", {c.cpus} \ {Resources!Blank})
    \cup Stored("cpuset.mems", "cpuset", {c.mems} \ {Resources!Blank})

MemoryWrites(m) ==
    Stored("memory.swap.max", "memory", m.swap) \cup Stored("memory.min", "memory", m.min)
    \cup Stored("memory.max", "memory", m.max) \cup Stored("memory.low", "memory", m.low)
    \cup Stored("memory.high", "memory", m.high)
    \cup Stored("memory.oom.group", "memory", {IF g THEN 1 ELSE 0 : g \in m.oomGroup})

MaxOfPids(l) == IF l > 0 THEN l ELSE Resources!Unlimited

PidsWrites(l) == Stored("pids.max", "pids", {MaxOfPids(z) : z \in {l} \ {0}})

IOWrites(b) ==
    Stored("io.bfq.weight", "io", b.weight \ {0})
    \cup {Resources!V("io.max", "io", b.max[j]) : j \in 1 .. Len(b.max)}

RDMAWrites(r) ==
    {Resources!V("rdma.max", "rdma", << r[j].device, r[j].handles, r[j].objects >>)
       : j \in 1 .. Len(r)}

HugeTlbWrites(r) == {Resources!V("hugetlb.max", "hugetlb", r[j]) : j \in 1 .. Len(r)}

Writes(r) ==
    (UNION {CPUWrites(z) : z \in r.cpu}) \cup (UNION {MemoryWrites(z) : z \in r.memory})
    \cup (UNION {PidsWrites(z) : z \in r.pids}) \cup (UNION {IOWrites(z) : z \in r.io})
    \cup (UNION {RDMAWrites(z) : z \in r.rdma})
    \cup (UNION {HugeTlbWrites(z) : z \in r.hugetlb})

(* Resources that were converted or made by a caller; what the curve gives *)
(* for the shares is any number.                                           *)
CPUOk(c) ==
    /\ IsPointer(c.weight) /\ IsPointer(c.max)
    /\ \A m \in c.max : m \in Resources!CPUMax

MemoryOk(m) ==
    /\ IsPointer(m.swap) /\ IsPointer(m.min) /\ IsPointer(m.max) /\ IsPointer(m.low)
    /\ IsPointer(m.high) /\ IsPointer(m.oomGroup)
    /\ m.min \subseteq Resources!Int64 /\ m.max \subseteq Resources!Int64

IOOk(b) == IsPointer(b.weight) /\ b.max \in Seq(Resources!Throttle)

ResourcesOk(r) ==
    /\ IsPointer(r.cpu) /\ \A c \in r.cpu : CPUOk(c)
    /\ IsPointer(r.memory) /\ \A m \in r.memory : MemoryOk(m)
    /\ IsPointer(r.hugetlb) /\ r.hugetlb \subseteq Seq(Resources!HugePage)
    /\ IsPointer(r.pids) /\ r.pids \subseteq Resources!Int64
    /\ IsPointer(r.io) /\ \A b \in r.io : IOOk(b)
    /\ IsPointer(r.rdma) /\ r.rdma \subseteq Seq(Resources!Link)

LEMMA CPUListed ==
  ASSUME NEW c, CPUOk(c)
  PROVE  Enumerates(Resources!CPUValues(c), CPUWrites(c))
<1> DEFINE s1 == Resources!Each("cpu.weight", "cpu", c.weight)
           s2 == IF c.max = {} THEN <<>>
                 ELSE << Resources!V("cpu.max", "cpu", Resources!Deref(c.max)) >>
           s3 == IF c.cpus = Resources!Blank THEN <<>>
                 ELSE << Resources!V("cpuset.cpus", "cpuset", << c.cpus >>) >>
           s4 == IF c.mems = Resources!Blank THEN <<>>
                 ELSE << Resources!V("cpuset.mems", "cpuset", << c.mems >>) >>
           S1 == Stored("cpu.weight", "cpu", c.weight)
           S2 == {Resources!V("cpu.max", "cpu", m) : m \in c.max}
           S3 == Stored("cpuset.cpus", "cpuset", {c.cpus} \ {Resources!Blank})
           S4 == Stored("cpuset.mems", "cpuset", {c.mems} \ {Resources!Blank})
<1>1. Enumerates(s1, S1)
  BY EachLists DEF CPUOk
<1>2. Enumerates(s2, S2)
  <2>1. CASE c.max = {}
    BY <2>1, ListsNone
  <2>2. ASSUME NEW m \in c.max PROVE Enumerates(s2, S2)
    <3>1. c.max = {m} /\ Resources!Deref(c.max) = m
      BY <2>2, DerefIs DEF CPUOk
    <3> DEFINE w == Resources!V("cpu.max", "cpu", m)
    <3>2. s2 = << w >> /\ S2 = {w}
      BY <3>1
    <3> HIDE DEF w, s2, S2
    <3> QED
      BY <3>2, ListsOne
  <2> QED
    BY <2>1, <2>2
<1>3. Enumerates(s3, S3)
  <2>1. CASE c.cpus = Resources!Blank
    <3>1. s3 = <<>> /\ S3 = {}
      BY <2>1 DEF Stored
    <3> QED
      BY <3>1, ListsNone
  <2>2. CASE c.cpus # Resources!Blank
    <3> DEFINE w == Resources!V("cpuset.cpus", "cpuset", << c.cpus >>)
    <3>1. s3 = << w >> /\ S3 = {w}
      BY <2>2 DEF Stored
    <3> HIDE DEF w, s3, S3
    <3> QED
      BY <3>1, ListsOne
  <2> QED
    BY <2>1, <2>2
<1>4. Enumerates(s4, S4)
  <2>1. CASE c.mems = Resources!Blank
    <3>1. s4 = <<>> /\ S4 = {}
      BY <2>1 DEF Stored
    <3> QED
      BY <3>1, ListsNone
  <2>2. CASE c.mems # Resources!Blank
    <3> DEFINE w == Resources!V("cpuset.mems", "cpuset", << c.mems >>)
    <3>1. s4 = << w >> /\ S4 = {w}
      BY <2>2 DEF Stored
    <3> HIDE DEF w, s4, S4
    <3> QED
      BY <3>1, ListsOne
  <2> QED
    BY <2>1, <2>2
<1>5. Resources!CPUValues(c) = s1 \o s2 \o s3 \o s4 /\ CPUWrites(c) = S1 \cup S2 \cup S3 \cup S4
  BY DEF Resources!CPUValues, CPUWrites
<1> HIDE DEF s1, s2, s3, s4, S1, S2, S3, S4
<1>6. Enumerates(s1 \o s2, S1 \cup S2)
  BY <1>1, <1>2, ListsMore
<1>7. Enumerates(s1 \o s2 \o s3, S1 \cup S2 \cup S3)
  BY <1>6, <1>3, ListsMore
<1>8. Enumerates(s1 \o s2 \o s3 \o s4, S1 \cup S2 \cup S3 \cup S4)
  BY <1>7, <1>4, ListsMore
<1> QED
  BY <1>5, <1>8

LEMMA MemoryListed ==
  ASSUME NEW m, MemoryOk(m)
  PROVE  Enumerates(Resources!MemoryValues(m), MemoryWrites(m))
<1> DEFINE g == {IF z THEN 1 ELSE 0 : z \in m.oomGroup}
           s1 == Resources!Each("memory.swap.max", "memory", m.swap)
           s2 == Resources!Each("memory.min", "memory", m.min)
           s3 == Resources!Each("memory.max", "memory", m.max)
           s4 == Resources!Each("memory.low", "memory", m.low)
           s5 == Resources!Each("memory.high", "memory", m.high)
           s6 == Resources!Each("memory.oom.group", "memory", g)
           S1 == Stored("memory.swap.max", "memory", m.swap)
           S2 == Stored("memory.min", "memory", m.min)
           S3 == Stored("memory.max", "memory", m.max)
           S4 == Stored("memory.low", "memory", m.low)
           S5 == Stored("memory.high", "memory", m.high)
           S6 == Stored("memory.oom.group", "memory", g)
<1>1. /\ Enumerates(s1, S1) /\ Enumerates(s2, S2) /\ Enumerates(s3, S3) /\ Enumerates(s4, S4)
      /\ Enumerates(s5, S5)
  BY EachLists DEF MemoryOk
<1>2. IsPointer(g)
  BY DEF MemoryOk, IsPointer
<1>3. Enumerates(s6, S6)
  <2> HIDE DEF g
  <2> QED
    BY <1>2, EachLists
<1>4. /\ Resources!MemoryValues(m) = s1 \o s2 \o s3 \o s4 \o s5 \o s6
      /\ MemoryWrites(m) = S1 \cup S2 \cup S3 \cup S4 \cup S5 \cup S6
  BY DEF Resources!MemoryValues, MemoryWrites
<1> HIDE DEF s1, s2, s3, s4, s5, s6, S1, S2, S3, S4, S5, S6
<1>5. Enumerates(s1 \o s2, S1 \cup S2)
  BY <1>1, ListsMore
<1>6. Enumerates(s1 \o s2 \o s3, S1 \cup S2 \cup S3)
  BY <1>1, <1>5, ListsMore
<1>7. Enumerates(s1 \o s2 \o s3 \o s4, S1 \cup S2 \cup S3 \cup S4)
  BY <1>1, <1>6, ListsMore
<1>8. Enumerates(s1 \o s2 \o s3 \o s4 \o s5, S1 \cup S2 \cup S3 \cup S4 \cup S5)
  BY <1>1, <1>7, ListsMore
<1>9. Enumerates(s1 \o s2 \o s3 \o s4 \o s5 \o s6, S1 \cup S2 \cup S3 \cup S4 \cup S5 \cup S6)
  BY <1>3, <1>8, ListsMore
<1> QED
  BY <1>4, <1>9

LEMMA PidsListed ==
  ASSUME NEW l
  PROVE  Enumerates(Resources!PidsValues(l), PidsWrites(l))
<1> DEFINE p == IF l = 0 THEN {} ELSE {IF l > 0 THEN l ELSE Resources!Unlimited}
<1>1. IsPointer(p) /\ p = {MaxOfPids(z) : z \in {l} \ {0}}
  BY DEF IsPointer, MaxOfPids
<1>2. /\ Resources!PidsValues(l) = Resources!Each("pids.max", "pids", p)
      /\ PidsWrites(l) = Stored("pids.max", "pids", p)
  BY <1>1 DEF Resources!PidsValues, PidsWrites
<1> HIDE DEF p
<1> QED
  BY <1>1, <1>2, EachLists

LEMMA IOListed ==
  ASSUME NEW b, IOOk(b)
  PROVE  Enumerates(Resources!IOValues(b), IOWrites(b))
<1> DEFINE p == b.weight \ {0}
           s1 == Resources!Each("io.bfq.weight", "io", p)
           s2 == [j \in DOMAIN b.max |-> Resources!V("io.max", "io", b.max[j])]
           S1 == Stored("io.bfq.weight", "io", p)
           S2 == {Resources!V("io.max", "io", b.max[j]) : j \in 1 .. Len(b.max)}
<1>1. IsPointer(p)
  BY DEF IOOk, IsPointer
<1>2. Enumerates(s1, S1)
  <2> HIDE DEF p
  <2> QED
    BY <1>1, EachLists
<1>3. DOMAIN b.max = 1 .. Len(b.max) /\ Len(b.max) \in Nat
  BY DEF IOOk
<1>4. s2 = [j \in 1 .. Len(b.max) |-> s2[j]] /\ S2 = {s2[j] : j \in 1 .. Len(b.max)}
  BY <1>3
<1>5. Resources!IOValues(b) = s1 \o s2 /\ IOWrites(b) = S1 \cup S2
  BY DEF Resources!IOValues, IOWrites
<1> HIDE DEF s1, s2, S1, S2
<1>6. Enumerates(s2, S2)
  BY <1>3, <1>4, EnumeratesAll
<1> QED
  BY <1>2, <1>5, <1>6, ListsMore

LEMMA RDMAListed ==
  ASSUME NEW N, NEW r \in Seq(N)
  PROVE  Enumerates(Resources!RDMAValues(r), RDMAWrites(r))
<1> DEFINE s == Resources!RDMAValues(r)
<1>1. DOMAIN r = 1 .. Len(r) /\ Len(r) \in Nat
  OBVIOUS
<1>2. s = [j \in 1 .. Len(r) |-> s[j]] /\ RDMAWrites(r) = {s[j] : j \in 1 .. Len(r)}
  BY <1>1 DEF Resources!RDMAValues, RDMAWrites
<1> HIDE DEF s
<1> QED
  BY <1>1, <1>2, EnumeratesAll DEF s

LEMMA HugeTlbListed ==
  ASSUME NEW N, NEW r \in Seq(N)
  PROVE  Enumerates(Resources!HugeTlbValues(r), HugeTlbWrites(r))
<1> DEFINE s == Resources!HugeTlbValues(r)
<1>1. DOMAIN r = 1 .. Len(r) /\ Len(r) \in Nat
  OBVIOUS
<1>2. s = [j \in 1 .. Len(r) |-> s[j]] /\ HugeTlbWrites(r) = {s[j] : j \in 1 .. Len(r)}
  BY <1>1 DEF Resources!HugeTlbValues, HugeTlbWrites
<1> HIDE DEF s
<1> QED
  BY <1>1, <1>2, EnumeratesAll DEF s

(* Values of a Resources are what its parts write.                         *)
LEMMA ValuesListed ==
  ASSUME NEW r, ResourcesOk(r)
  PROVE  Enumerates(Resources!Values(r), Writes(r))
<1> DEFINE s1 == IF r.cpu = {} THEN <<>> ELSE Resources!CPUValues(Resources!Deref(r.cpu))
           s2 == IF r.memory = {} THEN <<>>
                 ELSE Resources!MemoryValues(Resources!Deref(r.memory))
           s3 == IF r.pids = {} THEN <<>> ELSE Resources!PidsValues(Resources!Deref(r.pids))
           s4 == IF r.io = {} THEN <<>> ELSE Resources!IOValues(Resources!Deref(r.io))
           s5 == IF r.rdma = {} THEN <<>> ELSE Resources!RDMAValues(Resources!Deref(r.rdma))
           s6 == IF r.hugetlb = {} THEN <<>>
                 ELSE Resources!HugeTlbValues(Resources!Deref(r.hugetlb))
           S1 == UNION {CPUWrites(z) : z \in r.cpu}
           S2 == UNION {MemoryWrites(z) : z \in r.memory}
           S3 == UNION {PidsWrites(z) : z \in r.pids}
           S4 == UNION {IOWrites(z) : z \in r.io}
           S5 == UNION {RDMAWrites(z) : z \in r.rdma}
           S6 == UNION {HugeTlbWrites(z) : z \in r.hugetlb}
<1>1. Enumerates(s1, S1)
  <2>1. CASE r.cpu = {}
    BY <2>1, ListsNone
  <2>2. ASSUME NEW z \in r.cpu PROVE Enumerates(s1, S1)
    <3>1. r.cpu = {z} /\ Resources!Deref(r.cpu) = z /\ CPUOk(z)
      BY <2>2, DerefIs DEF ResourcesOk
    <3>2. s1 = Resources!CPUValues(z) /\ S1 = CPUWrites(z)
      BY <3>1
    <3> QED
      BY <3>1, <3>2, CPUListed
  <2> QED
    BY <2>1, <2>2
<1>2. Enumerates(s2, S2)
  <2>1. CASE r.memory = {}
    BY <2>1, ListsNone
  <2>2. ASSUME NEW z \in r.memory PROVE Enumerates(s2, S2)
    <3>1. r.memory = {z} /\ Resources!Deref(r.memory) = z /\ MemoryOk(z)
      BY <2>2, DerefIs DEF ResourcesOk
    <3>2. s2 = Resources!MemoryValues(z) /\ S2 = MemoryWrites(z)
      BY <3>1
    <3> QED
      BY <3>1, <3>2, MemoryListed
  <2> QED
    BY <2>1, <2>2
<1>3. Enumerates(s3, S3)
  <2>1. CASE r.pids = {}
    BY <2>1, ListsNone
  <2>2. ASSUME NEW z \in r.pids PROVE Enumerates(s3, S3)
    <3>1. r.pids = {z} /\ Resources!Deref(r.pids) = z
      BY <2>2, DerefIs DEF ResourcesOk
    <3>2. s3 = Resources!PidsValues(z) /\ S3 = PidsWrites(z)
      BY <3>1
    <3> QED
      BY <3>2, PidsListed
  <2> QED
    BY <2>1, <2>2
<1>4. Enumerates(s4, S4)
  <2>1. CASE r.io = {}
    BY <2>1, ListsNone
  <2>2. ASSUME NEW z \in r.io PROVE Enumerates(s4, S4)
    <3>1. r.io = {z} /\ Resources!Deref(r.io) = z /\ IOOk(z)
      BY <2>2, DerefIs DEF ResourcesOk
    <3>2. s4 = Resources!IOValues(z) /\ S4 = IOWrites(z)
      BY <3>1
    <3> QED
      BY <3>1, <3>2, IOListed
  <2> QED
    BY <2>1, <2>2
<1>5. Enumerates(s5, S5)
  <2>1. CASE r.rdma = {}
    BY <2>1, ListsNone
  <2>2. ASSUME NEW z \in r.rdma PROVE Enumerates(s5, S5)
    <3>1. r.rdma = {z} /\ Resources!Deref(r.rdma) = z /\ z \in Seq(Resources!Link)
      BY <2>2, DerefIs DEF ResourcesOk
    <3>2. s5 = Resources!RDMAValues(z) /\ S5 = RDMAWrites(z)
      BY <3>1
    <3> QED
      BY <3>1, <3>2, RDMAListed
  <2> QED
    BY <2>1, <2>2
<1>6. Enumerates(s6, S6)
  <2>1. CASE r.hugetlb = {}
    BY <2>1, ListsNone
  <2>2. ASSUME NEW z \in r.hugetlb PROVE Enumerates(s6, S6)
    <3>1. r.hugetlb = {z} /\ Resources!Deref(r.hugetlb) = z /\ z \in Seq(Resources!HugePage)
      BY <2>2, DerefIs DEF ResourcesOk
    <3>2. s6 = Resources!HugeTlbValues(z) /\ S6 = HugeTlbWrites(z)
      BY <3>1
    <3> QED
      BY <3>1, <3>2, HugeTlbListed
  <2> QED
    BY <2>1, <2>2
<1>7. Resources!Values(r) = s1 \o s2 \o s3 \o s4 \o s5 \o s6
  BY DEF Resources!Values, Resources!Of
<1>8. Writes(r) = S1 \cup S2 \cup S3 \cup S4 \cup S5 \cup S6
  BY DEF Writes
<1> HIDE DEF s1, s2, s3, s4, s5, s6, S1, S2, S3, S4, S5, S6
<1>9. Enumerates(s1 \o s2, S1 \cup S2)
  BY <1>1, <1>2, ListsMore
<1>10. Enumerates(s1 \o s2 \o s3, S1 \cup S2 \cup S3)
  BY <1>3, <1>9, ListsMore
<1>11. Enumerates(s1 \o s2 \o s3 \o s4, S1 \cup S2 \cup S3 \cup S4)
  BY <1>4, <1>10, ListsMore
<1>12. Enumerates(s1 \o s2 \o s3 \o s4 \o s5, S1 \cup S2 \cup S3 \cup S4 \cup S5)
  BY <1>5, <1>11, ListsMore
<1>13. Enumerates(s1 \o s2 \o s3 \o s4 \o s5 \o s6, S1 \cup S2 \cup S3 \cup S4 \cup S5 \cup S6)
  BY <1>6, <1>12, ListsMore
<1> QED
  BY <1>7, <1>8, <1>13

LEMMA ResourcesFacts ==
  /\ Specs \subseteq Resources!LinuxResources /\ Changed \subseteq Specs
  /\ Direct \subseteq Resources!Resource
  /\ \A s \in Specs : /\ \A b \in s.blockIO : IsFiniteSet(b.throttle)
                      /\ \A r \in s.rdma : IsFiniteSet(r)
  /\ Percent \in Nat \ {0} /\ Second = 100 * Percent
  /\ Word \in Nat /\ Word % 2 = 0 /\ Word > 262144 /\ Word > Second
<1>1. Resources!ResourcesAssumption
  BY SettingsAssumption
<1> QED
  BY <1>1 DEF Resources!ResourcesAssumption, Resources!IsFiniteSet, IsFiniteSet

LEMMA SpecsFacts ==
  /\ Specs \subseteq Resources!LinuxResources
  /\ Direct \subseteq Resources!Resource
  BY ResourcesFacts

LEMMA PointersAre ==
  ASSUME NEW S, NEW p \in Resources!PointerTo(S)
  PROVE  p \subseteq S /\ IsPointer(p)
  BY DEF Resources!PointerTo, Resources!IsPointer, IsPointer

LEMMA DirectOk ==
  ASSUME NEW r \in Direct
  PROVE  ResourcesOk(r)
<1> DEFINE Limits == [swap : Resources!PointerTo(Resources!Int64),
                      min : Resources!PointerTo(Resources!Int64),
                      max : Resources!PointerTo(Resources!Int64),
                      low : Resources!PointerTo(Resources!Int64),
                      high : Resources!PointerTo(Resources!Int64),
                      oomGroup : Resources!PointerTo(BOOLEAN)]
           Shares == [weight : Resources!PointerTo(Resources!Uint64),
                      max : Resources!PointerTo(Resources!CPUMax),
                      cpus : STRING, mems : STRING]
           Blocks == [weight : Resources!PointerTo(Resources!Uint16), max : Seq(Resources!Throttle)]
<1> HIDE DEF Limits, Shares, Blocks
<1>0. r \in Resources!Resource
  BY SpecsFacts
<1>1. r \in [cpu : Resources!PointerTo(Shares), memory : Resources!PointerTo(Limits),
            hugetlb : Resources!PointerTo(Seq(Resources!HugePage)),
            pids : Resources!PointerTo(Resources!Int64), io : Resources!PointerTo(Blocks),
            rdma : Resources!PointerTo(Seq(Resources!Link))]
  BY <1>0 DEF Resources!Resource, Limits, Shares, Blocks
<1>2. /\ r.cpu \in Resources!PointerTo(Shares) /\ r.memory \in Resources!PointerTo(Limits)
      /\ r.hugetlb \in Resources!PointerTo(Seq(Resources!HugePage))
      /\ r.pids \in Resources!PointerTo(Resources!Int64)
      /\ r.io \in Resources!PointerTo(Blocks)
      /\ r.rdma \in Resources!PointerTo(Seq(Resources!Link))
  BY <1>1
<1>3. /\ r.cpu \subseteq Shares /\ r.memory \subseteq Limits /\ r.io \subseteq Blocks
      /\ r.hugetlb \subseteq Seq(Resources!HugePage) /\ r.pids \subseteq Resources!Int64
      /\ r.rdma \subseteq Seq(Resources!Link)
      /\ IsPointer(r.cpu) /\ IsPointer(r.memory) /\ IsPointer(r.io)
      /\ IsPointer(r.hugetlb) /\ IsPointer(r.pids) /\ IsPointer(r.rdma)
  BY <1>2, PointersAre
<1>4. ASSUME NEW c \in Shares PROVE CPUOk(c)
  <2>1. /\ c.weight \in Resources!PointerTo(Resources!Uint64)
        /\ c.max \in Resources!PointerTo(Resources!CPUMax)
    BY DEF Shares
  <2> QED
    BY <2>1, PointersAre DEF CPUOk
<1>5. ASSUME NEW m \in Limits PROVE MemoryOk(m)
  <2>1. /\ m.swap \in Resources!PointerTo(Resources!Int64)
        /\ m.min \in Resources!PointerTo(Resources!Int64)
        /\ m.max \in Resources!PointerTo(Resources!Int64)
        /\ m.low \in Resources!PointerTo(Resources!Int64)
        /\ m.high \in Resources!PointerTo(Resources!Int64)
        /\ m.oomGroup \in Resources!PointerTo(BOOLEAN)
    BY DEF Limits
  <2> QED
    BY <2>1, PointersAre DEF MemoryOk
<1>6. ASSUME NEW b \in Blocks PROVE IOOk(b)
  <2>1. b.weight \in Resources!PointerTo(Resources!Uint16) /\ b.max \in Seq(Resources!Throttle)
    BY DEF Blocks
  <2>2. IsPointer(b.weight)
    BY <2>1, PointersAre
  <2> QED
    BY <2>1, <2>2 DEF IOOk
<1> QED
  BY <1>3, <1>4, <1>5, <1>6 DEF ResourcesOk

LEMMA SequenceOf ==
  ASSUME NEW S, IsFiniteSet(S)
  PROVE  Resources!SetToSeq(S) \in Seq(S)
<1>1. Resources!SetToSeq(S) = SetToSeq(S)
  BY DEF Resources!SetToSeq, SetToSeq, Resources!Cardinality, Cardinality,
         Resources!IsInjective, IsInjective
<1> QED
  BY <1>1, SetToSeqIs

(* The converted resources of one spec.                                    *)
LEMMA ConvertedOk ==
  ASSUME NEW s \in Specs \cup {Resources!NoSpec}
  PROVE  /\ ResourcesOk(Resources!ToResources(s))
         /\ s.cpu = {} \/ s \in Specs
         /\ IsPointer(s.memory) /\ \A m \in s.memory : IsPointer(m.limit) /\ IsPointer(m.swap)
         /\ \A m \in s.memory : m.limit \subseteq Int /\ m.swap \subseteq Int
         /\ IsPointer(s.pids) /\ \A p \in s.pids : IsPointer(p.limit)
         /\ \A p \in s.pids : p.limit \subseteq Int
<1>1. s \in Specs \/ s = Resources!NoSpec
  OBVIOUS
<1>2. CASE s = Resources!NoSpec
  <2>1. /\ s.cpu = {} /\ s.memory = {} /\ s.hugetlb = {} /\ s.pids = {} /\ s.blockIO = {}
        /\ s.rdma = {}
    BY <1>2 DEF Resources!NoSpec
  <2> DEFINE r == Resources!ToResources(s)
  <2>2. r.cpu = {} /\ r.memory = {} /\ r.hugetlb = {} /\ r.pids = {} /\ r.io = {} /\ r.rdma = {}
    BY <2>1 DEF Resources!ToResources
  <2> HIDE DEF r
  <2>3. ResourcesOk(r)
    BY <2>2 DEF ResourcesOk, IsPointer
  <2> QED
    BY <2>1, <2>3 DEF IsPointer, r
<1>3. CASE s \in Specs
  <2> DEFINE r == Resources!ToResources(s)
             Limits == [limit : Resources!PointerTo(Resources!Int64),
                        swap : Resources!PointerTo(Resources!Int64),
                        reservation : Resources!PointerTo(Resources!Int64)]
             Shares == [shares : Resources!PointerTo(Resources!Uint64),
                        quota : Resources!PointerTo(Resources!Int64),
                        period : Resources!PointerTo(Resources!Uint64),
                        cpus : STRING, mems : STRING]
             Throttles == SUBSET Resources!Throttle
             Blocks == [weight : Resources!PointerTo(Resources!Uint16), throttle : Throttles]
             Pids == [limit : Resources!PointerTo(Resources!Int64)]
  <2> HIDE DEF Limits, Shares, Throttles, Blocks, Pids
  <2>0. s \in Resources!LinuxResources
    BY <1>3, SpecsFacts
  <2>1. s \in [cpu : Resources!PointerTo(Shares), memory : Resources!PointerTo(Limits),
              hugetlb : Resources!PointerTo(Seq(Resources!HugePage)),
              pids : Resources!PointerTo(Pids), blockIO : Resources!PointerTo(Blocks),
              rdma : Resources!PointerTo(SUBSET Resources!Link)]
    BY <2>0 DEF Resources!LinuxResources, Limits, Shares, Throttles, Blocks, Pids
  <2>2. /\ s.cpu \in Resources!PointerTo(Shares) /\ s.memory \in Resources!PointerTo(Limits)
        /\ s.hugetlb \in Resources!PointerTo(Seq(Resources!HugePage))
        /\ s.pids \in Resources!PointerTo(Pids)
        /\ s.blockIO \in Resources!PointerTo(Blocks)
        /\ s.rdma \in Resources!PointerTo(SUBSET Resources!Link)
    BY <2>1
  <2>3. /\ s.cpu \subseteq Shares /\ s.memory \subseteq Limits
        /\ s.hugetlb \subseteq Seq(Resources!HugePage) /\ s.pids \subseteq Pids
        /\ s.blockIO \subseteq Blocks /\ s.rdma \subseteq SUBSET Resources!Link
        /\ IsPointer(s.cpu) /\ IsPointer(s.memory) /\ IsPointer(s.hugetlb)
        /\ IsPointer(s.pids) /\ IsPointer(s.blockIO) /\ IsPointer(s.rdma)
    BY <2>2, PointersAre
  <2>4. /\ r.cpu = {Resources!CPU(c) : c \in s.cpu}
        /\ r.memory = {Resources!Memory(m) : m \in s.memory} /\ r.hugetlb = s.hugetlb
        /\ r.pids = UNION {p.limit : p \in s.pids} /\ r.io = {Resources!IO(b) : b \in s.blockIO}
        /\ r.rdma = {Resources!RDMA(e) : e \in s.rdma}
    BY DEF Resources!ToResources
  <2> HIDE DEF r
  <2>5. /\ IsPointer(r.cpu) /\ IsPointer(r.memory) /\ IsPointer(r.hugetlb) /\ IsPointer(r.io)
        /\ IsPointer(r.rdma) /\ r.hugetlb \subseteq Seq(Resources!HugePage)
    BY <2>3, <2>4 DEF IsPointer
  <2>6. \A p \in s.pids : p.limit \subseteq Resources!Int64 /\ IsPointer(p.limit)
    BY <2>3, PointersAre DEF Pids
  <2>7. IsPointer(r.pids) /\ r.pids \subseteq Resources!Int64
    BY <2>3, <2>4, <2>6 DEF IsPointer
  <2>8. ASSUME NEW c \in r.cpu PROVE CPUOk(c)
    <3>1. PICK z \in Shares : z \in s.cpu /\ c = Resources!CPU(z)
      BY <2>3, <2>4, <2>8
    <3>2. /\ IsPointer(z.shares) /\ z.shares \subseteq Resources!Uint64
          /\ IsPointer(z.quota) /\ z.quota \subseteq Resources!Int64
          /\ IsPointer(z.period) /\ z.period \subseteq Resources!Uint64
          /\ z.quota \in Resources!PointerTo(Resources!Int64)
          /\ z.period \in Resources!PointerTo(Resources!Uint64)
      BY PointersAre DEF Shares
    <3>3. /\ c.weight = {Resources!ConvertCPUSharesToCgroupV2Value(w) : w \in z.shares}
          /\ c.max = {Resources!NewCPUMax(z.quota, z.period) : p \in z.period}
      BY <3>1 DEF Resources!CPU
    <3>4. \A p \in z.period : Resources!NewCPUMax(z.quota, z.period) = << z.quota, z.period >>
      BY DEF Resources!NewCPUMax
    <3>5. << z.quota, z.period >> \in Resources!CPUMax
      BY <3>2 DEF Resources!CPUMax
    <3>6. IsPointer(c.weight) /\ IsPointer(c.max)
      BY <3>2, <3>3 DEF IsPointer
    <3> QED
      BY <3>3, <3>4, <3>5, <3>6 DEF CPUOk
  <2>9. \A m \in s.memory :
           /\ IsPointer(m.limit) /\ IsPointer(m.swap) /\ IsPointer(m.reservation)
           /\ m.limit \subseteq Resources!Int64 /\ m.swap \subseteq Resources!Int64
    BY <2>3, PointersAre DEF Limits
  <2>10. ASSUME NEW m \in r.memory PROVE MemoryOk(m)
    <3>1. PICK z \in s.memory : m = Resources!Memory(z)
      BY <2>4, <2>10
    <3>2. /\ m.swap = {IF z.limit = {} THEN w ELSE w - Resources!Deref(z.limit) : w \in z.swap}
          /\ m.min = {} /\ m.max = z.limit /\ m.low = z.reservation /\ m.high = {}
          /\ m.oomGroup = {}
      BY <3>1 DEF Resources!Memory
    <3>3. IsPointer(m.swap)
      BY <2>9, <3>2 DEF IsPointer
    <3> QED
      BY <2>9, <3>2, <3>3 DEF MemoryOk, IsPointer
  <2>11. ASSUME NEW b \in r.io PROVE IOOk(b)
    <3>1. PICK z \in Blocks : z \in s.blockIO /\ b = Resources!IO(z)
      BY <2>3, <2>4, <2>11
    <3>2. /\ IsPointer(z.weight) /\ z.throttle \subseteq Resources!Throttle
          /\ IsFiniteSet(z.throttle)
      <4>1. z.weight \in Resources!PointerTo(Resources!Uint16) /\ z.throttle \in Throttles
        BY DEF Blocks
      <4>2. z.throttle \subseteq Resources!Throttle
        BY <4>1 DEF Throttles
      <4> QED
        BY <1>3, <3>1, <4>1, <4>2, PointersAre, ResourcesFacts
    <3>3. /\ b.weight = {Resources!BFQWeight(w) : w \in z.weight}
          /\ b.max = Resources!SetToSeq(z.throttle)
      BY <3>1 DEF Resources!IO
    <3>4. b.max \in Seq(Resources!Throttle)
      BY <3>2, <3>3, SequenceOf
    <3> QED
      BY <3>2, <3>3, <3>4 DEF IOOk, IsPointer
  <2>12. ASSUME NEW e \in r.rdma PROVE e \in Seq(Resources!Link)
    <3>1. PICK z \in s.rdma : e = Resources!RDMA(z)
      BY <2>4, <2>12
    <3> DEFINE S == {d \in z : d.device # Resources!Blank /\ d.handles # {} /\ d.objects # {}}
    <3>2. IsFiniteSet(S) /\ S \subseteq Resources!Link
      <4>1. IsFiniteSet(z) /\ z \subseteq Resources!Link
        BY <1>3, <2>3, ResourcesFacts
      <4> QED
        BY <4>1, FS_Subset
    <3>3. e = Resources!SetToSeq(S)
      BY <3>1 DEF Resources!RDMA
    <3> HIDE DEF S
    <3> QED
      BY <3>2, <3>3, SequenceOf
  <2>13. ResourcesOk(r)
    BY <2>5, <2>7, <2>8, <2>10, <2>11, <2>12 DEF ResourcesOk
  <2>14. Resources!Int64 \subseteq Int
    BY ResourcesFacts DEF Resources!Int64, Resources!Unlimited
  <2> QED
    BY <1>3, <2>3, <2>6, <2>9, <2>13, <2>14 DEF r
<1> QED
  BY <1>1, <1>2, <1>3

(* EnabledControllers and Values agree.                                    *)
LEMMA WritesCovered ==
  ASSUME NEW r, ResourcesOk(r), NEW x \in Writes(r)
  PROVE  x.ctrl \in Resources!EnabledControllers(r) /\ Len(x.v) \in 1 .. 4
<1> DEFINE E == Resources!EnabledControllers(r)
<1>1. \A name, ctrl, p : \A w \in Stored(name, ctrl, p) :
         w.file = name /\ w.ctrl = ctrl /\ Len(w.v) \in 1 .. 4 /\ \E q \in p : w.v = << q >>
  BY DEF Stored, Resources!V
<1>2. ASSUME NEW c \in r.cpu, x \in CPUWrites(c) PROVE x.ctrl \in E /\ Len(x.v) \in 1 .. 4
  <2>1. CASE x \in Stored("cpu.weight", "cpu", c.weight)
    <3>1. x.ctrl = "cpu" /\ Len(x.v) \in 1 .. 4
      BY <1>1, <2>1
    <3> QED
      BY <1>2, <3>1 DEF Resources!EnabledControllers
  <2>2. ASSUME NEW m \in c.max, x = Resources!V("cpu.max", "cpu", m)
        PROVE  x.ctrl \in E /\ Len(x.v) \in 1 .. 4
    <3>1. x.ctrl = "cpu" /\ x.v = m
      BY <2>2 DEF Resources!V
    <3>2. m \in Resources!CPUMax
      BY <1>2 DEF ResourcesOk, CPUOk
    <3>3. Len(m) = 2
      BY <3>2 DEF Resources!CPUMax
    <3> QED
      BY <1>2, <3>1, <3>3 DEF Resources!EnabledControllers
  <2>3. CASE x \in Stored("cpuset.cpus", "cpuset", {c.cpus} \ {Resources!Blank})
    <3>1. x.ctrl = "cpuset" /\ Len(x.v) \in 1 .. 4 /\ \E q \in {c.cpus} \ {Resources!Blank} : TRUE
      BY <1>1, <2>3
    <3> QED
      BY <1>2, <3>1 DEF Resources!EnabledControllers
  <2>4. CASE x \in Stored("cpuset.mems", "cpuset", {c.mems} \ {Resources!Blank})
    <3>1. x.ctrl = "cpuset" /\ Len(x.v) \in 1 .. 4 /\ \E q \in {c.mems} \ {Resources!Blank} : TRUE
      BY <1>1, <2>4
    <3> QED
      BY <1>2, <3>1 DEF Resources!EnabledControllers
  <2> QED
    BY <1>2, <2>1, <2>2, <2>3, <2>4 DEF CPUWrites
<1>3. ASSUME NEW m \in r.memory, x \in MemoryWrites(m) PROVE x.ctrl \in E /\ Len(x.v) \in 1 .. 4
  <2>1. x.ctrl = "memory" /\ Len(x.v) \in 1 .. 4
    BY <1>1, <1>3 DEF MemoryWrites
  <2> QED
    BY <1>3, <2>1 DEF Resources!EnabledControllers
<1>4. ASSUME NEW l \in r.pids, x \in PidsWrites(l) PROVE x.ctrl \in E /\ Len(x.v) \in 1 .. 4
  <2>1. x.ctrl = "pids" /\ Len(x.v) \in 1 .. 4
    BY <1>1, <1>4 DEF PidsWrites
  <2> QED
    BY <1>4, <2>1 DEF Resources!EnabledControllers
<1>5. ASSUME NEW b \in r.io, x \in IOWrites(b) PROVE x.ctrl \in E /\ Len(x.v) \in 1 .. 4
  <2>1. x.ctrl = "io" /\ Len(x.v) \in 1 .. 4
    <3>1. CASE x \in Stored("io.bfq.weight", "io", b.weight \ {0})
      BY <1>1, <3>1
    <3>2. ASSUME NEW j \in 1 .. Len(b.max), x = Resources!V("io.max", "io", b.max[j])
          PROVE  x.ctrl = "io" /\ Len(x.v) \in 1 .. 4
      <4>1. b.max[j] \in Resources!Throttle
        BY <1>5 DEF ResourcesOk, IOOk
      <4>2. Len(b.max[j]) = 4
        BY <4>1 DEF Resources!Throttle
      <4> QED
        BY <3>2, <4>2 DEF Resources!V
    <3> QED
      BY <1>5, <3>1, <3>2 DEF IOWrites
  <2> QED
    BY <1>5, <2>1 DEF Resources!EnabledControllers
<1>6. ASSUME NEW e \in r.rdma, x \in RDMAWrites(e) PROVE x.ctrl \in E /\ Len(x.v) \in 1 .. 4
  <2>1. x.ctrl = "rdma" /\ Len(x.v) \in 1 .. 4
    BY <1>6 DEF RDMAWrites, Resources!V
  <2> QED
    BY <1>6, <2>1 DEF Resources!EnabledControllers
<1>7. ASSUME NEW h \in r.hugetlb, x \in HugeTlbWrites(h) PROVE x.ctrl \in E /\ Len(x.v) \in 1 .. 4
  <2>1. PICK j \in 1 .. Len(h) : x = Resources!V("hugetlb.max", "hugetlb", h[j])
    BY <1>7 DEF HugeTlbWrites
  <2>2. h[j] \in Resources!HugePage
    BY <1>7 DEF ResourcesOk
  <2>3. x.ctrl = "hugetlb" /\ Len(x.v) = 2
    BY <2>1, <2>2 DEF Resources!V, Resources!HugePage
  <2> QED
    BY <1>7, <2>3 DEF Resources!EnabledControllers
<1> QED
  BY <1>2, <1>3, <1>4, <1>5, <1>6, <1>7 DEF Writes

LEMMA EnabledAre ==
  ASSUME NEW r
  PROVE  Resources!EnabledControllers(r) \subseteq Resources!Controllers
  BY DEF Resources!EnabledControllers, Resources!Controllers

(* What is written to the files of the limits.                             *)
LEMMA LimitsWritten ==
  ASSUME NEW r, NEW x \in Writes(r)
  PROVE  /\ x.file = "memory.max" => \E m \in r.memory : \E q \in m.max : x.v = << q >>
         /\ x.file = "memory.swap.max" => \E m \in r.memory : \E q \in m.swap : x.v = << q >>
         /\ x.file = "pids.max" =>
               \E l \in r.pids : \E q \in {MaxOfPids(z) : z \in {l} \ {0}} : x.v = << q >>
<1>1. \A name, ctrl, p : \A w \in Stored(name, ctrl, p) :
         w.file = name /\ \E q \in p : w.v = << q >>
  BY DEF Stored, Resources!V
<1>2. ASSUME NEW c \in r.cpu, x \in CPUWrites(c)
      PROVE  x.file \in {"cpu.weight", "cpu.max", "cpuset.cpus", "cpuset.mems"}
  BY <1>1, <1>2 DEF CPUWrites, Resources!V
<1>3. ASSUME NEW b \in r.io, x \in IOWrites(b) PROVE x.file \in {"io.bfq.weight", "io.max"}
  BY <1>1, <1>3 DEF IOWrites, Resources!V
<1>4. ASSUME NEW e \in r.rdma, x \in RDMAWrites(e) PROVE x.file = "rdma.max"
  BY <1>4 DEF RDMAWrites, Resources!V
<1>5. ASSUME NEW h \in r.hugetlb, x \in HugeTlbWrites(h) PROVE x.file = "hugetlb.max"
  BY <1>5 DEF HugeTlbWrites, Resources!V
<1>6. ASSUME NEW l \in r.pids, x \in PidsWrites(l)
      PROVE  x.file = "pids.max" /\ \E q \in {MaxOfPids(z) : z \in {l} \ {0}} : x.v = << q >>
  <2> DEFINE p == {MaxOfPids(z) : z \in {l} \ {0}}
  <2>1. x \in Stored("pids.max", "pids", p)
    BY <1>6 DEF PidsWrites
  <2> HIDE DEF p
  <2>2. x.file = "pids.max" /\ \E q \in p : x.v = << q >>
    BY <1>1, <2>1
  <2> QED
    BY <2>2 DEF p
<1>7. ASSUME NEW m \in r.memory, x \in MemoryWrites(m)
      PROVE  /\ x.file \notin {"pids.max"}
             /\ x.file = "memory.max" => \E q \in m.max : x.v = << q >>
             /\ x.file = "memory.swap.max" => \E q \in m.swap : x.v = << q >>
  BY <1>1, <1>7 DEF MemoryWrites
<1> QED
  BY <1>2, <1>3, <1>4, <1>5, <1>6, <1>7 DEF Writes

-----------------------------------------------------------------------------
(* A value that is written to a file, or still will be.                    *)
Placed(name, v, r, held) ==
    /\ \A j \in 1 .. Len(r.todo) : r.todo[j].file = name => r.todo[j].v = v
    /\ \/ \E j \in 1 .. Len(r.todo) : r.todo[j].file = name
       \/ name \in DOMAIN held /\ held[name] = v

LimitsPlaced(r, held) ==
    /\ \A m \in r.spec.memory : \A l \in m.limit :
          /\ Placed("memory.max", << l >>, r, held)
          /\ \A w \in m.swap : Placed("memory.swap.max", << w - l >>, r, held)
    /\ \A p \in r.spec.pids : \A l \in p.limit :
          l # 0 => Placed("pids.max", << MaxOfPids(l) >>, r, held)

ResourceCall(r) ==
    /\ r = [at |-> r.at, op |-> r.op, spec |-> r.spec, res |-> r.res, todo |-> r.todo]
    /\ r.at \in {"idle", "write", "nil", "err"} /\ r.op \in {"new", "update", "systemd"}
    /\ r.spec \in Specs \cup {Resources!NoSpec} /\ ResourcesOk(r.res)
    /\ r.todo \in Seq(Writes(r.res))
    /\ r.todo # <<>> => r.at = "write"

UnitOf(r, u) ==
    /\ r.at = "nil"
    /\ \E version \in Versions : u = Resources!UnitProperties(r.res, version)
    /\ \A c \in r.res.cpu : \A m \in c.max : Resources!ExtractQuotaAndPeriod(m)[2] # 0

(* The controllers of what is still to be written are enabled, and what    *)
(* was written of the limits is in its file.                               *)
ResourceInv ==
    /\ ResourceCall(v2call) /\ on \subseteq Resources!Controllers
    /\ \A f \in DOMAIN file : Len(file[f]) \in 1 .. 4
    /\ v2call.op = "new" /\ v2call.todo # <<>> =>
          Resources!EnabledControllers(v2call.res) \subseteq on
    /\ v2call.at \in {"write", "nil"} /\ v2call.op # "systemd" => LimitsPlaced(v2call, file)
    /\ v2call.op = "systemd" => UnitOf(v2call, unit)
    /\ \A p \in unit : p.name # "CPUWeight" => p.v <= Resources!Infinity

LEMMA ListedValues ==
  ASSUME NEW r, ResourcesOk(r)
  PROVE  /\ Resources!Values(r) \in Seq(Writes(r))
         /\ \A x \in Writes(r) : \E j \in 1 .. Len(Resources!Values(r)) : Resources!Values(r)[j] = x
<1>1. Enumerates(Resources!Values(r), Writes(r))
  BY ValuesListed
<1> QED
  BY <1>1 DEF Enumerates

(* The whole list places the limits of the spec.                           *)
LEMMA LimitsStart ==
  ASSUME NEW s \in Specs \cup {Resources!NoSpec}, NEW r, NEW held,
         r.spec = s, r.res = Resources!ToResources(s), r.todo = Resources!Values(r.res)
  PROVE  LimitsPlaced(r, held)
<1> DEFINE t == r.res
<1>1. ResourcesOk(t)
  BY ConvertedOk
<1>2. /\ IsPointer(s.memory) /\ \A m \in s.memory : IsPointer(m.limit) /\ IsPointer(m.swap)
      /\ \A m \in s.memory : m.limit \subseteq Int /\ m.swap \subseteq Int
      /\ IsPointer(s.pids) /\ \A p \in s.pids : IsPointer(p.limit)
      /\ \A p \in s.pids : p.limit \subseteq Int
  BY ConvertedOk
<1>3. /\ t.memory = {Resources!Memory(m) : m \in s.memory}
      /\ t.pids = UNION {p.limit : p \in s.pids}
  BY DEF Resources!ToResources
<1>4. /\ r.todo \in Seq(Writes(t))
      /\ \A x \in Writes(t) : \E j \in 1 .. Len(r.todo) : r.todo[j] = x
  BY <1>1, ListedValues
<1> HIDE DEF t
<1>5. \A j \in 1 .. Len(r.todo) : r.todo[j] \in Writes(t)
  BY <1>4
<1>6. ASSUME NEW name, NEW v, NEW x \in Writes(t), x.file = name,
             \A w \in Writes(t) : w.file = name => w.v = v
      PROVE  Placed(name, v, r, held)
  <2>1. PICK j \in 1 .. Len(r.todo) : r.todo[j] = x
    BY <1>4, <1>6
  <2> QED
    BY <1>5, <1>6, <2>1 DEF Placed
<1>7. ASSUME NEW m \in s.memory, NEW l \in m.limit
      PROVE  /\ Placed("memory.max", << l >>, r, held)
             /\ \A w \in m.swap : Placed("memory.swap.max", << w - l >>, r, held)
  <2> DEFINE z == Resources!Memory(m)
  <2>1. s.memory = {m} /\ m.limit = {l} /\ Resources!Deref(m.limit) = l
    BY <1>2, <1>7, DerefIs
  <2>2. z.max = {l} /\ z.swap = {w - l : w \in m.swap}
    BY <2>1 DEF Resources!Memory
  <2>3. t.memory = {z}
    BY <1>3, <2>1
  <2> HIDE DEF z
  <2>4. MemoryWrites(z) \subseteq Writes(t)
    BY <2>3 DEF Writes
  <2>5. Placed("memory.max", << l >>, r, held)
    <3> DEFINE x == Resources!V("memory.max", "memory", << l >>)
    <3>1. x \in Writes(t) /\ x.file = "memory.max"
      BY <2>2, <2>4 DEF MemoryWrites, Stored, Resources!V
    <3>2. \A w \in Writes(t) : w.file = "memory.max" => w.v = << l >>
      BY <2>2, <2>3, LimitsWritten
    <3> QED
      BY <1>6, <3>1, <3>2
  <2>6. ASSUME NEW w \in m.swap PROVE Placed("memory.swap.max", << w - l >>, r, held)
    <3>1. z.swap = {w - l}
      <4>1. m.swap = {w}
        BY <1>2, <1>7, <2>6, DerefIs
      <4> QED
        BY <2>2, <4>1
    <3> DEFINE d == w - l
               x == Resources!V("memory.swap.max", "memory", << d >>)
    <3> HIDE DEF d
    <3>2. x \in Writes(t) /\ x.file = "memory.swap.max"
      BY <2>4, <3>1 DEF MemoryWrites, Stored, Resources!V, d
    <3>3. \A y \in Writes(t) : y.file = "memory.swap.max" => y.v = << d >>
      BY <2>3, <3>1, LimitsWritten DEF d
    <3>4. Placed("memory.swap.max", << d >>, r, held)
      BY <1>6, <3>2, <3>3
    <3> QED
      BY <3>4 DEF d
  <2> QED
    BY <2>5, <2>6
<1>8. ASSUME NEW p \in s.pids, NEW l \in p.limit, l # 0
      PROVE  Placed("pids.max", << MaxOfPids(l) >>, r, held)
  <2>1. t.pids = {l}
    <3>1. s.pids = {p} /\ p.limit = {l}
      BY <1>2, <1>8, DerefIs
    <3> QED
      BY <1>3, <3>1
  <2>2. {MaxOfPids(z) : z \in {l} \ {0}} = {MaxOfPids(l)}
    BY <1>8
  <2> DEFINE d == MaxOfPids(l)
             x == Resources!V("pids.max", "pids", << d >>)
  <2>3. x \in Writes(t) /\ x.file = "pids.max"
    BY <2>1, <2>2 DEF Writes, PidsWrites, Stored, Resources!V
  <2>4. \A y \in Writes(t) : y.file = "pids.max" => y.v = << d >>
    BY <2>1, <2>2, LimitsWritten
  <2> QED
    BY <1>6, <2>3, <2>4
<1> QED
  BY <1>7, <1>8 DEF LimitsPlaced

LEMMA ResourceStarts ==
  ASSUME NEW op \in {"new", "update"}, NEW in, Resources!Starts(op, in),
         \/ in \in Resources!Inputs
         \/ \E s \in Changed : in = << s, Resources!ToResources(s) >>
  PROVE  /\ ResourceCall(v2call') /\ \A held : LimitsPlaced(v2call', held)
         /\ v2call'.at = "write" /\ v2call'.op = op /\ v2call'.res = in[2]
<1> DEFINE r == [at |-> "write", op |-> op, spec |-> in[1], res |-> in[2],
                 todo |-> Resources!Values(in[2])]
<1>1. v2call' = r
  BY DEF Resources!Starts
<1>2. /\ r.at = "write" /\ r.op = op /\ r.spec = in[1] /\ r.res = in[2]
      /\ r.todo = Resources!Values(in[2])
      /\ r = [at |-> r.at, op |-> r.op, spec |-> r.spec, res |-> r.res, todo |-> r.todo]
  OBVIOUS
<1> HIDE DEF r
<1>3. \/ \E s \in Specs : in[1] = s /\ in[2] = Resources!ToResources(s)
      \/ in[1] = Resources!NoSpec /\ in[2] \in Direct
  BY ResourcesFacts DEF Resources!Inputs
<1>4. in[1] \in Specs \cup {Resources!NoSpec} /\ ResourcesOk(in[2])
  BY <1>3, ConvertedOk, DirectOk
<1>5. ResourceCall(r)
  BY <1>2, <1>4, ListedValues DEF ResourceCall
<1>6. ASSUME NEW held PROVE LimitsPlaced(r, held)
  <2>1. CASE \E s \in Specs : in[1] = s /\ in[2] = Resources!ToResources(s)
    BY <1>2, <2>1, LimitsStart
  <2>2. CASE in[1] = Resources!NoSpec
    <3>1. r.spec.memory = {} /\ r.spec.pids = {}
      BY <1>2, <2>2 DEF Resources!NoSpec
    <3> QED
      BY <3>1 DEF LimitsPlaced
  <2> QED
    BY <1>3, <2>1, <2>2
<1> QED
  BY <1>1, <1>2, <1>5, <1>6

LEMMA ResourceInit ==
  ASSUME Resources!Init
  PROVE  ResourceInv
<1> DEFINE s == Resources!NoSpec
           r == [at |-> "idle", op |-> "new", spec |-> s,
                 res |-> Resources!ToResources(s), todo |-> <<>>]
<1>1. file = <<>> /\ on = {} /\ unit = {} /\ v2call = r
  BY DEF Resources!Init
<1>2. ResourcesOk(Resources!ToResources(s))
  BY ConvertedOk
<1> HIDE DEF s
<1>3. /\ r.at = "idle" /\ r.op = "new" /\ r.spec = s /\ r.res = Resources!ToResources(s)
      /\ r.todo = <<>>
      /\ r = [at |-> r.at, op |-> r.op, spec |-> r.spec, res |-> r.res, todo |-> r.todo]
  OBVIOUS
<1> HIDE DEF r
<1>4. ResourceCall(r)
  BY <1>2, <1>3 DEF ResourceCall, s
<1>5. DOMAIN file = {}
  BY <1>1
<1> QED
  BY <1>1, <1>3, <1>4, <1>5 DEF ResourceInv

-----------------------------------------------------------------------------
(* The quota of the unit.                                                  *)
LEMMA DivIs ==
  ASSUME NEW a \in Nat, NEW p \in Nat \ {0}
  PROVE  /\ a \div p \in Nat /\ a \div p <= a
         /\ p * (a \div p) <= a /\ a < p * (a \div p) + p
  OBVIOUS

LEMMA ModIs ==
  ASSUME NEW a \in Int, NEW w \in Nat \ {0}
  PROVE  a % w \in 0 .. w - 1
  OBVIOUS

LEMMA ModDiv ==
  ASSUME NEW a \in Nat, NEW w \in Nat \ {0}
  PROVE  (a % w) + (a \div w) * w = a
<1>1. a \in Int /\ w \in Int /\ w > 0
  OBVIOUS
<1>2. a % w = a - (w * (a \div w))
  BY <1>1, SMTT(30)
<1> QED
  BY <1>2, DivIs

LEMMA ModSame ==
  ASSUME NEW a \in Nat, NEW w \in Nat \ {0}, a < w
  PROVE  a % w = a
  OBVIOUS

LEMMA ModMultiple ==
  ASSUME NEW k \in Nat, NEW w \in Nat \ {0}
  PROVE  (k * w) % w = 0
  OBVIOUS

(* Rounding up to a multiple does not reach the end of the integers: a     *)
(* period of 1 leaves whole percents, and a longer one halves them.        *)
LEMMA RoundingFits ==
  ASSUME NEW e \in Nat, NEW c \in Nat \ {0}, NEW w \in Nat, 2 * e < w, w > 100 * c
  PROVE  (e \div c + 1) * c \in Nat /\ (e \div c + 1) * c < w
<1>1. e \div c \in Nat /\ c * (e \div c) <= e
  BY DivIs
<1> DEFINE d == e \div c
           m == c * d
<1>2. d \in Nat /\ m \in Nat /\ m <= e /\ (d + 1) * c = m + c
  BY <1>1
<1> HIDE DEF d, m
<1>3. m + c \in Nat /\ m + c < w
  BY <1>2
<1> QED
  BY <1>2, <1>3 DEF d

LEMMA Rounded ==
  ASSUME NEW e \in Nat, NEW c \in Nat \ {0}
  PROVE  /\ (e \div c + 1) * c \in Nat /\ (e \div c + 1) * c > e
         /\ e % c # 0 => (e \div c + 1) * c - c < e
         /\ ((e \div c + 1) * c) % c = 0
<1> DEFINE d == e \div c
           m == d * c
<1>1. d \in Nat /\ m \in Nat /\ m <= e /\ e < m + c /\ (e % c) + m = e /\ e % c \in Int
  BY DivIs, ModDiv, ModIs
<1>2. (d + 1) * c = m + c /\ d + 1 \in Nat
  BY <1>1
<1>3. ((d + 1) * c) % c = 0
  BY <1>2, ModMultiple
<1> HIDE DEF d, m
<1>4. m + c \in Nat /\ m + c > e /\ (e % c # 0 => m + c - c < e)
  BY <1>1
<1> QED
  BY <1>2, <1>3, <1>4 DEF d

LEMMA QuotaTypes ==
  /\ Resources!Infinity = Word - 1 /\ Resources!Unlimited \in Nat
  /\ Resources!Unlimited < Word - 1 /\ Resources!Int64 \subseteq Int
  /\ \A n \in Resources!Int64 : n < Word - 1
  /\ Resources!Uint64 = 0 .. Word - 1 /\ Resources!DefaultPeriod \in Nat \ {0}
  /\ Resources!DefaultPeriod < Word - 1
<1>1. Word \div 2 \in Nat /\ 2 * (Word \div 2) <= Word /\ Word \in Nat /\ Word > 262144
  BY ResourcesFacts
<1>2. Second = 100 * Percent /\ Percent \in Nat \ {0} /\ Word > Second
  BY ResourcesFacts
<1>3. Second \div 10 = 10 * Percent
  BY <1>2
<1> QED
  BY <1>1, <1>2, <1>3
  DEF Resources!Infinity, Resources!Unlimited, Resources!Int64, Resources!Uint64,
      Resources!DefaultPeriod

LEMMA ExtractIs ==
  ASSUME NEW m \in Resources!CPUMax
  PROVE  /\ Resources!ExtractQuotaAndPeriod(m)[1] \in Int
         /\ Resources!ExtractQuotaAndPeriod(m)[2] \in 0 .. Word - 1
<1> DEFINE x == Resources!ExtractQuotaAndPeriod(m)
<1>1. /\ m[1] \in Resources!PointerTo(Resources!Int64)
      /\ m[2] \in Resources!PointerTo(Resources!Uint64)
  BY DEF Resources!CPUMax
<1>2. m[1] \subseteq Resources!Int64 /\ m[2] \subseteq Resources!Uint64
  BY <1>1, PointersAre
<1>3. \A p : p # {} => Resources!Deref(p) \in p
  BY DEF Resources!Deref
<1>4. x[1] \in Resources!Int64 \cup {Resources!Unlimited}
  BY <1>2, <1>3 DEF Resources!ExtractQuotaAndPeriod
<1>5. x[2] \in Resources!Uint64 \cup {Resources!DefaultPeriod}
  BY <1>2, <1>3 DEF Resources!ExtractQuotaAndPeriod
<1> HIDE DEF x
<1>6. x[1] \in Int
  <2>1. Resources!Int64 \subseteq Int /\ Resources!Unlimited \in Int
    BY QuotaTypes
  <2> QED
    BY ONLY <1>4, <2>1
<1>7. x[2] \in 0 .. Word - 1
  <2> DEFINE S == 0 .. Word - 1
  <2>1. Resources!DefaultPeriod \in S
    BY QuotaTypes, ResourcesFacts
  <2>2. Resources!Uint64 = S
    BY QuotaTypes
  <2> HIDE DEF S
  <2>3. x[2] \in S
    BY ONLY <1>5, <2>1, <2>2
  <2> QED
    BY <2>3 DEF S
<1> QED
  BY <1>6, <1>7 DEF x

LEMMA QuotaBounded ==
  ASSUME NEW q \in Int, NEW p \in Nat \ {0}
  PROVE  Resources!QuotaPerSec(q, p) <= Resources!Infinity
<1>1. Word \in Nat \ {0} /\ Second \in Nat /\ Resources!Infinity = Word - 1
  BY ResourcesFacts, QuotaTypes
<1>2. CASE q <= 0
  BY <1>1, <1>2 DEF Resources!QuotaPerSec
<1>3. CASE q > 0
  <2> DEFINE a == (q * Second) % Word
             e == a \div p
             k == (e \div Percent + 1) * Percent
  <2>1. a \in 0 .. Word - 1
    <3>1. q * Second \in Int
      BY <1>1
    <3> QED
      BY <1>1, <3>1, ModIs
  <2> HIDE DEF a
  <2>2. e \in Nat /\ e <= a
    BY <2>1, DivIs
  <2> HIDE DEF e
  <2>3. k \in Int
    <3>1. Percent \in Nat \ {0}
      BY ResourcesFacts
    <3> QED
      BY <2>2, <3>1, Rounded
  <2> HIDE DEF k
  <2>4. k % Word \in 0 .. Word - 1
    BY <1>1, <2>3, ModIs
  <2>5. Resources!QuotaPerSec(q, p) = IF e % Percent = 0 THEN e ELSE k % Word
    BY <1>3 DEF Resources!QuotaPerSec, a, e, k
  <2> QED
    BY <1>1, <2>1, <2>2, <2>4, <2>5
<1> QED
  BY <1>2, <1>3

(* What CPUQuotaPerSecUSec is, when the quota is not infinite and does not *)
(* overflow.                                                               *)
LEMMA QuotaRounded ==
  ASSUME NEW q \in Nat \ {0}, NEW p \in Nat \ {0}, q * Second < Word,
         NEW u, u = Resources!QuotaPerSec(q, p)
  PROVE  /\ u \in Nat /\ u % Percent = 0
         /\ (u + 1) * p > q * Second /\ (u - Percent) * p < q * Second
<1> DEFINE a == q * Second
           e == a \div p
           k == (e \div Percent + 1) * Percent
<1>1. /\ Percent \in Nat \ {0} /\ Word \in Nat \ {0} /\ Second = 100 * Percent /\ Second \in Nat
      /\ Word > 100 * Percent
  BY ResourcesFacts
<1>2. a \in Nat /\ a < Word /\ a > 0
  BY <1>1
<1>3. a % Word = a
  BY <1>1, <1>2, ModSame
<1>4. q > 0
  OBVIOUS
<1>5. u = IF e % Percent = 0 THEN e ELSE k % Word
  BY <1>3, <1>4 DEF Resources!QuotaPerSec
<1>6. p = 1 => a % Percent = 0
  <2>1. a = (100 * q) * Percent
    BY <1>1
  <2>2. 100 * q \in Nat
    OBVIOUS
  <2> QED
    BY <1>1, <2>1, <2>2, ModMultiple
<1> HIDE DEF a
<1>7. e \in Nat /\ e <= a /\ p * e <= a /\ a < p * e + p
  BY <1>2, DivIs
<1>8. p = 1 => e = a
  BY <1>2, <1>7
<1> HIDE DEF e
<1>9. CASE e % Percent = 0
  <2>1. u = e
    BY <1>5, <1>9
  <2>2. (e + 1) * p = p * e + p /\ (e - Percent) * p = p * e - Percent * p /\ Percent * p > 0
    BY <1>1, <1>7
  <2>3. /\ (e + 1) * p > a /\ (e - Percent) * p < a
    BY <1>1, <1>2, <1>7, <2>2
  <2> QED
    BY <1>7, <1>9, <2>1, <2>3 DEF a
<1>10. CASE e % Percent # 0
  <2>1. p >= 2
    BY <1>6, <1>8, <1>10
  <2>2. 2 * e <= p * e
    BY <1>7, <2>1
  <2>3. 2 * e < Word
    BY <1>1, <1>2, <1>7, <2>2
  <2>4. k \in Nat /\ k < Word
    BY <1>1, <1>7, <2>3, RoundingFits
  <2>5. k > e /\ k - Percent < e /\ k % Percent = 0
    BY <1>1, <1>7, <1>10, Rounded
  <2> HIDE DEF k
  <2>6. u = k
    BY <1>1, <1>5, <1>10, <2>4, ModSame
  <2>7. k + 1 >= e + 1 /\ k - Percent <= e - 1 /\ k - Percent \in Int
    BY <1>1, <1>7, <2>4, <2>5
  <2>8. (k + 1) * p >= (e + 1) * p /\ (e + 1) * p = p * e + p
    BY <1>7, <2>4, <2>7
  <2>9. (k - Percent) * p <= (e - 1) * p /\ (e - 1) * p = p * e - p
    <3> DEFINE d == k - Percent
    <3>1. d \in Int /\ d <= e - 1
      BY <2>7
    <3> HIDE DEF d
    <3>2. d * p <= (e - 1) * p /\ (e - 1) * p = p * e - p
      BY ONLY <1>7, <3>1, p \in Nat \ {0}
    <3> QED
      BY <3>2 DEF d
  <2>10. (k + 1) * p > a
    BY <1>2, <1>7, <2>4, <2>8
  <2>11. (k - Percent) * p < a
    <3> DEFINE d == (k - Percent) * p
    <3>1. d \in Int
      BY <2>7
    <3>2. d <= p * e - p
      BY <2>9
    <3> HIDE DEF d
    <3>3. d < a
      BY <1>2, <1>7, <3>1, <3>2
    <3> QED
      BY <3>3 DEF d
  <2> QED
    BY <2>4, <2>5, <2>6, <2>10, <2>11 DEF a
<1> QED
  BY <1>9, <1>10

LEMMA UnitBounded ==
  ASSUME NEW r, ResourcesOk(r), NEW version,
         \A c \in r.cpu : \A m \in c.max : Resources!ExtractQuotaAndPeriod(m)[2] # 0,
         NEW p \in Resources!UnitProperties(r, version), p.name # "CPUWeight"
  PROVE  p.v <= Resources!Infinity
<1>1. /\ Resources!Infinity = Word - 1 /\ Word \in Nat /\ Resources!Int64 \subseteq Int
      /\ \A n \in Resources!Int64 : n <= Resources!Infinity
  BY QuotaTypes, ResourcesFacts
<1>2. \A name, q : \A w \in Resources!NotZero(name, q) : w.name = name /\ w.v \in q
  BY DEF Resources!NotZero, Resources!P
<1>3. ASSUME NEW m \in r.memory,
             p \in Resources!NotZero("MemoryMin", m.min) \cup Resources!NotZero("MemoryMax", m.max)
      PROVE  p.v <= Resources!Infinity
  <2>1. m.min \subseteq Resources!Int64 /\ m.max \subseteq Resources!Int64
    BY <1>3 DEF ResourcesOk, MemoryOk
  <2> QED
    BY <1>1, <1>2, <1>3, <2>1
<1>4. ASSUME NEW c \in r.cpu PROVE p \notin Resources!NotZero("CPUWeight", c.weight)
  BY <1>2
<1>5. ASSUME NEW c \in r.cpu, NEW m \in c.max, p \in Resources!QuotaProperties(m, version)
      PROVE  p.v <= Resources!Infinity
  <2> DEFINE x == Resources!ExtractQuotaAndPeriod(m)
  <2>1. m \in Resources!CPUMax
    BY <1>5 DEF ResourcesOk, CPUOk
  <2>2. x[1] \in Int /\ x[2] \in 0 .. Word - 1 /\ x[2] # 0
    BY <2>1, ExtractIs
  <2>3. \/ p.v = x[2]
        \/ p.v = Resources!QuotaPerSec(x[1], x[2])
    BY <1>5 DEF Resources!QuotaProperties, Resources!P
  <2> HIDE DEF x
  <2>4. x[2] \in Nat \ {0} /\ x[2] <= Resources!Infinity
    BY <1>1, <2>2
  <2>5. Resources!QuotaPerSec(x[1], x[2]) <= Resources!Infinity
    BY <2>2, <2>4, QuotaBounded
  <2> QED
    BY <2>3, <2>4, <2>5
<1>6. ASSUME NEW q \in r.pids, p = Resources!P("TasksMax", q) PROVE p.v <= Resources!Infinity
  <2>1. p.v \in Resources!Int64
    BY <1>6 DEF ResourcesOk, Resources!P
  <2> QED
    BY <1>1, <2>1
<1> QED
  BY <1>3, <1>4, <1>5, <1>6 DEF Resources!UnitProperties

(* The one quota of the unit, when there is a cpu.max.                     *)
LEMMA UnitQuota ==
  ASSUME NEW r, ResourcesOk(r), NEW version, NEW c \in r.cpu, NEW m \in c.max,
         unit = Resources!UnitProperties(r, version)
  PROVE  LET x == Resources!ExtractQuotaAndPeriod(m)
         IN  Resources!Quotas = {Resources!QuotaPerSec(x[1], x[2])}
<1> DEFINE x == Resources!ExtractQuotaAndPeriod(m)
           w == Resources!QuotaPerSec(x[1], x[2])
           Name == "CPUQuotaPerSecUSec"
<1>1. r.cpu = {c} /\ c.max = {m}
  <2>1. IsPointer(r.cpu) /\ IsPointer(c.max)
    BY DEF ResourcesOk, CPUOk
  <2> QED
    BY <2>1, DerefIs
<1>2. \A name, q : \A y \in Resources!NotZero(name, q) : y.name = name
  BY DEF Resources!NotZero, Resources!P
<1>3. /\ Resources!P(Name, w) \in Resources!QuotaProperties(m, version)
      /\ \A y \in Resources!QuotaProperties(m, version) : y.name = Name => y.v = w
  BY DEF Resources!QuotaProperties, Resources!P
<1> HIDE DEF x, w
<1>4. Resources!P(Name, w) \in unit
  BY <1>1, <1>3 DEF Resources!UnitProperties
<1>5. ASSUME NEW y \in unit, y.name = Name PROVE y.v = w
  <2>1. \A z \in r.memory :
           y \notin Resources!NotZero("MemoryMin", z.min) \cup Resources!NotZero("MemoryMax", z.max)
    BY <1>2, <1>5
  <2>2. \A z \in r.cpu : y \notin Resources!NotZero("CPUWeight", z.weight)
    BY <1>2, <1>5
  <2>3. \A z \in r.pids : y # Resources!P("TasksMax", z)
    BY <1>5 DEF Resources!P
  <2>4. y \in Resources!QuotaProperties(m, version)
    BY <1>1, <2>1, <2>2, <2>3 DEF Resources!UnitProperties
  <2> QED
    BY <1>3, <1>5, <2>4
<1>6. Resources!P(Name, w).name = Name /\ Resources!P(Name, w).v = w
  BY DEF Resources!P
<1>7. Resources!Quotas = {w}
  BY <1>4, <1>5, <1>6 DEF Resources!Quotas
<1> QED
  BY <1>7 DEF w, x

-----------------------------------------------------------------------------
(* The steps.                                                              *)
LEMMA ResourceNew ==
  ASSUME ResourceInv, Resources!New
  PROVE  ResourceInv'
<1>1. PICK in \in Resources!Inputs :
         Resources!Starts("new", in) /\ on' = Resources!EnabledControllers(in[2])
  BY DEF Resources!New
<1>2. file' = file /\ unit' = unit
  BY DEF Resources!New
<1>3. /\ ResourceCall(v2call') /\ \A held : LimitsPlaced(v2call', held)
      /\ v2call'.at = "write" /\ v2call'.op = "new" /\ v2call'.res = in[2]
  BY <1>1, ResourceStarts
<1>4. LimitsPlaced(v2call', file')
  BY <1>3
<1>5. on' \subseteq Resources!Controllers /\ Resources!EnabledControllers(v2call'.res) \subseteq on'
  BY <1>1, <1>3, EnabledAre
<1> QED
  BY <1>2, <1>3, <1>4, <1>5 DEF ResourceInv

LEMMA ResourceUpdate ==
  ASSUME ResourceInv, Resources!Update
  PROVE  ResourceInv'
<1>1. PICK s \in Changed : Resources!Starts("update", << s, Resources!ToResources(s) >>)
  BY DEF Resources!Update
<1>2. file' = file /\ unit' = unit /\ on' = on
  BY DEF Resources!Update
<1>3. /\ ResourceCall(v2call') /\ \A held : LimitsPlaced(v2call', held)
      /\ v2call'.at = "write" /\ v2call'.op = "update"
  BY <1>1, ResourceStarts
<1>4. LimitsPlaced(v2call', file')
  BY <1>3
<1> QED
  BY <1>2, <1>3, <1>4 DEF ResourceInv

LEMMA ResourceNewSystemd ==
  ASSUME ResourceInv, Resources!NewSystemd
  PROVE  ResourceInv'
<1>1. PICK in \in Resources!Inputs, version \in Versions :
         /\ \A c \in in[2].cpu : \A m \in c.max : Resources!ExtractQuotaAndPeriod(m)[2] # 0
         /\ v2call' = [at |-> "nil", op |-> "systemd", spec |-> in[1], res |-> in[2],
                       todo |-> <<>>]
         /\ unit' = Resources!UnitProperties(in[2], version)
  BY DEF Resources!NewSystemd
<1> DEFINE r == [at |-> "nil", op |-> "systemd", spec |-> in[1], res |-> in[2], todo |-> <<>>]
<1>2. file' = file /\ on' = on
  BY DEF Resources!NewSystemd
<1>3. in[1] \in Specs \cup {Resources!NoSpec} /\ ResourcesOk(in[2])
  <2>1. \/ \E s \in Specs : in[1] = s /\ in[2] = Resources!ToResources(s)
        \/ in[1] = Resources!NoSpec /\ in[2] \in Direct
    BY DEF Resources!Inputs
  <2> QED
    BY <2>1, ConvertedOk, DirectOk
<1>4. /\ r.at = "nil" /\ r.op = "systemd" /\ r.spec = in[1] /\ r.res = in[2] /\ r.todo = <<>>
      /\ r = [at |-> r.at, op |-> r.op, spec |-> r.spec, res |-> r.res, todo |-> r.todo]
  OBVIOUS
<1>5. v2call' = r
  BY <1>1
<1> HIDE DEF r
<1>6. ResourceCall(r)
  BY <1>3, <1>4 DEF ResourceCall
<1>7. UnitOf(r, unit')
  BY <1>1, <1>4 DEF UnitOf
<1>8. \A p \in unit' : p.name # "CPUWeight" => p.v <= Resources!Infinity
  BY <1>1, <1>3, UnitBounded
<1> QED
  BY <1>2, <1>4, <1>5, <1>6, <1>7, <1>8 DEF ResourceInv

(* One value less to write, and it is in its file.                         *)
LEMMA PlacedOn ==
  ASSUME NEW S, NEW r, r.todo \in Seq(S), r.todo # <<>>, NEW s, s.todo = Tail(r.todo),
         NEW held, NEW more, NEW x, x = Head(r.todo),
         more = [f \in DOMAIN held \cup {x.file} |-> IF f = x.file THEN x.v ELSE held[f]],
         NEW name, NEW v, Placed(name, v, r, held)
  PROVE  Placed(name, v, s, more)
<1>1. /\ Len(r.todo) \in Nat /\ Len(r.todo) >= 1 /\ Len(s.todo) = Len(r.todo) - 1
      /\ \A j \in 1 .. Len(s.todo) : s.todo[j] = r.todo[j + 1] /\ j + 1 \in 1 .. Len(r.todo)
      /\ x = r.todo[1]
  OBVIOUS
<1>2. \A j \in 1 .. Len(r.todo) : r.todo[j].file = name => r.todo[j].v = v
  BY DEF Placed
<1>3. \A j \in 1 .. Len(s.todo) : s.todo[j].file = name => s.todo[j].v = v
  BY <1>1, <1>2
<1>4. ASSUME name # x.file, NEW j \in 1 .. Len(r.todo), r.todo[j].file = name
      PROVE  \E n \in 1 .. Len(s.todo) : s.todo[n].file = name
  <2>1. j # 1
    BY <1>1, <1>4
  <2>2. j - 1 \in 1 .. Len(s.todo) /\ s.todo[j - 1] = r.todo[j]
    <3>1. j - 1 \in 1 .. Len(s.todo)
      BY <1>1, <2>1
    <3>2. s.todo[j - 1] = r.todo[(j - 1) + 1] /\ (j - 1) + 1 = j
      BY <1>1, <3>1
    <3> QED
      BY <3>1, <3>2
  <2> QED
    BY <1>4, <2>2
<1>5. CASE name = x.file
  <2>1. x.v = v
    BY <1>1, <1>2, <1>5
  <2>2. name \in DOMAIN more /\ more[name] = v
    BY <1>5, <2>1
  <2> QED
    BY <1>3, <2>2 DEF Placed
<1>6. CASE name # x.file
  <2>1. CASE name \in DOMAIN held /\ held[name] = v
    <3>1. name \in DOMAIN more /\ more[name] = v
      BY <1>6, <2>1
    <3> QED
      BY <1>3, <3>1 DEF Placed
  <2>2. CASE \E j \in 1 .. Len(r.todo) : r.todo[j].file = name
    BY <1>3, <1>4, <1>6, <2>2 DEF Placed
  <2> QED
    BY <2>1, <2>2 DEF Placed
<1> QED
  BY <1>5, <1>6

LEMMA CallWith ==
  ASSUME NEW r, NEW a, NEW t,
         r = [at |-> r.at, op |-> r.op, spec |-> r.spec, res |-> r.res, todo |-> r.todo]
  PROVE  /\ [r EXCEPT !.at = a, !.todo = t] =
               [at |-> a, op |-> r.op, spec |-> r.spec, res |-> r.res, todo |-> t]
         /\ [r EXCEPT !.todo = t] =
               [at |-> r.at, op |-> r.op, spec |-> r.spec, res |-> r.res, todo |-> t]
<1> DEFINE A == {r.at, a}
           O == {r.op}
           S == {r.spec}
           R == {r.res}
           T == {r.todo, t}
<1>1. r \in [at : A, op : O, spec : S, res : R, todo : T] /\ a \in A /\ t \in T
  OBVIOUS
<1> HIDE DEF A, O, S, R, T
<1>2. [r EXCEPT !.todo = t] =
         [at |-> r.at, op |-> r.op, spec |-> r.spec, res |-> r.res, todo |-> t]
  BY ONLY <1>1
<1>3. [r EXCEPT !.at = a, !.todo = t] =
         [at |-> a, op |-> r.op, spec |-> r.spec, res |-> r.res, todo |-> t]
  <2> DEFINE e == [r EXCEPT !.at = a, !.todo = t]
  <2>1. /\ e \in [at : A, op : O, spec : S, res : R, todo : T]
        /\ e.at = a /\ e.op = r.op /\ e.spec = r.spec /\ e.res = r.res /\ e.todo = t
    BY ONLY <1>1
  <2> HIDE DEF e
  <2>2. e = [at |-> a, op |-> r.op, spec |-> r.spec, res |-> r.res, todo |-> t]
    BY ONLY <2>1
  <2> QED
    BY <2>2 DEF e
<1> QED
  BY <1>2, <1>3

LEMMA HeadTail ==
  ASSUME NEW S, NEW t \in Seq(S), t # <<>>
  PROVE  Head(t) \in S /\ Tail(t) \in Seq(S)
  OBVIOUS

LEMMA ResourceWrite ==
  ASSUME ResourceInv, Resources!Write
  PROVE  ResourceInv'
<1> DEFINE r == v2call
           x == Head(r.todo)
           more == [f \in DOMAIN file \cup {x.file} |-> IF f = x.file THEN x.v ELSE file[f]]
           s == [r EXCEPT !.todo = Tail(r.todo)]
           e == [r EXCEPT !.at = "err", !.todo = <<>>]
<1>1. /\ r.at = "write" /\ r.todo # <<>> /\ on' = on /\ unit' = unit
      /\ \/ file' = more /\ v2call' = s
         \/ file' = file /\ v2call' = e
  BY DEF Resources!Write
<1>2. ResourceCall(r)
  BY DEF ResourceInv
<1>3. r = [at |-> r.at, op |-> r.op, spec |-> r.spec, res |-> r.res, todo |-> r.todo]
  BY <1>2 DEF ResourceCall
<1>4. r.op # "systemd"
  BY <1>1 DEF ResourceInv, UnitOf
<1>5. CASE file' = more /\ v2call' = s
  <2>1. /\ s.at = r.at /\ s.op = r.op /\ s.spec = r.spec /\ s.res = r.res /\ s.todo = Tail(r.todo)
        /\ s = [at |-> s.at, op |-> s.op, spec |-> s.spec, res |-> s.res, todo |-> s.todo]
    <3> DEFINE t == Tail(r.todo)
    <3> HIDE DEF t
    <3>1. s = [at |-> r.at, op |-> r.op, spec |-> r.spec, res |-> r.res, todo |-> t]
      BY <1>3, CallWith DEF t
    <3> HIDE DEF s
    <3> QED
      BY ONLY <3>1 DEF t
  <2> HIDE DEF s
  <2> DEFINE W == Writes(r.res)
  <2>2. r.todo \in Seq(W)
    BY <1>2 DEF ResourceCall
  <2>3. s.todo \in Seq(W) /\ x \in W
    BY <1>1, <2>1, <2>2, HeadTail
  <2> HIDE DEF W
  <2>4. ResourceCall(s)
    BY <1>1, <1>2, <2>1, <2>3 DEF ResourceCall, W
  <2>5. Len(x.v) \in 1 .. 4
    BY <1>2, <2>3, WritesCovered DEF ResourceCall, W
  <2>6. \A f \in DOMAIN more : Len(more[f]) \in 1 .. 4
    BY <2>5 DEF ResourceInv
  <2> HIDE DEF more
  <2>7. ASSUME NEW name, NEW v, Placed(name, v, r, file) PROVE Placed(name, v, s, more)
    <3>1. more = [f \in DOMAIN file \cup {x.file} |-> IF f = x.file THEN x.v ELSE file[f]]
      BY DEF more
    <3>2. r.todo # <<>> /\ s.todo = Tail(r.todo) /\ x = Head(r.todo)
      BY <1>1, <2>1
    <3> HIDE DEF r, x
    <3> QED
      BY ONLY <2>2, <2>7, <3>1, <3>2, PlacedOn
  <2>8. LimitsPlaced(r, file)
    BY <1>1, <1>4 DEF ResourceInv
  <2>9. LimitsPlaced(s, more)
    BY <2>1, <2>7, <2>8 DEF LimitsPlaced
  <2>10. /\ on \subseteq Resources!Controllers
         /\ r.op = "new" => Resources!EnabledControllers(r.res) \subseteq on
         /\ \A p \in unit : p.name # "CPUWeight" => p.v <= Resources!Infinity
    BY <1>1 DEF ResourceInv
  <2> QED
    BY <1>1, <1>4, <1>5, <2>1, <2>4, <2>6, <2>9, <2>10 DEF ResourceInv
<1>6. CASE file' = file /\ v2call' = e
  <2>1. /\ e.at = "err" /\ e.op = r.op /\ e.spec = r.spec /\ e.res = r.res /\ e.todo = <<>>
        /\ e = [at |-> e.at, op |-> e.op, spec |-> e.spec, res |-> e.res, todo |-> e.todo]
    <3> DEFINE t == <<>>
    <3> HIDE DEF t
    <3>1. e = [at |-> "err", op |-> r.op, spec |-> r.spec, res |-> r.res, todo |-> t]
      BY <1>3, CallWith DEF t
    <3> HIDE DEF e
    <3> QED
      BY ONLY <3>1 DEF t
  <2> HIDE DEF e
  <2>2. ResourceCall(e)
    BY <1>2, <2>1 DEF ResourceCall
  <2> QED
    BY <1>1, <1>4, <1>6, <2>1, <2>2 DEF ResourceInv
<1> QED
  BY <1>1, <1>5, <1>6

LEMMA ResourceReturn ==
  ASSUME ResourceInv, Resources!Return
  PROVE  ResourceInv'
<1> DEFINE r == v2call
           s == [r EXCEPT !.at = "nil"]
<1>1. /\ r.at = "write" /\ r.todo = <<>> /\ v2call' = s
      /\ file' = file /\ on' = on /\ unit' = unit
  BY DEF Resources!Return
<1>2. ResourceCall(r)
  BY DEF ResourceInv
<1>3. r = [at |-> r.at, op |-> r.op, spec |-> r.spec, res |-> r.res, todo |-> r.todo]
  BY <1>2 DEF ResourceCall
<1>4. /\ s.at = "nil" /\ s.op = r.op /\ s.spec = r.spec /\ s.res = r.res /\ s.todo = r.todo
      /\ s = [at |-> s.at, op |-> s.op, spec |-> s.spec, res |-> s.res, todo |-> s.todo]
  BY <1>3
<1> HIDE DEF s
<1>5. ResourceCall(s)
  BY <1>1, <1>2, <1>4 DEF ResourceCall
<1>6. r.op # "systemd"
  BY <1>1 DEF ResourceInv, UnitOf
<1>7. LimitsPlaced(r, file)
  BY <1>1, <1>6 DEF ResourceInv
<1>8. LimitsPlaced(s, file)
  BY <1>4, <1>7 DEF LimitsPlaced, Placed
<1> QED
  BY <1>1, <1>4, <1>5, <1>6, <1>8 DEF ResourceInv

LEMMA ResourceNext ==
  ResourceInv /\ [Resources!Next]_(Resources!vars) => ResourceInv'
<1> SUFFICES ASSUME ResourceInv, [Resources!Next]_(Resources!vars) PROVE ResourceInv'
  OBVIOUS
<1>1. CASE UNCHANGED Resources!vars
  <2>1. file' = file /\ on' = on /\ v2call' = v2call /\ unit' = unit
    BY <1>1 DEF Resources!vars
  <2> QED
    BY <2>1 DEF ResourceInv
<1>2. CASE Resources!New
  BY <1>2, ResourceNew
<1>3. CASE Resources!Update
  BY <1>3, ResourceUpdate
<1>4. CASE Resources!NewSystemd
  BY <1>4, ResourceNewSystemd
<1>5. CASE Resources!Write
  BY <1>5, ResourceWrite
<1>6. CASE Resources!Return
  BY <1>6, ResourceReturn
<1> QED
  BY <1>1, <1>2, <1>3, <1>4, <1>5, <1>6 DEF Resources!Next

LEMMA ResourceBehaves ==
  SpecAll => Resources!Init /\ [][Resources!Next]_(Resources!vars)
<1>1. StartAll => Resources!Init
  BY DEF StartAll
<1>2. [NextAll]_allVars => [Resources!Next]_(Resources!vars)
  BY DEF NextAll, allVars, resourceVars, Resources!vars, Others, CpusetStep, MemoryStep,
         DevicesStep, ControlStep, ReaderStep, ResourceStep, StatStep
<1> QED
  BY <1>1, <1>2, PTL DEF SpecAll

LEMMA ResourceHolds ==
  SpecAll => []ResourceInv
<1>1. Resources!Init => ResourceInv
  BY ResourceInit
<1> QED
  BY <1>1, ResourceNext, ResourceBehaves, PTL

(* Every value that NewManager writes is one of a controller that it has   *)
(* enabled: EnabledControllers (manager.go:123) and Values (manager.go:100)*)
(* agree about every combination of resources.                             *)
THEOREM EnabledBeforeWritten == SpecAll => []ControllersCover
<1>1. ResourceInv => ControllersCover
  <2> SUFFICES ASSUME ResourceInv, v2call.op = "new", NEW j \in DOMAIN v2call.todo
               PROVE  v2call.todo[j].ctrl \in on
    BY DEF ControllersCover, Resources!ControllersCover
  <2>1. v2call.todo \in Seq(Writes(v2call.res)) /\ ResourcesOk(v2call.res)
    BY DEF ResourceInv, ResourceCall
  <2>2. v2call.todo[j] \in Writes(v2call.res) /\ v2call.todo # <<>>
    BY <2>1
  <2> QED
    BY <2>1, <2>2, WritesCovered DEF ResourceInv
<1> QED
  BY <1>1, ResourceHolds, PTL

(* When NewManager or Update return without an error, the limits of memory *)
(* and of swap in the files add up to the limit of both that the v1 spec   *)
(* gave, however often they were written (utils.go:202), and the limit of  *)
(* processes is its own, or none.                                          *)
THEOREM LimitsAreKept == SpecAll => []LimitsAddUp
<1>1. ResourceInv => LimitsAddUp
  <2> SUFFICES ASSUME ResourceInv, v2call.at = "nil", v2call.op # "systemd"
               PROVE  Resources!LimitsAddUp
    BY DEF LimitsAddUp, Resources!LimitsAddUp
  <2>1. v2call.todo = <<>> /\ LimitsPlaced(v2call, file)
    BY DEF ResourceInv, ResourceCall
  <2>2. \A name, v : Placed(name, v, v2call, file) => file[name] = v
    BY <2>1 DEF Placed
  <2>3. /\ \A m \in v2call.spec.memory : m.limit \subseteq Int /\ m.swap \subseteq Int
    BY ConvertedOk DEF ResourceInv, ResourceCall
  <2>4. ASSUME NEW m \in v2call.spec.memory, NEW l \in m.limit
        PROVE  file["memory.max"] = << l >> /\ \A w \in m.swap : file["memory.swap.max"][1] + l = w
    <3>1. file["memory.max"] = << l >>
      BY <2>1, <2>2, <2>4 DEF LimitsPlaced
    <3>2. ASSUME NEW w \in m.swap PROVE file["memory.swap.max"][1] + l = w
      <4>1. file["memory.swap.max"] = << w - l >>
        BY <2>1, <2>2, <2>4, <3>2 DEF LimitsPlaced
      <4>2. w \in Int /\ l \in Int
        BY <2>3, <2>4, <3>2
      <4> QED
        BY <4>1, <4>2
    <3> QED
      BY <3>1, <3>2
  <2>5. ASSUME NEW p \in v2call.spec.pids, NEW l \in p.limit, l # 0
        PROVE  file["pids.max"][1] = IF l > 0 THEN l ELSE Resources!Unlimited
    <3>1. file["pids.max"] = << MaxOfPids(l) >>
      BY <2>1, <2>2, <2>5 DEF LimitsPlaced
    <3> QED
      BY <3>1 DEF MaxOfPids
  <2> QED
    BY <2>4, <2>5 DEF Resources!LimitsAddUp
<1> QED
  BY <1>1, ResourceHolds, PTL

(* The quota of a unit is in whole percents of a CPU, at least what was    *)
(* asked for and less than one percent more (manager.go:1016): rounding up *)
(* does not overflow when the product before it does not, whatever the     *)
(* quota, the period and the width of the integers.                        *)
THEOREM QuotasRoundUp == SpecAll => []QuotaRoundsUp
<1>1. ResourceInv => QuotaRoundsUp
  <2> SUFFICES ASSUME ResourceInv, v2call.op = "systemd",
                      NEW c \in v2call.res.cpu, NEW m \in c.max
               PROVE  LET x == Resources!ExtractQuotaAndPeriod(m) IN
                      /\ Resources!Quotas # {}
                      /\ x[1] > 0 /\ x[1] * Second < Word =>
                           \A q \in Resources!Quotas :
                              /\ q % Percent = 0
                              /\ (q + 1) * x[2] > x[1] * Second
                              /\ (q - Percent) * x[2] < x[1] * Second
    BY DEF QuotaRoundsUp, Resources!QuotaRoundsUp
  <2> DEFINE x == Resources!ExtractQuotaAndPeriod(m)
             u == Resources!QuotaPerSec(x[1], x[2])
  <2>1. ResourcesOk(v2call.res) /\ UnitOf(v2call, unit)
    BY DEF ResourceInv, ResourceCall
  <2>2. PICK version \in Versions : unit = Resources!UnitProperties(v2call.res, version)
    BY <2>1 DEF UnitOf
  <2>3. Resources!Quotas = {u}
    BY <2>1, <2>2, UnitQuota
  <2>4. m \in Resources!CPUMax
    BY <2>1 DEF ResourcesOk, CPUOk
  <2>5. x[2] # 0
    BY <2>1 DEF UnitOf
  <2>6. x[1] \in Int /\ x[2] \in 0 .. Word - 1
    BY <2>4, ExtractIs
  <2> HIDE DEF x
  <2>7. x[2] \in Nat \ {0}
    BY <2>5, <2>6
  <2> HIDE DEF u
  <2>8. ASSUME x[1] > 0, x[1] * Second < Word
        PROVE  /\ u % Percent = 0 /\ (u + 1) * x[2] > x[1] * Second
               /\ (u - Percent) * x[2] < x[1] * Second
    <3>1. x[1] \in Nat \ {0}
      BY <2>6, <2>8
    <3> QED
      BY <2>7, <2>8, <3>1, QuotaRounded DEF u
  <2> QED
    BY <2>3, <2>8 DEF x
<1> QED
  BY <1>1, ResourceHolds, PTL

-----------------------------------------------------------------------------
LEMMA DevicesBehave ==
  SpecAll => Spec
<1>1. StartAll => Init
  BY DEF StartAll
<1>2. [NextAll]_allVars => [Next]_vars
  BY DEF NextAll, allVars, vars, Others, CpusetStep, MemoryStep, DevicesStep, ControlStep,
         ReaderStep, ResourceStep, StatStep
<1> QED
  BY <1>1, <1>2, PTL DEF SpecAll, Spec

LEMMA ResourceTypes ==
  ResourceInv => Resources!TypeOK
  BY DEF ResourceInv, ResourceCall, Resources!TypeOK

(* The type invariants of all the components of Settings: the limits and   *)
(* the bandwidths in the files of package cgroup1 stay ones that the       *)
(* kernel accepts, cpusets stay inside those above them, programs are      *)
(* closed at most once (devicefilter.go:39), and calls that have nothing   *)
(* more to do have nothing more to write or to read.                       *)
THEOREM TypesAreKept == SpecAll => []AllTypeOK
<1>1. Cpuset!Init => CpusetInv
  BY CpusetStarts
<1>2. CpusetInv /\ [Cpuset!Next]_(Cpuset!vars) => CpusetInv'
  BY CpusetNext
<1>3. Memory!Init => MemoryInv
  BY MemoryStarts
<1>4. MemoryInv /\ [Memory!Next]_(Memory!vars) => MemoryInv'
  BY MemoryNext
<1>5. Control!Init => ControlInv
  BY ControlStarts
<1>6. ControlInv /\ [Control!Next]_(Control!vars) => ControlInv'
  BY ControlNext
<1>7. CpusetInv => Cpuset!TypeOK
  BY DEF CpusetInv
<1>8. /\ CpusetInv /\ MemoryInv /\ TypeOK /\ ControlInv /\ ReaderInv /\ ResourceInv /\ StatInv
      => AllTypeOK
  BY <1>7, MemoryTypes, ControlTypes, ReaderTypes, ResourceTypes, StatTypesAre DEF AllTypeOK
<1> QED
  BY <1>1, <1>2, <1>3, <1>4, <1>5, <1>6, <1>8, CpusetBehaves, MemoryBehaves, ControlBehaves,
     DevicesBehave, TypeCorrect, ReaderHolds, ResourceHolds, StatHolds, PTL
=============================================================================
