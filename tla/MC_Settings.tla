---------------------------- MODULE MC_Settings ----------------------------
(* Values of the constants for the model-checking runs of Settings.        *)
EXTENDS Settings, TLC

CONSTANTS root, a, b, k1, k2, c1, c2

(* The rules, with three accesses, ranges of majors and minors and a type  *)
(* that is refused, and every request they can tell apart.                 *)
Rules ==
    [type : {"a", "c"}, major : {-1, 1}, minor : {-1},
     access : {{"r"}, {"r", "w"}, Access}, allow : BOOLEAN]
    \cup [type : {"c"}, major : {-1}, minor : {1}, access : {{}, Access}, allow : BOOLEAN]
    \cup [type : {"?"}, major : {-1}, minor : {-1}, access : {Access}, allow : {TRUE}]

Requests ==
    [type : {"b", "c"}, major : {0, 1}, minor : {0, 1}, access : (SUBSET Access) \ {{}}]

-----------------------------------------------------------------------------
(* Creates for a cgroup and the one above it.                              *)
Dirs == {root, a, b}

Paths == root :> <<root>> @@ a :> <<root, a>> @@ b :> <<root, a, b>>

Ask(d, s) == [dir |-> d, cpus |-> s, mems |-> {}]

Creates == {Ask(a, {}), Ask(a, {k1}), Ask(b, {}), Ask(b, {k1}), Ask(b, {k2})}

(* A pointer: nil, or to one of the values.                                *)
Ptr(values) == {{}} \cup {{v} : v \in values}

(* One caller, and limits from none to 3; the settings that depend on no   *)
(* other are all given, with a value the kernel knows and one it does not. *)
MemoryWants ==
    LET want(l, r, s, other) ==
          "limit" :> l @@ "soft" :> r @@ "memsw" :> s @@ "kmem" :> other[1]
          @@ "kmem.tcp" :> other[2] @@ "oom_control" :> other[3] @@ "swappiness" :> other[4]
    IN  {want(l, r, s, <<{}, {}, {}, {}>>) : l \in Ptr({-1, 1, 2, 3}), r \in Ptr({-1, 1}),
                                            s \in Ptr({-1, 1, 2, 3})}
        \cup {want(l, {}, {}, <<{-1}, {2}, {1}, {w}>>) : l \in Ptr({1}), w \in {0, 101}}

Limitings == [op : {"create", "update"}, want : MemoryWants]

-----------------------------------------------------------------------------
(* The controllers of v1, under a cgroup with half a CPU.                  *)
NoSettings ==
    [rtPeriod |-> {}, rtRuntime |-> {}, shares |-> {}, period |-> {}, quota |-> {},
     pids |-> {}, rdma |-> {}, huge |-> <<>>, devices |-> <<>>, classID |-> {},
     prios |-> <<>>, weight |-> {}, leafWeight |-> {}, weightDevice |-> <<>>,
     readBps |-> <<>>, readIops |-> <<>>, writeBps |-> <<>>, writeIops |-> <<>>]

Rate == << [dev |-> "8:0", rate |-> 5] >>

(* Every file, with what is written for each of several devices.           *)
EverySetting ==
    [NoSettings EXCEPT
       !.shares = {512}, !.classID = {1}, !.pids = {3},
       !.rdma = {[device |-> "m0", handles |-> {2}, objects |-> {}],
                 [device |-> "m1", handles |-> {}, objects |-> {3}],
                 [device |-> "", handles |-> {1}, objects |-> {}]},
       !.huge = << [size |-> "2MB", limit |-> 7] >>,
       !.prios = << [name |-> "lo", prio |-> 1], [name |-> "eth0", prio |-> 2] >>,
       !.devices =
          << [allow |-> FALSE, type |-> "", major |-> {}, minor |-> {-1}, access |-> "rwm"],
             [allow |-> TRUE, type |-> "c", major |-> {1}, minor |-> {3}, access |-> "r"] >>,
       !.weight = {10}, !.leafWeight = {10},
       !.weightDevice = << [dev |-> "8:0", weight |-> {20}, leafWeight |-> {30}] >>,
       !.readBps = Rate, !.readIops = Rate, !.writeBps = Rate, !.writeIops = Rate]

SpecsOfV1 ==
    {EverySetting}
    \cup {[NoSettings EXCEPT !.quota = q, !.period = p]
            : q \in Ptr({-1, 5, 8}), p \in Ptr({5, 10, 20})}
    \cup {[NoSettings EXCEPT !.rtRuntime = q, !.rtPeriod = p]
            : q \in Ptr({2, 9}), p \in Ptr({5, 20})}
    \cup {[NoSettings EXCEPT !.pids = p] : p \in Ptr({-1, 0})}

OrderOfV1 == << "pids", "net_cls", "net_prio", "cpu", "blkio", "rdma", "devices", "hugetlb" >>

HalfACpu == [quota |-> 5, period |-> 10]

(* The readers of v1: a disk that is listed twice, one that is not; what   *)
(* NewMemory of a host without swap is given.                              *)
PageSizesOfV1 == << "2MB" >>

PartitionsOfV1 == << [disk |-> "d1", name |-> "sda"], [disk |-> "d1", name |-> "dm-0"] >>

OdditiesOfV1 ==
    {[name |-> "none", holds |-> "max"], [name |-> "pids.max", holds |-> "max"],
     [name |-> "cpuacct.stat", holds |-> "word"], [name |-> "partitions", holds |-> "word"],
     [name |-> "io_serviced_recursive", holds |-> "word"]}

OptionsOfV1 ==
    {[ignored |-> {}, optionalSwap |-> TRUE],
     [ignored |-> {"kmem", "memsw"}, optionalSwap |-> FALSE]}

-----------------------------------------------------------------------------
(* The resources of v2.  A second has 1000 microseconds here, and integers *)
(* 20 bits: the quotas are below and above what a second can multiply.     *)
Nils ==
    [cpu |-> {}, memory |-> {}, hugetlb |-> {}, pids |-> {}, blockIO |-> {}, rdma |-> {}]

Cpus ==
    [shares : Ptr({0, 2, 1024, 262144}), quota : {{}}, period : {{}},
     cpus : {"", "0-1"}, mems : {"", "0"}]
    \cup [shares : {{}}, quota : Ptr({-1, 7, 250}), period : Ptr({3, 10}),
          cpus : {""}, mems : {""}]

Mems == [limit : Ptr({-1, 2, 3}), swap : Ptr({-1, 2, 4}), reservation : Ptr({1})]

Blocks ==
    [weight : Ptr({10, 16, 17, 1000}), throttle : {{}, {<<8, 0, 1, 100>>, <<8, 0, 2, 50>>}}]

Links ==
    {{}, {[device |-> "m0", handles |-> {1}, objects |-> {2}],
          [device |-> "m1", handles |-> {1}, objects |-> {}]}}

MemorySpecs == {[Nils EXCEPT !.memory = {m}] : m \in Mems}

SpecsOfV2 ==
    MemorySpecs \cup {[Nils EXCEPT !.cpu = {c}] : c \in Cpus}
    \cup {[Nils EXCEPT !.blockIO = {d}, !.pids = {[limit |-> p]}]
            : d \in Blocks, p \in Ptr({-1, 0, 5})}
    \cup {[Nils EXCEPT !.rdma = {r}, !.hugetlb = h]
            : r \in Links, h \in Ptr({<< <<2048, 1>> >>})}

DirectOfV2 ==
    {[cpu |-> {[weight |-> {}, max |-> {<<q, {}>>}, cpus |-> "", mems |-> ""]},
      hugetlb |-> {}, pids |-> {}, io |-> {}, rdma |-> {},
      memory |-> {[swap |-> {}, min |-> {1}, max |-> {2}, low |-> {},
                   high |-> {2}, oomGroup |-> {TRUE}]}] : q \in Ptr({7})}

CurveOfV2 == [s \in {1024} |-> 100]

VersionsOfV2 == {-1, 241, 242}

(* The statistics of v2, with sizes of huge pages on either side of each   *)
(* unit, and one change of what is enabled during a call.                  *)
MasksOfV2 ==
    {{"pids", "cpu", "memory", "events", "io", "rdma", "hugetlb"},
     {"cpu", "hugetlb"}, {"memory", "io"}}

-----------------------------------------------------------------------------
(* What the theorems about the settings and the readers of v1 presume.     *)
ASSUME Presumed == Control!OneValueEach /\ Readers!SwapIsOptional

(* What is not the part of a behaviour has one state.                      *)
StartHere ==
    /\ StartAll
    /\ part # "cpuset" => exists = {root}
    /\ part # "memory" => mem = Memory!Start(3, 3)
    /\ part # "readers" => oddity.name = "none" /\ ~swap /\ ~cfq /\ ignored = {"memsw"}
    /\ part # "stats" => odd = "none"

SpecHere == StartHere /\ [][NextAll]_allVars
=============================================================================
