----------------------------- MODULE Resources2 -----------------------------
(***************************************************************************)
(* The resources of package cgroup2: how those of the OCI runtime spec are *)
(* converted (cgroup2/utils.go), which values are written to which files   *)
(* and in which order (cgroup2/cpu.go, memory.go, pids.go, io.go, rdma.go, *)
(* hugetlb.go, manager.go), and which properties of a unit NewSystemd      *)
(* makes of them.  A pointer is the set of what it points to: {} is nil.   *)
(*                                                                         *)
(* Which values a file accepts is the kernel's, and external.              *)
(***************************************************************************)
EXTENDS Integers, Sequences, SequencesExt, FiniteSets, Selection

CONSTANTS Specs,    \* the specs.LinuxResources that are converted
          Changed,  \* those among them that Update is called with
          Direct,   \* Resources that a caller has made itself
          Curve,    \* the weight for the shares inside their range (math.Pow)
          Second,   \* microseconds per second, 100 times Percent
          Percent,  \* what systemd rounds quotas to
          Word,     \* the number of values of a 64-bit integer
          Versions  \* of systemd; -1 when it could not be asked

Unlimited == Word \div 2 - 1  \* math.MaxInt64
Infinity  == Word - 1         \* math.MaxUint64

Int64  == -(Word \div 2) .. Unlimited
Uint64 == 0 .. Infinity
Uint16 == 0 .. 65535

(* What the code takes of specs.LinuxResources, and the Resources of the   *)
(* package.  A CPUMax is the quota, {} for "max", and the period.          *)
CPUMax   == PointerTo(Int64) \X PointerTo(Uint64)
Throttle == {t \in Seq(Nat) : Len(t) = 4}
HugePage == {h \in Seq(Nat) : Len(h) = 2}
Link     == [device : STRING, handles : PointerTo(Nat), objects : PointerTo(Nat)]

LinuxResources ==
    [cpu : PointerTo([shares : PointerTo(Uint64), quota : PointerTo(Int64),
                      period : PointerTo(Uint64), cpus : STRING, mems : STRING]),
     memory : PointerTo([limit : PointerTo(Int64), swap : PointerTo(Int64),
                         reservation : PointerTo(Int64)]),
     hugetlb : PointerTo(Seq(HugePage)), pids : PointerTo([limit : PointerTo(Int64)]),
     blockIO : PointerTo([weight : PointerTo(Uint16), throttle : SUBSET Throttle]),
     rdma : PointerTo(SUBSET Link)]

Resource ==
    [cpu : PointerTo([weight : PointerTo(Uint64), max : PointerTo(CPUMax),
                      cpus : STRING, mems : STRING]),
     memory : PointerTo([swap : PointerTo(Int64), min : PointerTo(Int64),
                         max : PointerTo(Int64), low : PointerTo(Int64),
                         high : PointerTo(Int64), oomGroup : PointerTo(BOOLEAN)]),
     hugetlb : PointerTo(Seq(HugePage)), pids : PointerTo(Int64),
     io : PointerTo([weight : PointerTo(Uint16), max : Seq(Throttle)]),
     rdma : PointerTo(Seq(Link))]

ResourcesAssumption ==
    /\ Specs \subseteq LinuxResources /\ Changed \subseteq Specs /\ Direct \subseteq Resource
    /\ \A s \in Specs : /\ \A b \in s.blockIO : IsFiniteSet(b.throttle)
                        /\ \A r \in s.rdma : IsFiniteSet(r)
    /\ Percent \in Nat \ {0} /\ Second = 100 * Percent
    /\ Word \in Nat /\ Word % 2 = 0 /\ Word > 262144 /\ Word > Second
    /\ Versions \subseteq {-1} \cup Nat

DefaultPeriod == Second \div 10

-----------------------------------------------------------------------------
(* The conversion.                                                         *)
ConvertCPUSharesToCgroupV2Value(shares) ==
    IF shares = 0 THEN 0
    ELSE IF shares <= 2 THEN 1
    ELSE IF shares >= 262144 THEN 10000
    ELSE Curve[shares]

NewCPUMax(quota, period) == << quota, IF period = {} THEN {DefaultPeriod} ELSE period >>

ExtractQuotaAndPeriod(max) ==
    << IF max[1] = {} THEN Unlimited ELSE Deref(max[1]),
       IF max[2] = {} THEN DefaultPeriod ELSE Deref(max[2]) >>

(* A quota is passed over when no period comes with it.                    *)
CPU(cpu) ==
    [weight |-> {ConvertCPUSharesToCgroupV2Value(s) : s \in cpu.shares},
     max    |-> {NewCPUMax(cpu.quota, cpu.period) : p \in cpu.period},
     cpus   |-> cpu.cpus,
     mems   |-> cpu.mems]

(* Slip: the limit of memory and swap is taken for one of swap.            *)
MemoryWhole(mem) ==
    [swap |-> mem.swap, min |-> {}, max |-> mem.limit, low |-> mem.reservation,
     high |-> {}, oomGroup |-> {}]

(* The v1 limit of memory and swap together, less the limit of memory.     *)
Memory(mem) ==
    [swap |-> {IF mem.limit = {} THEN w ELSE w - Deref(mem.limit) : w \in mem.swap},
     min |-> {}, max |-> mem.limit, low |-> mem.reservation,
     high |-> {}, oomGroup |-> {}]

(* In the arithmetic of 16 bits that the code does it in.                  *)
BFQWeight(w) == 1 + ((((w - 10) % 65536) * 9999) % 65536) \div 990

(* The order of the entries is that of a Go map, and they do not interfere.*)
IO(blk) ==
    [weight |-> {BFQWeight(w) : w \in blk.weight}, max |-> SetToSeq(blk.throttle)]

RDMA(rdma) ==
    SetToSeq({e \in rdma : e.device # Blank /\ e.handles # {} /\ e.objects # {}})

ToResources(spec) ==
    [cpu     |-> {CPU(c) : c \in spec.cpu},
     memory  |-> {Memory(m) : m \in spec.memory},
     hugetlb |-> spec.hugetlb,
     pids    |-> UNION {p.limit : p \in spec.pids},
     io      |-> {IO(b) : b \in spec.blockIO},
     rdma    |-> {RDMA(r) : r \in spec.rdma}]

-----------------------------------------------------------------------------
(* Values: what is written, in this order.                                 *)
V(file, ctrl, v) == [file |-> file, ctrl |-> ctrl, v |-> v]

Each(file, ctrl, pointer) ==
    IF pointer = {} THEN <<>> ELSE << V(file, ctrl, <<Deref(pointer)>>) >>

CPUValues(r) ==
    Each("cpu.weight", "cpu", r.weight)
    \o (IF r.max = {} THEN <<>> ELSE << V("cpu.max", "cpu", Deref(r.max)) >>)
    \o (IF r.cpus = Blank THEN <<>> ELSE << V("cpuset.cpus", "cpuset", <<r.cpus>>) >>)
    \o (IF r.mems = Blank THEN <<>> ELSE << V("cpuset.mems", "cpuset", <<r.mems>>) >>)

MemoryValues(r) ==
    Each("memory.swap.max", "memory", r.swap) \o Each("memory.min", "memory", r.min)
    \o Each("memory.max", "memory", r.max) \o Each("memory.low", "memory", r.low)
    \o Each("memory.high", "memory", r.high)
    \o Each("memory.oom.group", "memory", {IF g THEN 1 ELSE 0 : g \in r.oomGroup})

(* 0 is not written, and below 0 is "max".                                 *)
PidsValues(max) ==
    Each("pids.max", "pids", IF max = 0 THEN {} ELSE {IF max > 0 THEN max ELSE Unlimited})

IOValues(r) ==
    Each("io.bfq.weight", "io", r.weight \ {0})
    \o [i \in DOMAIN r.max |-> V("io.max", "io", r.max[i])]

RDMAValues(r) ==
    [i \in DOMAIN r |-> V("rdma.max", "rdma", <<r[i].device, r[i].handles, r[i].objects>>)]

HugeTlbValues(r) ==
    [i \in DOMAIN r |-> V("hugetlb.max", "hugetlb", r[i])]

Of(pointer, values(_)) == IF pointer = {} THEN <<>> ELSE values(Deref(pointer))

Values(r) ==
    Of(r.cpu, CPUValues) \o Of(r.memory, MemoryValues) \o Of(r.pids, PidsValues)
    \o Of(r.io, IOValues) \o Of(r.rdma, RDMAValues) \o Of(r.hugetlb, HugeTlbValues)

(* Slip: the cpuset is enabled for cpus only.                              *)
EnabledForCpus(r) ==
    {"cpu" : c \in r.cpu} \cup {"cpuset" : c \in {c \in r.cpu : c.cpus # Blank}}
    \cup {"memory" : m \in r.memory} \cup {"pids" : p \in r.pids} \cup {"io" : i \in r.io}
    \cup {"rdma" : d \in r.rdma} \cup {"hugetlb" : h \in r.hugetlb}

EnabledControllers(r) ==
    {"cpu" : c \in r.cpu}
    \cup {"cpuset" : c \in {c \in r.cpu : c.cpus # Blank \/ c.mems # Blank}}
    \cup {"memory" : m \in r.memory} \cup {"pids" : p \in r.pids} \cup {"io" : i \in r.io}
    \cup {"rdma" : d \in r.rdma} \cup {"hugetlb" : h \in r.hugetlb}

-----------------------------------------------------------------------------
(* The unit: CPUQuotaPerSecUSec, from int64 and uint64 arithmetic.         *)
QuotaPerSecExact(quota, period) ==
    IF quota > 0 THEN ((quota * Second) % Word) \div period ELSE Infinity

QuotaPerSec(quota, period) ==
    IF quota <= 0 THEN Infinity
    ELSE LET exact == ((quota * Second) % Word) \div period
         IN  IF exact % Percent = 0 THEN exact ELSE ((exact \div Percent + 1) * Percent) % Word

P(name, v) == [name |-> name, v |-> v]

NotZero(name, pointer) == {P(name, v) : v \in pointer \ {0}}

QuotaProperties(max, version) ==
    LET m == ExtractQuotaAndPeriod(max)
    IN  {P("CPUQuotaPeriodUSec", p) : p \in IF version >= 242 THEN {m[2]} \ {0} ELSE {}}
        \cup {P("CPUQuotaPerSecUSec", QuotaPerSec(m[1], m[2]))}

UnitProperties(r, version) ==
    (UNION {NotZero("MemoryMin", m.min) \cup NotZero("MemoryMax", m.max) : m \in r.memory})
    \cup (UNION {NotZero("CPUWeight", c.weight) : c \in r.cpu})
    \cup (UNION {QuotaProperties(m, version) : m \in UNION {c.max : c \in r.cpu}})
    \cup {P("TasksMax", p) : p \in {p \in r.pids : p > 0}}

-----------------------------------------------------------------------------
VARIABLES file,   \* what the files hold that have been written to
          on,     \* the controllers that are enabled for the cgroup
          call,   \* [at, op, spec, res, todo]
          unit    \* the properties of the unit

vars == <<file, on, call, unit>>

Controllers == {"cpu", "cpuset", "memory", "pids", "io", "rdma", "hugetlb"}

NoSpec ==
    [cpu |-> {}, memory |-> {}, hugetlb |-> {}, pids |-> {}, blockIO |-> {}, rdma |-> {}]

TypeOK ==
    /\ on \subseteq Controllers
    /\ \A f \in DOMAIN file : Len(file[f]) \in 1 .. 4
    /\ call.at \in {"idle", "write", "nil", "err"}
    /\ call.op \in {"new", "update", "systemd"}
    /\ call.todo # <<>> => call.at = "write"
    /\ \A p \in unit : p.name # "CPUWeight" => p.v <= Infinity

Init ==
    /\ file = <<>> /\ on = {} /\ unit = {}
    /\ call = [at |-> "idle", op |-> "new", spec |-> NoSpec,
               res |-> ToResources(NoSpec), todo |-> <<>>]

(* The kernel: weights have a range, and limits are not negative.          *)
Accepts(x) ==
    CASE x.file = "cpu.weight"    -> x.v[1] \in 1 .. 10000
      [] x.file = "io.bfq.weight" -> x.v[1] \in 1 .. 1000
      [] x.file = "cpu.max"       -> \A n \in x.v[1] \cup x.v[2] : n > 0
      [] x.file \in {"memory.swap.max", "memory.min", "memory.max", "memory.low",
                     "memory.high"} -> x.v[1] >= 0
      [] OTHER -> TRUE

Inputs == {<<s, ToResources(s)>> : s \in Specs} \cup {<<NoSpec, r>> : r \in Direct}

Starts(op, in) ==
    call' = [at |-> "write", op |-> op, spec |-> in[1], res |-> in[2], todo |-> Values(in[2])]

(* NewManager, of a new cgroup, enables the controllers before it writes.  *)
New ==
    /\ call.at = "idle"
    /\ \E in \in Inputs : Starts("new", in) /\ on' = EnabledControllers(in[2])
    /\ UNCHANGED <<file, unit>>

(* Update does not, and the cgroup may have been changed before.           *)
Update ==
    /\ call.at \in {"nil", "err"} /\ call.op # "systemd"
    /\ \E s \in Changed : Starts("update", <<s, ToResources(s)>>)
    /\ UNCHANGED <<file, on, unit>>

NewSystemd ==
    /\ call.at = "idle"
    /\ \E in \in Inputs, version \in Versions :
          /\ \A c \in in[2].cpu : \A m \in c.max : ExtractQuotaAndPeriod(m)[2] # 0
          /\ call' = [at |-> "nil", op |-> "systemd", spec |-> in[1], res |-> in[2],
                      todo |-> <<>>]
          /\ unit' = UnitProperties(in[2], version)
    /\ UNCHANGED <<file, on>>

(* Value.write and writeValues: the first error ends it.                   *)
Write ==
    LET x == Head(call.todo)
    IN  /\ call.at = "write" /\ call.todo # <<>>
        /\ IF x.ctrl \in on /\ Accepts(x)
           THEN /\ file' = [f \in DOMAIN file \cup {x.file} |->
                              IF f = x.file THEN x.v ELSE file[f]]
                /\ call' = [call EXCEPT !.todo = Tail(@)]
           ELSE call' = [call EXCEPT !.at = "err", !.todo = <<>>] /\ UNCHANGED file
        /\ UNCHANGED <<on, unit>>

Return ==
    /\ call.at = "write" /\ call.todo = <<>>
    /\ call' = [call EXCEPT !.at = "nil"]
    /\ UNCHANGED <<file, on, unit>>

Next == New \/ Update \/ NewSystemd \/ Write \/ Return

Spec == Init /\ [][Next]_vars

-----------------------------------------------------------------------------
(* NewManager has enabled the controller of every value that it writes:    *)
(* EnabledControllers and Values, which are written down apart, agree.     *)
ControllersCover ==
    call.op = "new" => \A i \in DOMAIN call.todo : call.todo[i].ctrl \in on

(* When the limits of a v1 spec were written without an error, memory and  *)
(* swap add up to the v1 limit of both, the limit of memory is its own,    *)
(* and of processes there are as many as it says.                          *)
LimitsAddUp ==
    call.at = "nil" /\ call.op # "systemd" =>
      /\ \A m \in call.spec.memory : \A l \in m.limit :
            /\ file["memory.max"] = <<l>>
            /\ \A w \in m.swap : file["memory.swap.max"][1] + l = w
      /\ \A p \in call.spec.pids : \A l \in p.limit :
            l # 0 => file["pids.max"][1] = IF l > 0 THEN l ELSE Unlimited

(* A quota for the unit, whenever there is a cpu.max.                      *)
Quotas == {p.v : p \in {p \in unit : p.name = "CPUQuotaPerSecUSec"}}

(* "we need to round up to the nearest 10ms (1% of a second) such that     *)
(* child cgroups can set the cpu.cfs_quota_us they expect" (manager.go:    *)
(* 1016): the unit gets whole percents of a CPU, less than one more than   *)
(* was asked for, and less than a microsecond per second less.             *)
QuotaRoundsUp ==
    call.op = "systemd" =>
      \A c \in call.res.cpu : \A max \in c.max :
        LET m == ExtractQuotaAndPeriod(max) IN
        /\ Quotas # {}
        /\ m[1] > 0 /\ m[1] * Second < Word =>
             \A q \in Quotas :
                /\ q % Percent = 0
                /\ (q + 1) * m[2] > m[1] * Second
                /\ (q - Percent) * m[2] < m[1] * Second

(* "corresponds to USEC_INFINITY in systemd": a cpu.max without a quota    *)
(* leaves the quota of the unit unbound (manager.go:1010).                 *)
MaxIsInfinity ==
    call.op = "systemd" =>
      \A c \in call.res.cpu : \A max \in c.max :
         max[1] = {} => \A q \in Quotas : q = Infinity
=============================================================================
