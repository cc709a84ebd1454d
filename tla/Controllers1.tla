---------------------------- MODULE Controllers1 ----------------------------
(***************************************************************************)
(* Create and Update of the controllers of package cgroup1 that are not    *)
(* modelled by themselves: cpu.go, pids.go, rdma.go, hugetlb.go,           *)
(* devices.go, net_cls.go, net_prio.go and blkio.go.  Each makes its       *)
(* directory and writes one setting after the other until one fails; New   *)
(* and Update of the cgroup object (cgroup.go) go from one controller to   *)
(* the next until one fails.  A pointer is the set of what it points to.   *)
(*                                                                         *)
(* The kernel is external.  Of what it refuses the model has what relates  *)
(* two settings: the time of CPU in a period is at most the period, and in *)
(* proportion at most what the cgroup above has.                           *)
(***************************************************************************)
EXTENDS Integers, Sequences, SequencesExt, FiniteSets, Selection

CONSTANTS Order,   \* the controllers of the object, in their order
          Specs,   \* the resources the calls are for
          Above,   \* [quota, period] of the cgroup above, for the processes
          AboveRt, \* and for those with real-time scheduling
          Period,  \* what the kernel gives a new cgroup
          Calls,   \* bound: how many calls there are
          Removals \* bound: how often the directory of a controller is removed

Controllers == {"cpu", "pids", "rdma", "hugetlb", "devices", "net_cls", "net_prio", "blkio"}
Updaters    == Controllers \ {"hugetlb", "net_prio"}

(* What the code takes of specs.LinuxResources.                            *)
LinuxResources ==
    [rtPeriod : SUBSET Nat, rtRuntime : SUBSET Int, shares : SUBSET Nat,
     period : SUBSET Nat, quota : SUBSET Int, pids : SUBSET Int, classID : SUBSET Nat,
     weight : SUBSET Nat, leafWeight : SUBSET Nat,
     rdma : SUBSET [device : STRING, handles : SUBSET Nat, objects : SUBSET Nat],
     huge : Seq([size : STRING, limit : Nat]),
     prios : Seq([name : STRING, prio : Nat]),
     devices : Seq([allow : BOOLEAN, type : STRING, major : SUBSET Int,
                    minor : SUBSET Int, access : STRING]),
     weightDevice : Seq([dev : STRING, weight : SUBSET Nat, leafWeight : SUBSET Nat]),
     readBps : Seq([dev : STRING, rate : Nat]), readIops : Seq([dev : STRING, rate : Nat]),
     writeBps : Seq([dev : STRING, rate : Nat]), writeIops : Seq([dev : STRING, rate : Nat])]

Bandwidth == [quota : Int, period : Nat \ {0}]

ControllersAssumption ==
    /\ Order \in Seq(Controllers)
    /\ Specs \subseteq LinuxResources /\ Specs # {}
    /\ Above \in Bandwidth /\ AboveRt \in Bandwidth /\ Period \in Nat \ {0}
    /\ Calls \in Nat /\ Removals \in Nat

(* quota / period against a limit; below 0 there is none.                  *)
Fits(quota, period, limit) ==
    /\ period > 0
    /\ quota < 0 \/ limit.quota < 0 \/ quota * limit.period <= limit.quota * period

-----------------------------------------------------------------------------
(* The settings of a controller in the order they are written.  A file of  *)
(* more than one value (per device, per interface) has a key.              *)
Setting(file, key, v) == [file |-> file, key |-> key, v |-> v]

Each(file, key, pointer) ==
    IF pointer = {} THEN <<>> ELSE << Setting(file, key, Deref(pointer)) >>

One(file, pointer) == Each(file, Blank, pointer)

(* Slip: the period comes after what it is the period of.                  *)
CpuSettingsQuotaFirst(s) ==
    One("cpu.rt_runtime_us", s.rtRuntime) \o One("cpu.rt_period_us", s.rtPeriod)
    \o One("cpu.shares", s.shares)
    \o One("cpu.cfs_quota_us", s.quota) \o One("cpu.cfs_period_us", s.period)

CpuSettings(s) ==
    One("cpu.rt_period_us", s.rtPeriod) \o One("cpu.rt_runtime_us", s.rtRuntime)
    \o One("cpu.shares", s.shares)
    \o One("cpu.cfs_period_us", s.period) \o One("cpu.cfs_quota_us", s.quota)

PidsSettings(s) == One("pids.max", {p \in s.pids : p > 0})

NetClsSettings(s) == One("net_cls.classid", {c \in s.classID : c > 0})

NetPrioSettings(s) ==
    [i \in DOMAIN s.prios |-> Setting("net_prio.ifpriomap", s.prios[i].name, s.prios[i].prio)]

HugetlbSettings(s) ==
    [i \in DOMAIN s.huge |-> Setting("hugetlb.limit_in_bytes", s.huge[i].size, s.huge[i].limit)]

(* The map is gone through in any order, and the first device with a limit *)
(* is the only one that is written: one sequence for each that may be.     *)
RdmaSettings(s) ==
    LET limited == {r \in s.rdma : r.device # Blank /\ r.handles \cup r.objects # {}}
    IN  IF limited = {} THEN {<<>>}
        ELSE {<< Setting("rdma.max", r.device, <<r.handles, r.objects>>) >> : r \in limited}

(* deviceString: no type is "a"; no number, or -1, is any number.          *)
Number(n) == n \ {-1}

DevicesSettings(s) ==
    [i \in DOMAIN s.devices |->
        LET d == s.devices[i]
        IN  Setting(IF d.allow THEN "devices.allow" ELSE "devices.deny", Blank,
              <<IF d.type = Blank THEN "a" ELSE d.type, Number(d.major), Number(d.minor), d.access>>)]

Throttled(file, list) == [i \in DOMAIN list |-> Setting(file, list[i].dev, list[i].rate)]

(* createBlkioSettings.                                                    *)
BlkioSettings(s) ==
    One("blkio.weight", s.weight) \o One("blkio.leaf_weight", s.leafWeight)
    \o FlattenSeq([i \in DOMAIN s.weightDevice |->
          LET d == s.weightDevice[i]
          IN  Each("blkio.weight_device", d.dev, d.weight)
              \o Each("blkio.leaf_weight_device", d.dev, d.leafWeight)])
    \o Throttled("blkio.throttle.read_bps_device", s.readBps)
    \o Throttled("blkio.throttle.read_iops_device", s.readIops)
    \o Throttled("blkio.throttle.write_bps_device", s.writeBps)
    \o Throttled("blkio.throttle.write_iops_device", s.writeIops)

Settings(c, s, rdma) ==
    CASE c = "cpu" -> CpuSettings(s)          [] c = "pids" -> PidsSettings(s)
      [] c = "rdma" -> rdma                   [] c = "hugetlb" -> HugetlbSettings(s)
      [] c = "devices" -> DevicesSettings(s)  [] c = "net_cls" -> NetClsSettings(s)
      [] c = "net_prio" -> NetPrioSettings(s) [] c = "blkio" -> BlkioSettings(s)

(* No file, and no device or interface of one, is asked to have two values *)
(* (those of devices take one rule after the other).                       *)
OneValueEach ==
    \A s \in Specs : \A q \in RdmaSettings(s) : \A c, d \in Controllers \ {"devices"} :
       \A x \in Range(Settings(c, s, q)), y \in Range(Settings(d, s, q)) :
          x.file = y.file /\ x.key = y.key => x.v = y.v

-----------------------------------------------------------------------------
VARIABLES dirs,  \* the controllers whose directory there is
          file,  \* [a setting that was written, but for its value -> the value]
          rules, \* what was written to the files of devices
          call,  \* [at, op, spec, rdma, ctrls, todo]
          calls, removals,
          before, \* for the properties: the files when the call began
          still   \* and that nothing was removed since

vars == <<dirs, file, rules, call, calls, removals, before, still>>

(* What the kernel gives a new cgroup.                                     *)
Fresh ==
    [f \in {"cpu.cfs_period_us", "cpu.rt_period_us", "cpu.cfs_quota_us", "cpu.rt_runtime_us"}
             \X {Blank} |->
        CASE f[1] = "cpu.cfs_quota_us" -> -1 [] f[1] = "cpu.rt_runtime_us" -> 0
          [] OTHER -> Period]

With(g, f, v) == [e \in DOMAIN g \cup {f} |-> IF e = f THEN v ELSE g[e]]

CfsFits(g) == Fits(g[<<"cpu.cfs_quota_us", Blank>>], g[<<"cpu.cfs_period_us", Blank>>], Above)
RtFits(g)  == Fits(g[<<"cpu.rt_runtime_us", Blank>>], g[<<"cpu.rt_period_us", Blank>>], AboveRt)

TypeOK ==
    /\ dirs \subseteq Controllers
    /\ DOMAIN Fresh \subseteq DOMAIN file /\ CfsFits(file) /\ RtFits(file)
    /\ call.at \in {"idle", "next", "write", "nil", "err"}
    /\ call.op \in {"new", "update"} /\ call.spec \in Specs
    /\ calls \in 0 .. Calls /\ removals \in 0 .. Removals /\ still \in BOOLEAN

Init ==
    /\ dirs = {} /\ file = Fresh /\ rules = <<>> /\ calls = 0 /\ removals = 0
    /\ call = [at |-> "idle", op |-> "new", spec |-> CHOOSE s \in Specs : TRUE,
               rdma |-> <<>>, ctrls |-> <<>>, todo |-> <<>>]
    /\ before = Fresh /\ still = TRUE

(* Somebody else removes the cgroup; what it held is gone with it.         *)
Rmdir(c) ==
    /\ c \in dirs /\ removals < Removals
    /\ removals' = removals + 1 /\ still' = FALSE
    /\ dirs' = dirs \ {c}
    /\ file' = IF c # "cpu" THEN file
                ELSE [f \in DOMAIN file |-> IF f \in DOMAIN Fresh THEN Fresh[f] ELSE file[f]]
    /\ UNCHANGED <<rules, call, calls, before>>

(* New, and Update of an object without an error.                          *)
Begin(op) ==
    /\ call.at \in {"idle", "nil", "err"} /\ calls < Calls
    /\ op = "new" <=> calls = 0
    /\ calls' = calls + 1
    /\ \E s \in Specs : \E rdma \in RdmaSettings(s) :
          call' = [at |-> "next", op |-> op, spec |-> s, rdma |-> rdma,
                   ctrls |-> Selected(Order, IF op = "new" THEN Controllers ELSE Updaters),
                   todo |-> <<>>]
    /\ before' = file /\ still' = TRUE
    /\ UNCHANGED <<dirs, file, rules, removals>>

(* MkdirAll, the first thing a Create does, and Update with it.            *)
Mkdir ==
    /\ call.at = "next" /\ call.ctrls # <<>>
    /\ dirs' = dirs \cup {Head(call.ctrls)}
    /\ call' = [call EXCEPT !.at = "write",
                            !.todo = Settings(Head(call.ctrls), call.spec, call.rdma)]
    /\ UNCHANGED <<file, rules, calls, removals, before, still>>

(* The kernel has the last word.                                           *)
Takes(x, g) ==
    /\ Head(call.ctrls) \in dirs
    /\ x.file \in {"cpu.cfs_period_us", "cpu.cfs_quota_us"} => CfsFits(g)
    /\ x.file \in {"cpu.rt_period_us", "cpu.rt_runtime_us"} => RtFits(g)

(* os.WriteFile of one setting: the first error ends the call.             *)
Write ==
    LET x == Head(call.todo)
        g == With(file, <<x.file, x.key>>, x.v)
    IN  /\ call.at = "write" /\ call.todo # <<>>
        /\ IF Takes(x, g)
           THEN /\ call' = [call EXCEPT !.todo = Tail(@)]
                /\ file' = g
                /\ rules' = IF Head(call.ctrls) = "devices"
                            THEN Append(rules, <<x.file, x.v>>) ELSE rules
           ELSE call' = [call EXCEPT !.at = "err"] /\ UNCHANGED <<file, rules>>
        /\ UNCHANGED <<dirs, calls, removals, before, still>>

NextController ==
    /\ call.at = "write" /\ call.todo = <<>>
    /\ call' = [call EXCEPT !.at = "next", !.ctrls = Tail(@)]
    /\ UNCHANGED <<dirs, file, rules, calls, removals, before, still>>

Return ==
    /\ call.at = "next" /\ call.ctrls = <<>>
    /\ call' = [call EXCEPT !.at = "nil"]
    /\ UNCHANGED <<dirs, file, rules, calls, removals, before, still>>

Next ==
    \/ \E c \in Controllers : Rmdir(c)
    \/ \E op \in {"new", "update"} : Begin(op)
    \/ Mkdir \/ Write \/ NextController \/ Return

Spec == Init /\ [][Next]_vars

-----------------------------------------------------------------------------
Or(pointer, v) == IF pointer = {} THEN v ELSE Deref(pointer)

(* A call whose quota and period fit under the cgroup above is not refused *)
(* because of the order they are written in, unless it lowers a period:    *)
(* for a new cgroup as for one that has a quota already, and for real-time *)
(* processes as for the others (cpu.go:52).                                *)
OrderIsAccepted ==
    LET was(f) == before[<<f, Blank>>]
        s == call.spec
        asked(quota, period, q, p, limit) ==
            /\ Or(s[period], was(p)) >= was(p)
            /\ Fits(Or(s[quota], was(q)), Or(s[period], was(p)), limit)
        refused == Head(call.todo).file
    IN  call.at = "err" /\ still =>
          /\ refused \in {"cpu.cfs_period_us", "cpu.cfs_quota_us"} =>
               ~asked("quota", "period", "cpu.cfs_quota_us", "cpu.cfs_period_us", Above)
          /\ refused \in {"cpu.rt_period_us", "cpu.rt_runtime_us"} =>
               ~asked("rtRuntime", "rtPeriod", "cpu.rt_runtime_us", "cpu.rt_period_us", AboveRt)

(* When New or Update returns nil and nobody has removed anything, every   *)
(* setting of every controller that was asked has the value asked for, and *)
(* the rules for devices were written in the order they came in.           *)
AllInPlace ==
    call.at = "nil" /\ still =>
      \A c \in Range(Order) : call.op = "new" \/ c \in Updaters =>
        LET asked == Settings(c, call.spec, call.rdma)
        IN  IF c = "devices"
            THEN IsSuffix([i \in DOMAIN asked |-> <<asked[i].file, asked[i].v>>], rules)
            ELSE \A x \in Range(asked) : file[<<x.file, x.key>>] = x.v
=============================================================================
