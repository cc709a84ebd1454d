------------------------------ MODULE Settings ------------------------------
(***************************************************************************)
(* The components that write settings to files or read the statistics, and *)
(* share nothing with each other: of package cgroup1 the cpuset, the       *)
(* memory controller, the other controllers and the readers; of package    *)
(* cgroup2 the device filter, the resources and the statistics.  A         *)
(* behaviour is one of one of them (part); the others stay as they began.  *)
(***************************************************************************)
EXTENDS DeviceFilter

CONSTANTS Dir, Path, Cpu, CpusetCaller, CpusetMenu,          \* of the cpusets
          Bytes, MemoryCaller, MemoryMenu, InUse,            \* of the memory limits
          V1Order, V1Specs, Above, AboveRt, Period, Calls, Removals,
                                                             \* of the controllers
          PageSizes, Disk, CfqDisk, Partitions, Device, V1Oddities, Plugs, Options,
                                                             \* of the readers
          Specs, Changed, Direct, Curve, Second, Percent, Word, Versions,
                                                             \* of the resources
          Masks, HugePages, Oddities, Changes                \* of the statistics

VARIABLES part,
          exists, val, call,                                \* of the cpusets
          mem, usage, update,                               \* of the memory limits
          dirs, written, rules, v1call, v1calls, removals, before, still,
                                                            \* of the controllers
          dir, oddity, swap, cfq, ios, plugged, plugs, ignored, reading, disks,
          size, rdma, fds, during,                          \* of the readers
          file, on, v2call, unit,                           \* of the resources
          enabled, toggles, odd, sizes, stat, read, torn, calm \* of the statistics

cpusetVars    == <<exists, val, call>>
memoryVars    == <<mem, usage, update>>
controlVars   == <<dirs, written, rules, v1call, v1calls, removals, before, still>>
readerVars    == <<dir, oddity, swap, cfq, ios, plugged, plugs, ignored, reading, disks,
                   size, rdma, fds, during>>
resourceVars  == <<file, on, v2call, unit>>
statVars      == <<enabled, toggles, odd, sizes, stat, read, torn, calm>>
allVars       == <<part, cpusetVars, memoryVars, vars, controlVars, readerVars, resourceVars,
                   statVars>>

Cpuset    == INSTANCE Cpuset1 WITH Caller <- CpusetCaller, Menu <- CpusetMenu
Memory    == INSTANCE Memory1 WITH Caller <- MemoryCaller, Menu <- MemoryMenu, call <- update
Control   == INSTANCE Controllers1 WITH
                 Order <- V1Order, Specs <- V1Specs, file <- written, call <- v1call, calls <- v1calls
Readers   == INSTANCE Readers1 WITH
                 HugePages <- PageSizes, Oddities <- V1Oddities, odd <- oddity, call <- reading
Resources == INSTANCE Resources2 WITH call <- v2call
Stats     == INSTANCE Stat2 WITH
                 on <- enabled, changes <- toggles, call <- stat, val <- read, still <- calm

ASSUME SettingsAssumption ==
    /\ Cpuset!CpusetAssumption /\ Memory!MemoryAssumption /\ Control!ControllersAssumption
    /\ Readers!ReadersAssumption /\ Resources!ResourcesAssumption /\ Stats!Stat2Assumption

-----------------------------------------------------------------------------
StartAll ==
    /\ part \in {"cpuset", "memory", "devices", "control", "readers", "resources", "stats"}
    /\ Cpuset!Init /\ Memory!Init /\ Control!Init /\ Readers!Init /\ Resources!Init
    /\ Stats!Init /\ Init

Others(p) ==
    /\ part = p /\ UNCHANGED part
    /\ p # "cpuset" => UNCHANGED cpusetVars
    /\ p # "memory" => UNCHANGED memoryVars
    /\ p # "devices" => UNCHANGED vars
    /\ p # "control" => UNCHANGED controlVars
    /\ p # "readers" => UNCHANGED readerVars
    /\ p # "resources" => UNCHANGED resourceVars
    /\ p # "stats" => UNCHANGED statVars

CpusetStep   == Others("cpuset")    /\ Cpuset!Next
MemoryStep   == Others("memory")    /\ Memory!Next
DevicesStep  == Others("devices")   /\ Next
ControlStep  == Others("control")   /\ Control!Next
ReaderStep   == Others("readers")   /\ Readers!Next
ResourceStep == Others("resources") /\ Resources!Next
StatStep     == Others("stats")     /\ Stats!Next

NextAll ==
    \/ CpusetStep \/ MemoryStep \/ DevicesStep \/ ControlStep
    \/ ReaderStep \/ ResourceStep \/ StatStep

SpecAll == StartAll /\ [][NextAll]_allVars

-----------------------------------------------------------------------------
(* Every component's variables keep their types: limits and cpus the       *)
(* kernel accepts, and a program that is closed once (devicefilter.go:39). *)
AllTypeOK ==
    /\ Cpuset!TypeOK /\ Memory!TypeOK /\ TypeOK /\ Control!TypeOK
    /\ Readers!TypeOK /\ Resources!TypeOK /\ Stats!TypeOK

(* Create of cpuset.go:46 leaves no cpuset on its path without cpus or     *)
(* memory nodes, whoever else is creating.                                 *)
Populated == Cpuset!Populated

(* Create and Update without an error: all is in place, of the memory      *)
(* controller (memory.go:212) and of the others.                           *)
AllInPlace == Memory!AllInPlace /\ Control!AllInPlace

(* What fits is not refused for the order it is written in: two limits     *)
(* that are lowered (memory.go:227), and a quota of CPU with its period    *)
(* (cpu.go:52).                                                            *)
OrderIsAccepted == Memory!LoweringSucceeds /\ Control!OrderIsAccepted

(* What the comment at memory.go:221 says of raising both.                 *)
RaisingSucceeds == Memory!RaisingSucceeds

(* A Stat of v1 fails only on a file it cannot parse, or a cgroup that is  *)
(* removed; its lists do not mix what does not belong together; and        *)
(* memoryEvent (memory.go:464) leaves no descriptor open.                  *)
StatSucceeds == Readers!StatSucceeds
ListsMatch   == Readers!ListsMatch
NoLeak       == Readers!NoLeak

(* NewManager enables what it writes to (manager.go:100 and 123); the      *)
(* limits of v1 add up after their conversion (utils.go:202).              *)
ControllersCover == Resources!ControllersCover
LimitsAddUp      == Resources!LimitsAddUp

(* The quota of the unit is rounded up (manager.go:1016), and is unbound   *)
(* for a cpu.max without a quota, as the comment at manager.go:1010 says.  *)
QuotaRoundsUp == Resources!QuotaRoundsUp
MaxIsInfinity == Resources!MaxIsInfinity

(* Stat of v2 fails only when something is taken away under it or has a    *)
(* line it does not know, and leaves nothing out (manager.go:585).         *)
FailsOnlyTorn == Stats!FailsOnlyTorn
Complete      == Stats!Complete
=============================================================================
