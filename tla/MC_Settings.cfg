SPECIFICATION SpecHere
CONSTANTS
  root = root  a = a  b = b  k1 = k1  k2 = k2  c1 = c1  c2 = c2
  Rule <- Rules
  MaxRules = 3
  Request <- Requests
  MaxAttach = 1
  Refuses = TRUE
  Updates = 1
  Dir <- Dirs
  Path <- Paths
  Cpu = {k1, k2}
  CpusetCaller = {c1, c2}
  CpusetMenu <- Creates
  Bytes = 3
  MemoryCaller = {c1}
  MemoryMenu <- Limitings
  InUse = 1
  V1Order <- OrderOfV1
  V1Specs <- SpecsOfV1
  Above <- HalfACpu
  AboveRt <- HalfACpu
  Period = 10
  Calls = 2
  Removals = 1
  PageSizes <- PageSizesOfV1
  Disk = {"d1", "d2"}
  CfqDisk = {"d1"}
  Partitions <- PartitionsOfV1
  Device = {"m0", "m1"}
  V1Oddities <- OdditiesOfV1
  Plugs = 2
  Options <- OptionsOfV1
  Specs <- SpecsOfV2
  Changed <- MemorySpecs
  Direct <- DirectOfV2
  Curve <- CurveOfV2
  Second = 1000
  Percent = 10
  Word = 1048576
  Versions <- VersionsOfV2
  Masks <- MasksOfV2
  HugePages = {64, 2048, 1048576}
  Oddities = {"cpu.stat", "memory.max", "memory.events", "io.stat", "rdma.max", "memory.pressure"}
  Changes = 1
INVARIANTS
  AllTypeOK Populated  OrderIsAccepted FilterConforms
  StatSucceeds ListsMatch NoLeak ControllersCover LimitsAddUp QuotaRoundsUp
  FailsOnlyTorn Complete
CHECK_DEADLOCK FALSE
