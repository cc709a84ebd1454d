# A verification project for containerd/cgroups

TLA+ models of the Go packages `cgroup1` and `cgroup2`, model-checked with TLC,
and theorems about them checked by TLAPS. Source paths are relative to `src/`.

- [The system](#the-system)
- [How to read the modules](#how-to-read-the-modules)
- [The modules and the code](#the-modules-and-the-code)
- [The runs](#the-runs)
- [Fairness](#fairness)
- [What is proved](#what-is-proved)
- [Disagreements met while modelling](#disagreements-met-while-modelling)
- [What is not modelled](#what-is-not-modelled)
- [The plan](#the-plan)

## The system

The repository is a library. It keeps almost no state of its own: the state is
the kernel's, in a file system of directories and control files, and several
goroutines, several objects for the same cgroup, and the processes inside it
change that state at the same time. What can go wrong is mostly in between two
file operations of one call.

| component | state | operations | meets others through |
|---|---|---|---|
| v1 cgroup object (`cgroup1/cgroup.go`, `utils.go`) | path, active subsystems, mutex `mu`, sticky `err`; one directory tree per subsystem | `New`, `Load`, child `New`, `Add`, `AddProc`, `AddTask`, `Delete`, `State`, `MoveTo`, `Update`, `Processes`, `Tasks` | its mutex; `MoveTo` locks a second object; other objects for the same path meet it in the kernel only |
| v1 `Stat` | the `Metrics` being filled, the channel of errors, a wait group | one call, a goroutine per subsystem, handlers of errors | the object's mutex, held to the end |
| v1 freezer (`freezer.go`) | `freezer.state` | `Freeze`, `Thaw` | the object's mutex; freezers above and beneath |
| v1 cpuset (`cpuset.go`) | `cpuset.cpus`, `cpuset.mems` of a whole path | `Create`, called by `New` and `Update` | no lock is common to two cgroups on a path |
| v1 memory (`memory.go`) | limit, soft limit, limit with swap; an eventfd per event | `Create`, `Update`, `Stat`; `OOMEventFD`, `RegisterMemoryEvent` | the order of writes against the kernel's rule |
| other v1 controllers (`cpu.go`, `cpuacct.go`, `blkio.go`, `pids.go`, `rdma.go`, `hugetlb.go`, `devices.go`, `net_cls.go`, `net_prio.go`) | one file or a few each | `Create`, `Update`, `Stat` | the object's `New` and `Update` write one after the other, its `Stat` reads all at once |
| v1 systemd (`systemd.go`) | transient units | `Create`, `Delete` | systemd's job queue |
| v2 `Manager`, the tree (`cgroup2/manager.go`) | a path and nothing else; the kernel's tree with `subtree_control`, `type`, processes | `NewManager`, `NewChild`, `ToggleControllers`, `SetType`, `AddProc`, `AddThread`, `MoveTo`, `Delete` | no lock at all |
| v2 `Kill`, `Freeze`, `Thaw` | `cgroup.freeze`, `cgroup.kill`, the processes | the three | each writes what the others read back |
| v2 `EventChan` | a goroutine, an inotify descriptor, two channels | one call | the reader of the channels; the life of the cgroup |
| v2 device filter (`devicefilter.go`, `ebpf.go`) | the program under construction; programs attached | `DeviceFilter`, `setDevices` | programs attached by earlier calls |
| v2 resources (`utils.go`, one file per controller) | none | `ToResources`, `Values`, `EnabledControllers`, `Update`, the properties of a unit | `NewManager` enables what it then writes to |
| v2 statistics (`manager.go:585-730`, `utils.go`) | the sizes of huge pages, asked once | `Stat`, `StatFiltered` | controllers are disabled and cgroups removed while it reads |
| v2 systemd units (`manager.go:900-1176`) | systemd's units and jobs | `NewSystemd`, `LoadSystemd`, `DeleteSystemd` | D-Bus calls and late signals |

What makes each of them correct, and where it is stated:

- **v1 object**: a handle that says *deleted* is quiet and its directories are
  gone; a process that was added is in every subsystem; `MoveTo` takes all
  processes; nobody waits for ever for a lock.
- **v1 Stat**: a call returns; metrics returned as good are complete and nobody
  writes to them any more.
- **v1 freezer**: what `Freeze` has returned for stays frozen; calls return.
- **v1 cpuset**: after `Create` every cpuset on the path can take processes.
- **v1 memory and the other controllers**: a change of limits that makes sense
  is accepted, and everything asked for is in place when the call returns nil.
- **v1 statistics**: they fail only for a reason, and lists that are read from
  several files do not mix. An event that is not registered leaves no descriptor.
- **v2 tree**: an accepted `ToggleControllers` has enabled the controllers on
  the whole path; `Delete` removes nothing from under a process; `MoveTo`
  leaves none behind; calls return.
- **v2 Kill**: whoever was there is killed, and nothing stays frozen.
- **v2 EventChan**: snapshots never go backwards, nothing is lost, the stream
  ends complete, the goroutine ends.
- **v2 device filter**: the program loads, and answers what the list says.
- **v2 resources**: a converted limit means what the v1 limit meant; what is
  written was enabled; the quota of a unit is what was asked for, rounded up.
- **v2 statistics**: a controller that is off, or a file that is odd, takes
  nothing else away.
- **systemd units**: a process that asks for a unit is in it when the call
  returns nil; calls return; a late signal does no harm.

The hard behaviours are the interleavings of file operations (a walk over
directories that are created and removed meanwhile, a check of processes and a
removal after it, a write and the read back of it), errors in the middle of a
sequence of writes, retries with a limit, and waiting: mutexes taken in pairs,
loops that wait for the kernel, a channel nobody reads. `PROJECT.json` lists
them as hazards, each at the line where it bites.

## How to read the modules

- A component is a module: VARIABLES, `Init`, one action per file operation
  or step of a method, `Next`, `Spec`, and at the end its properties.
- What the caller of an operation may do is in `Begin...` actions and in the
  constants (`Menu`, `Ops`, `Moves`, `Filters`, ...); a call's locals are the
  fields of a record, `call[c]`, and its program counter is the field `at`.
- **The kernel is external.** Its rules are modelled from how the code uses it
  and are the first part of a module, or `CgroupFS`. A rule that only makes
  life easier for the library is left out.
- A definition named *Slip* in its comment is a plausible mistake in the
  definition that follows it. It takes no part in `Spec`. Substituting it for
  the original makes TLC find the property named with it in `PROJECT.json`
  violated, which shows that the property can fail.
- `MC_*` modules give constants their values where a `.cfg` cannot, and assume
  again, of these values, the hypotheses of the theorems, so that TLC evaluates
  them.
- `Settings` and `Calls` compose the components that share no state.
- `Selection` has the loops that pass over some elements, and pointers that may
  be nil: a pointer is the set of what it points to, `{}` for nil.
- `*_proofs` modules hold the theorems.

One step of a model is one system call of the library, unless said otherwise.
Opening and reading `cgroup.procs` are one step, so an `ENODEV` from reading a
directory that was removed after the open is folded into the error of the open.

## The modules and the code

### CgroupFS and Cgroup1: `cgroup1/cgroup.go`, `utils.go`

`CgroupFS` is the kernel: `dirs[s]` the directory tree of subsystem `s`,
`member[p][s]` where process `p` is in it, `proc[p]` whether it lives. A forked
process is `"new"` for a while, during which a write of its pid fails with
`EINVAL` (the reason for the retry in `writeCgroupProcs`). `Cgroup1` has

| variable | code |
|---|---|
| `grp[h]` | a `*cgroup`: `path`, `subsystems`, `err` |
| `mu[h]` | `c.mu` |
| `call[t]` | the method goroutine `t` is in, and its locals |

| actions | code |
|---|---|
| `BeginNew`, `BeginChild`, `InitSubsystem`, `SkipInactive`, `InitFails`, `FinishNew` | `New`, `(*cgroup).New`, `initializeSubsystem` |
| `BeginLoad`, `LoadSubsystem`, `FinishLoad` | `Load` |
| `BeginAdd`, `WriteProcs`, `RetryWrite`, `ProcessGone`, `WriteFails`, `FinishAdd` | `Add`, `AddProc`, `AddTask`, `add`, `writeCgroupProcs` with its five tries |
| `BeginDelete`, `BeginWalk`, `VisitDir`, `DirVanished`, `SkipBusy`, `BeginRemove`, `TryRemove`, `FinishDelete` | `Delete`, the walk of `processes`, `remove` with its five tries |
| `BeginMoveTo`, `BeginMoving`, `NextProcess`, `LockDestination`, `FinishOne`, `FinishSubsystem`, `FinishMoveTo` | `MoveTo`, which holds its own lock and takes the destination's for every process |
| `State` | `State` and `checkExists`, which may set `err` |

`WriteTries` and `RemoveTries` stand for the two fives. `Moves` says which
handles callers pair in `MoveTo`, `Adders` which goroutine adds which process.
`New` with `InitCheck` and inactive controllers is in `Inactive`, `Required`.

### Stat1: `Stat` in `cgroup1/cgroup.go`

`Lock`, then a loop over the subsystems that starts a goroutine for each that
has statistics (`Launch`) or leaves on an error of `path()` (`LaunchFails`),
then `wg.Wait` (`Launched`, `Return`). A goroutine reads (`Collect`), asks each
handler (`Handle`), sends what the handler returns (`Send`), which needs room.
`errs[c]` is the content of the channel, as long as `c.subsystems`.

### Freezer1: `cgroup1/freezer.go`, `Freeze` and `Thaw` of the object

`Lock`, then `ChangeState` and `ReadState` in turn until the state read is the
state wanted, and unlock. The kernel's part is the legacy freezer: FROZEN marks
a directory self-freezing, processes beneath stop one by one (`Stop`), a read
that finds all stopped turns *freezing* to *frozen*.

### Systemd: `NewSystemd`, `startUnit`, `DeleteSystemd`; `cgroup1/systemd.go`

| variable | code |
|---|---|
| `unit`, `owner`, `joined` | systemd's unit, whose call loaded it, whose process it was given |
| `job[c]`, `sig[c]` | what the connection of the call waits for, and the signal under way |
| `buf[c]`, `closed` | the channel of the call, which holds one result |
| `canDelegate` | the variable of that name, set once by `checkDelegate` |

`StartUnit` is the loop of `startUnit`, with `ResetFailed`
(`attemptFailedUnitReset`) between its two tries and before the error after a
job that failed; `Create` is that of package `cgroup1`; `StopUnit` serves
`DeleteSystemd` and the other package's `Delete`. `Receive` is the read of the
channel, `Timeout` the 30 seconds of `startUnit`, `CloseConn` the deferred
`conn.Close`, after the deferred `close(statusChan)`: in between, a signal
meets a closed channel (`panic`). systemd itself is `StartDone`, `StartFails`,
`StopEnds`, and the exit of the processes of a unit, `Exit`. `missed` has the
calls whose signal was lost.

### Cpuset1: `cgroup1/cpuset.go`

`Mkdir`, then for each directory from the root down `ReadCurrent`, `ReadParent`
and `Copy` of each of the two files (`ensureParent`, `copyIfNeeded`), then
`SetValue`. The kernel's containment rule may refuse each write.

### Memory1: `cgroup1/memory.go`

`Begin` (`Create` and `Update`), `Order` (what `Update` reads first, and the
exchange of two settings), `Write` (`set`), for the seven files of
`getMemorySettings`. The kernel's rules are that the limit never exceeds the
limit with swap, that a limit below what is in use is refused, and that a limit
of kernel memory may be; `mem` has no limit with swap on a kernel that does not
account for it, and writing it fails.

### Controllers1: the other controllers of package `cgroup1`

`Begin` is `New`, or `Update` of the object (`cgroup.go:353`); for each
controller of the object in its order `Mkdir`, then `Write` of one setting of
`Settings(...)` after the other, the first error ends the call. `Settings` has an
operator per controller (`CpuSettings`, ... , `BlkioSettings`), which gives the
files, their order, and which values are passed over. `hugetlb` and `net_prio`
have no `Update`. `Rmdir` is somebody else. The kernel's rule is that of the CPU
controller: a quota fits its period, and the share of the cgroup above.

### Readers1: the `Stat` methods and the events of package `cgroup1`

`Files(c)` lists what the `Stat` of a controller reads, in order; `Read` reads
the next, and ends the call at the first that does not exist or does not parse;
`FallBack` is blkio's second try with the files of the throttle; `Return` leaves
the lists of rdma out when their lengths differ. `Ignored` is what `NewMemory`
makes of its options. `Register`, `OpenEvent`, `WriteControl` are `memoryEvent`
with its two descriptors. The cgroup is removed, I/O begins and RDMA devices come
and go in between.

### Resources2: the resources of package `cgroup2`

`ToResources` with an operator per kind of resource, `Values`,
`EnabledControllers`, and `UnitProperties` are written as operators, with the
arithmetic of the code: 64 bits are `Word`, the weight of BFQ has its 16. `New`,
`Update` and `NewSystemd` take some resources in, `Write` is `Value.write` with
the kernel's answer. `Curve` is the power of ten in the conversion of shares.

### Stat2: `Stat` and `StatFiltered` of `cgroup2/manager.go`

`Begin` with a mask; `OpenMissing`, `Open`, `Read` for each file in the order
of the code, where only files of keys and values fail the call; `HugePageSizes`
is read once for the process, and what was read is kept. `Content` says what a
reader makes of a number, of "max", and of something else. `Toggle` and `Rmdir`
are the others: a file that has been opened and is then taken away is `torn`.

### Tree2: `cgroup2/manager.go`, `cgroup2/utils.go`

| actions | code |
|---|---|
| `Mkdir`, `Toggle`, `SetResources`, `Cleanup` | `NewManager`, `NewChild`, `ToggleControllers`, `writeSubtreeControl`, the removal on failure |
| `SetType` | `SetType` |
| `AddProc` | `AddProc`, `AddThread` |
| `ReadType`, `ListDir`, `ReadTasks`, `WalkFails`, `Walked`, `Remove` | `Delete`: `GetType`, the walk of `processes` or of `threads`, `remove` |
| `ListDir`, `ReadTasks`, `MoveOne`, `MovedAll` | `MoveTo` |

The kernel's rules: a controller is available beneath where it is enabled, and
may not be disabled while it is enabled further down; a domain cgroup with
processes may not enable one; a threaded cgroup does not let `cgroup.procs` be
read. The controllers are domain controllers and processes have one thread.
`os.RemoveAll` of a directory is one step that removes what can be removed.

### Kill2: `Kill`, `Freeze`, `Thaw` in `cgroup2/manager.go`

`Begin` writes `cgroup.kill`, or falls back to `fallbackKill`; `WriteState` and
`ReadState` are the loop of `freeze()`; `WalkDir` and `WalkErr` the walk of
`Procs(true)`; `Signal` and `Signalled` the loop over processes, `Wait` and
`Return` the `wait4` on each. The file reads back at once what was written to
it while processes stop one by one afterwards.

### EventStream and EventChan: `EventChan`, `waitForEvents` in `manager.go`

`EventStream` is the abstract promise: a stream of snapshots that never goes
backwards, and a stream that ends by itself is complete. `EventChan` has
`Start` (the two watches), `Read`, `CheckEmpty`, `Load`, `LoadGone`, `Send`,
`SendError` and `Return` of the goroutine, failures of the calls in `Faults`,
and the reader of the two channels. The removal of a cgroup makes no inotify
event. A short read and the `continue` on it are folded into `Read`.

### DeviceFilter: `cgroup2/devicefilter.go`, `setDevices`

`Begin` initialises, `AppendDevice` compiles one rule, from the last to the
first, `Ignore` skips what comes before a wildcard, `Finalize` ends the
program, `Attach` leaves it attached. `Answer` runs a program, `Verdict` says
what a list of rules means. That majors from 2^31 are sign-extended by the
conversion to `int32` is not modelled.

### Settings and Calls: several components in one specification

Components that share no state are instances in one module for those whose
properties are invariants of a single call (`Settings`) and in one for those whose
calls wait for each other (`Calls`). `part` names the component a behaviour is
of; the others stay as they began, so that the states of a run are the sum of
theirs, and not their product. The specification of both is `SpecAll`; the
properties are those of the components, by `INSTANCE`. `MC_Settings` and `MC_Calls`
give the values, and `StartHere` leaves the parts that do not move one initial state.

## The runs

Each run is bounded by its constants only: all are explored completely. Bounds
of two (goroutines, processes, objects) are used throughout, since each of the
properties is about a call and one interfering party, or about a process and
one other; the proofs below are for any number where there is one.

| run | module, cfg | states | question |
|---|---|---|---|
| `cg1_life` | MC_Cgroup1, `_life` | 3.1e6 | All operations on a parent and a nested cgroup by two goroutines with two handles and forks. `DeletedHandleIdle`: no call is inside a handle that says deleted; `NoDeadlockedSet`: `MoveTo` in one direction never deadlocks. |
| `cg1_delete` | `_delete` | 1.0e6 | `Load`, filtered `Add`, `Delete` on one cgroup present in any subset of three subsystems, one of them inactive. `DeletedIsGone`, `AddLandsEverywhere`. |
| `cg1_move` | `_move` | 2.3e5 | `MoveTo` from a cgroup with a nested one to another, both in all subsystems, no forks. `MoveDrains`; `CallsReturn` under fairness. |
| `calls` | MC_Calls | 1.9e5 | `Stat`: two callers, three subsystems, one without statistics and one whose `path()` may fail, one handler (`NeverBlocks`, `MetricsFinal`). Freezer: `Freeze` and `Thaw` of a cgroup and its parent, again and again, with one move of a process (`StaysFrozen`). Units: two callers that start and stop one unit again and again, with a pid and without, in both packages, with a signal lost (`OwnUnit`, `PanicsOnlyLate`). `AllReturn`: the calls of all three return. |
| `settings` | MC_Settings | 9.4e5 | Seven components. Cpusets (`Populated`), memory limits and the other controllers of v1 (`AllInPlace`, `OrderIsAccepted`), device rules (`FilterConforms`), the readers of v1 (`StatSucceeds`, `ListsMatch`, `NoLeak`), the resources of v2 (`ControllersCover`, `LimitsAddUp`, `QuotaRoundsUp`), the statistics of v2 (`FailsOnlyTorn`, `Complete`). |
| `memory_raise` | MC_Settings, `_raise` | violation | `RaisingSucceeds`, what the comment at `cgroup1/memory.go:221` says. |
| `quota_max` | MC_Settings, `_quota` | violation | `MaxIsInfinity`, what the comment at `cgroup2/manager.go:1010` says. |
| `tree_toggle` | MC_Tree2, `_toggle` | 1.8e5 | Creating, enabling, disabling, deleting on a chain of three, two controllers, some directories not writable. `EnabledAllTheWay`, `CallsReturn`. |
| `tree_delete` | MC_Tree2, `_delete` | 3.3e6 | Two goroutines delete, move, create, add, and make a cgroup threaded, with two processes that fork and exit. `DeleteSpares`, `MoveTakesAll`. |
| `kill_thaw` | MC_Kill2 | 1.1e6 | One `Kill` and one `Thaw`, two directories, three processes, one of them a child of the caller. `KillsWhoWasThere`, `LeavesThawed`, `CallsReturn`. |
| `ev_stream` | EventChan | 1.5e3 | The goroutine, three memory events (one is the OOM kill), watches and files that fail. `StreamPromise` (the refinement of EventStream), `EventsPublished`, `WatchedExit`. |
| `ev_after_kill` | EventChan, `_after_kill` | violation | `ClosesAfterKill`, what a test expects of a reader that stops at the kill. |

Bounds, and why they are enough:

- `WriteTries`, `RemoveTries` are 2 (or 1) for 5. A try more is one more
  repetition of the same step; what matters is that the limit is reached and
  that it is not, and 2 has both. `tree_delete` has one try, since `DeleteSpares`
  is about the moment before the first.
- `cg1_life` and `cg1_delete` share the work: in the first a cgroup can be
  nested and created again, in the second every subset of subsystems can be
  there. With `State` and nested cgroups `DeletedIsGone` is false; see below.
- `Adders` makes each process one goroutine's business. Two goroutines that add
  the same process through different handles leave it in one cgroup in some
  subsystems and in another in the rest, which no code tries to prevent.
- Handles are used up: each of the two is created once. `MoveTo` pairs are
  `<<h1, h2>>` only, for opposite calls do deadlock (see `NoDeadlock`).
- `tree_delete` uses that the two goroutines are alike (SYMMETRY), which is
  sound: the run checks invariants only and the callers occur nowhere else.
- `ev_stream`: three memory events are two more than the channel holds. A
  process may not join an emptied cgroup (`Rejoin`), for such a cgroup may go
  on to have events after the stream has ended, and `cgroup.events` may be read.
- `settings`, by component: lists of up to three rules over 29 rules, with every
  request the rules can tell apart; limits of none and 1 to 3, with swap accounted for and without; cpusets of two cpus
  on one branch; for the other controllers one request that sets every file, for
  several devices, and every pair of quota and period over three values each,
  with two calls and one removal; two disks, one with two names, two RDMA devices
  and two changes of them; for v2 each pair of limits around 0, "max" and each
  other, and quotas below and above what a second can multiply in a word of 20
  bits (`Word`; the arithmetic is the same for 64); three masks, sizes of huge
  pages on either side of each unit, and one controller that comes or goes.
- `calls`: two calls for a unit meet in every way a third could meet one of them,
  since systemd has one job for a unit at a time; a call may be made again, also
  by the same caller. One lost signal is one more than the calls without a
  timeout can do with.
- `Moves` of the freezer: one process added to another cgroup while the calls
  last. `StaysFrozen` says nothing after it (a process that is added to a frozen
  cgroup runs until it is stopped), `CallsReturn` does.

Deadlock checking is off everywhere: callers may stop calling, every process
may have died, and each run ends in such states.

## Fairness

- A goroutine inside a call runs: WF of its steps (in `Calls` `Runs(c)`, the
  call with the goroutines it has started, or of its connection). None of it makes a caller
  call; where a property counts on a call, it is of the form "once begun".
  The exception is `Kill2`, in which each caller makes one call.
- `sync.Mutex` hands the lock to a waiter that has waited for a millisecond (the
  starvation mode of the Go library), so a `Lock` that is possible again and
  again succeeds: SF of `LockDestination` (Cgroup1) and of `Lock` (Stat1,
  Freezer1; `Locks(c)` in `Calls`).
- A process with a pending SIGKILL dies, and a process beneath a freezing
  directory stops (`Stops(p)`).
- systemd works off its jobs (`Works`): each start and stop ends, if only by
  systemd's own timeouts. That the signal arrives is not assumed beyond what the
  connection's goroutine does; `AllReturn` excepts a call whose signal was lost.
- Nothing is assumed of faults, forks, exits, reads that fail or other callers.

`CallsReturn` of `Kill2` is about a caller when all others have left the loop of
`freeze()` at last: two calls with opposite goals can write over each other for
ever under a fair scheduler. `CallsReturn` of `Freezer1`, a part of `AllReturn`,
likewise excepts a `Thaw` under a frozen cgroup.

## What is proved

Every invariant and every action property that a passing run checks is also stated by
a theorem, for any value of the constants. The theorems are about `Spec`, or `SpecAll`
of `Settings` and `Calls`, and rest on the named assumptions of the modules, which
TLC evaluates on the runs: `TreeAssumption` (v2: paths are sequences, each begins with
the root and is closed under prefixes; there is a process), `ClosedAssumption` (v1:
with a cgroup the ones above it are cgroups), `OrderAssumption` (v1: the subsystems come
in one order), `CallsAssumption` and `SettingsAssumption` (those of the components, on
the types of the constants), and those of `DeviceFilter` and `EventChan`. Some theorems
have a hypothesis more, about the calls that are made or the machine they are made on;
it is a named definition of the module, the runs satisfy it, and it is said below what
goes wrong without it.

The proofs go along an inductive invariant.

- **Cgroup1_proofs**. `IInv == TypeOK /\ LockInv`. `LockInv` says which handles
  a call has locked from where it is (`Held`), that `mu` agrees with that, and
  that a locked handle has not been deleted; without it a step of one goroutine
  could not be shown to leave the others' locks alone. It gives `TypeCorrect`
  (retry counters included), `DeletedHandlesAreIdle`, and, with the assumption
  `MovesAcyclic` (in every set of handles one is the source of no `MoveTo` to
  another of the set), `NoDeadlock`: in a deadlocked set the handles locked as
  sources are such a set.
  - `DeleteIsComplete` adds `GoneInv`: while nobody creates (`NoRecreation`, which
    excludes `State` too) and the cgroups named have none beneath (`LeafPaths`),
    trees only shrink, so what `Delete` has passed without an error stays absent.
  - `AddIsComplete` adds `LandInv`: what an `Add` has written is still there, and a
    process that was written to exists, so that no fork can make it anew elsewhere.
    The hypothesis is `OneMover` (each process is one goroutine's to add, nobody
    calls `MoveTo`): two that move one process leave it where the later write of
    each subsystem has put it. Deletes, forks, and other `Add`s are free.
  - `MoveToDrains` adds `DrainInv`. `HomesInv`: trees are closed upwards and a living
    process is in a directory that exists. `AlikeInv`: all handles have the active
    subsystems, so that the destination takes whatever is listed. `DrainCall`: the
    subsystems behind a `MoveTo` are empty; in the one it is at, each process of
    the tree is found, or in a part still to be walked; the process being moved is
    at the destination wherever it has been written. The walk needs a lemma on
    paths, that one gets from a directory to those beneath through a child
    (`ThroughChild`). The hypothesis is `QuietMoves`: nobody adds, forks or moves the
    other way meanwhile, and there is no `Load`, whose handles may lack subsystems.
- **Tree2_proofs**. `IInv` is `TreeOK` and, for each call, `Place` and `Followed`.
  `TreeOK` is the kernel's: what is enabled is enabled all the way up, what exists
  exists all the way up, living processes have directories. `Place`: the loops
  stay on the path. `Followed` speaks of the processes that were in the cgroup
  when a `Delete` or `MoveTo` began and were not moved since: the walk has found it,
  or has still to list a directory above it, or to read the file of its own
  (`Awaited`); so the walk cannot end and say *empty*. A directory that is listed
  while others are made and removed in it is where a walk loses something, and it
  loses only what was not there at the start. This gives `DeleteSparesProcesses`
  and `MoveTakesAllProcesses` with any number of calls at work in the tree.
  `EnablingReachesDown` is a property of steps: `ToggleControllers` overwrites its
  error with each write, yet the last write is accepted only when the parent has
  the controllers, and then so has everything above, by `TreeOK`.
- **DeviceFilter_proofs**. `CompilerIsCorrect`, for lists of rules of any length.
  What a program answers is a recursive function, which one would reason about by
  induction. None is needed: the compiler appends blocks, so that its own steps are
  the induction. `Compiled` speaks of every function that obeys
  the program so far (`Val`), with an arbitrary value `x` for the block that is to
  come: where one of the rules compiled so far applies, the last of them gives the
  answer, and where none does, the answer is `x` (`Decides`); and there is such a
  function (`Runs`). `Labels` and `Jumps` are why appending a block can be read as
  giving `x` a value: labels are unique, and a jump goes forward, to a block there
  is or to the next. After `Finalize` there is one function, which is `Answer`.
- **Kill2_proofs**. `IInv == TypeOK /\ Reaches /\ Thaws`. `Reaches`: each process
  that was there when a Kill began and lives is killed, or is found and not yet
  signalled, or is in a directory still to be walked. `Thaws`: a frozen cgroup
  is one somebody is on the way to thawing, or that nobody has begun to thaw.
  They give `KillReachesAll` and `KillThaws` for any number of callers.
- **EventChan_proofs**. `StreamImplemented`: every step of EventChan is a step
  of EventStream or a stutter, for any number of memory events, provided nobody
  joins an emptied cgroup and `cgroup.events` can be read (`Steady`). It needs
  that an emptied cgroup has no more events, and that a goroutine that has seen
  it empty (`shouldExit`) will read `memory.events` once more.

- **Calls_proofs**. Each component has an inductive invariant of its own; what the
  others do leaves its variables alone.
  - `Stat`: `StatInv == TypeOK /\ Sent /\ Started`. `Sent`: what a goroutine has sent
    comes from handlers before the one it has reached. With one handler a goroutine
    that is to send has sent nothing, so there is room: a count of a product of finite
    sets (`OneHandlerNeverBlocks`, whose hypothesis is `Handlers = 1`; with two a call
    hangs, see below). `Started` gives `MetricsAreFinal` for any number of handlers.
  - Freezer: `FreezerInv == TypeOK /\ Frozen /\ Asked`. `Frozen`: what reads
    *frozen* has stopped, and what a `Freeze` has returned for (`held`) reads so and is
    frozen on its own account; a `Thaw` above can then not thaw it. `Asked`: between
    the write of a `Freeze` and its return the request stands, and no `Thaw` is at
    work on a held directory. `FreezeHolds` follows, with the hypothesis `OneObject`
    (each directory has one object). It is false without: two objects have two locks,
    a `Thaw` let in through one is still at work when a `Freeze` returns through the
    other, and TLC shows the process running.
  - Units: `UnitsInv == TypeOK /\ PanicsOnlyLate /\ \A c : Good(c)`. `Good` says
    of each call that a start job is that of the unit which is starting, and of the
    call that has loaded it (`Linked`); that job, signal and what was received exclude
    each other, and that there is none of them before the call has asked (`Once`);
    that a call with a pid is told *done* only of a unit it has joined (`Told`); and
    that a call that no longer receives has nothing under way, or has timed out
    (`Ended`). They give `UnitsAreOwn` and `PanicsAreLate`, for any number of callers
    and losses.
- **Settings1_proofs**. The loops of the source are recursive functions here
  (`Selected`), and what is needed of them is proved by way of least elements of
  sets of numbers (`Least`, `Upwards`), which needs no induction over an operator.
  - Cpusets, `CpusetInv`. A call has filled its path down to where it is (`Walks`);
    at a directory, what it has found full is full, what it has read of the parent
    is not empty, and what it has written is full (`Copies`). All of these stay true
    whatever other calls write, since no write empties a file (`StillDoing`), so that
    `PathsAreFilled` holds for any tree and any number of callers.
  - Memory, `MemoryInv`. Each setting asked for is in place or still to be written
    (`InPlace`), as long as the call is alone. `LimitFirst`: when both limits are
    lowered the limit is the first to be written, and until it is the other is what
    it was; once it is there the limit with swap has room.
  - The other controllers, `ControlInv`. What a call has still to write is the rest
    of what its controller asks for (`Sequel`), and what its controllers behind have
    asked for is written (`Progress`). `Bands`: before the quota comes the period
    that it has to fit. This and `MemoryInv` give `NothingIsSkipped` and
    `OrderServes`. `NothingIsSkipped` has the hypothesis `OneValueEach`: no two
    settings go to one file and device. It is false without, since of two rates for
    one device the later stays. The rules for devices are excepted: they are a list,
    each of them takes effect after the ones before.
- **Settings2_proofs**.
  - Readers of v1, `ReaderInv`. Descriptors are open exactly where the call is between
    opening and closing them (`NothingLeaks`); the entries of a list come from one kind
    of file (`OneKind`), are those of the disks while nothing happens (`Quiet`), and
    two lists of devices differ by what was plugged between them (`Pairs`): together
    `ListsBelong`. What remains to be read is what the controller has (`Listed`), so
    that `ReadersSucceed`. Its hypothesis is `SwapIsOptional`: on a host that does not
    account for swap, `NewMemory` has been told to ignore or to detect that. Otherwise
    `Stat` opens a file that is not there and fails (`memory.go:178`).
  - Statistics of v2, `StatInv`. A file that is wanted was read, is still to be read, or
    comes with the huge pages, whose sizes are known or will be (`NoneLost`); a call
    that fails has met what `FailsOnlyTorn` names. They give `FailureIsKnown` and
    `MetricsAreComplete`, for any sizes of huge pages and any masks.
  - Resources of v2, `ResourceInv`. `Writes` is the set of values that some resources
    come to, and `ValuesListed` proves that `Values` lists exactly these, for resources
    of any size. The controller of each of them is one that `EnabledControllers` names
    (`WritesCovered`), and these are on before the first write: `EnabledBeforeWritten`.
    A limit is in its file or still to be written (`LimitsPlaced`), and the two of
    memory and swap are those of the v1 spec, the one less the other: `LimitsAreKept`.
    `QuotasRoundUp` is arithmetic (`QuotaRounded`, `RoundingFits`): when the quota
    times a second fits the word, rounding up to whole percents fits too, and is less
    than one percent more, for any width of the integers.
  - `TypesAreKept`: the type invariants of all seven, which the invariants above
    contain. They say more than types: limits and bandwidths in the files are ones
    that the kernel accepts, and cpusets stay within the ones above them.

Only model-checked is what says *eventually* (`CallsReturn`, `AllReturn`,
`EventsPublished`, `WatchedExit`): liveness under fairness and ENABLED are outside what
the prover does. The runs that end in a violation are counterexamples.

## Disagreements met while modelling

Three are runs of the project that end in a violation.

- **EventChan leaks its goroutine when the reader stops**
  (`cgroup2/manager.go:882`, run `ev_after_kill`). The send on the channel of
  events blocks when its one place is taken. `manager_test.go:157-173` reads
  events until the OOM kill and then waits for the other channel to be closed.
  If the kernel notifies of the kill and of the exit apart, the goroutine has
  two more snapshots to send and one place.
- **Raising both memory limits is refused** (`cgroup1/memory.go:228`, run
  `memory_raise`). `Update` exchanges `settings[0]` and `settings[1]`, which are
  the limit and the soft limit; the comment above says the limit with swap, the
  third, is to go before the limit.

- **A cpu.max without a quota limits the unit** (`cgroup2/manager.go:1015`, run
  `quota_max`). `extractQuotaAndPeriod` gives the largest int64 for "max"; it is
  above 0, so that `quota*1000000` is computed, wraps around and is divided. The
  comment above says that the quota then corresponds to USEC_INFINITY, which only
  a quota below 0 does.

The others are behaviours of the code for which the repository states nothing
that could be checked against it, or which a run excludes by its constants. The
constant named is the one to change in order to see them.

- `State` marks a handle deleted when one subsystem is missing
  (`cgroup1/cgroup.go:570`); `Delete` then refuses to remove the rest. Trace:
  another object removes the directory in one subsystem, `State` is called, the
  other directories stay. (`"state"` in `Ops`, `DeletedIsGone`.)
- `Delete` of a cgroup while a nested one is deleted through another handle: the
  walk reads a nested directory that has just gone, `ErrNotExist` is taken to be
  about the cgroup itself (`cgroup.go:263`), the subsystem is passed over, and
  the call returns nil with the directory left. (`Nested` paths with `"delete"`.)
- `MoveTo` to a handle loaded with fewer subsystems returns nil and leaves the
  processes in the subsystems the destination does not have.
- The comment on `MoveTo` (`cgroup1/control.go:75-76`) speaks of subsystems one at
  a time; each process listed in one subsystem is moved in all of them.
- Two `MoveTo` in opposite directions, or one of a cgroup to itself, deadlock.
- `Stat` with two error handlers: each failing subsystem sends twice into a
  channel with one place per subsystem (`cgroup.go:319-332`). The goroutines
  block, `wg.Wait` waits, and the mutex stays locked. (`Handlers = 2`.)
- `Thaw` of a v1 cgroup under a frozen one writes and reads for ever, with the
  lock held (`freezer.go:69-77`).
- A cpuset that one `Create` found empty is filled by a second `Create` with its
  caller's value, and then overwritten by the first with the parent's
  (`cpuset.go:137`).
- `EventChan` on a cgroup that no process has joined, or that was emptied before
  the watch: it is removed without an event and the goroutine stays
  (`cgroup2/manager.go:833`).
- `Kill` without `cgroup.kill`: `freeze()` returns when the flag reads back, not
  when processes have stopped (`manager.go:759-764`). One that still runs can
  fork into a directory the walk has passed, and the child is not signalled.
- `ToggleControllers` for `Disable` writes from the root down, where the kernel
  refuses as long as the controller is enabled further down; the `EBUSY` is
  overwritten by the nil of the last write (`manager.go:334-340`).
- `NewManager` removes the cgroup when `ToggleControllers` or a value fails, also
  one it has not created (`manager.go:206-207`). If it is empty, it is gone.
- `Delete` of a domain cgroup with a threaded one beneath reads `cgroup.procs` of
  the latter, gets `EOPNOTSUPP` and fails (`manager.go:501-513`).
- `setDevices` attaches a program and detaches none (`manager.go:94`,
  `ebpf.go:47-52`): programs are all asked, so a later list does not take back
  what an earlier one denies, an empty list does nothing, and the 65th fails.
- `startUnit` closes its channel while the job is still registered with the
  connection; after a timeout a signal that arrives between `close(statusChan)`
  and `conn.Close` is sent to a closed channel, and the process panics
  (`manager.go:1088`). `PanicsOnlyLate` shows that nothing but the timeout does it.
- A pid of -1 takes any unit of that name for a success, also one that has failed
  or is being stopped (`manager.go:1099`); the comment at `manager_test.go:64`
  wants it for a slice that exists.
- `NewSystemd` makes the unit's properties with the default slice and its path with
  the slice of the caller (`manager.go:948-985`).
- `DeleteSystemd`, and `Create` and `Delete` of `cgroup1/systemd.go`, wait without a
  timeout and look at no result: a `Create` whose job fails is a success, and a
  stopped unit that ends *failed* stays. `checkDelegate` passes
  a name where systemd takes the mode of the job, so that its probe can only fail.
- `ToResources` drops a CPU quota that comes without a period; with a quota of -1
  and a period the write is refused, for "-1" is no value of `cpu.max`. A period
  of 0 is divided by in `NewSystemd`. CPU shares of 0, which stand for none,
  become a weight of 0, which is refused.
- The limit of memory and swap less the limit of memory is negative when the former
  is -1 (none), and is refused. A BFQ weight is computed in 16 bits and wraps from
  a v1 weight of 17 on (`cgroup2/utils.go:232`).
- v1 `Update` that lowers the CPU period below a quota in force is refused, because
  the period is written first (`cgroup1/cpu.go:52`). `Update` calls `Create`, and
  makes again a directory that was removed. A pids limit of -1 is not written, and
  of several rdma devices one is written, whichever the map gives first.
- A device without a type is written as `a`, which the kernel takes for every
  device whatever its numbers are (`cgroup1/devices.go`).
- The lists of rdma usage and limits are paired by position; with one device
  plugged and another unplugged between the two reads the lengths agree and the
  pairs do not (`cgroup1/rdma.go:144`).
- `cpuacct.stat` is multiplied by 10^9 before it is divided: 64 bits are full after
  5.8 years of CPU time (`cgroup1/cpuacct.go:128`). Readers1 has no such numbers.
- The sizes of huge pages, and systemd's version, are asked once; a failure is kept
  for the life of the process (`cgroup2/utils.go`).

## What is not modelled

- File names, formats, `/proc/<pid>/cgroup` and mount parsing, cgroup mode, v1
  hierarchies, paths and options: conversions without state. Cgroup1 takes the
  subsystems and their paths as constants.
- Which number of a statistics file goes to which field of the metrics. Readers1
  and Stat2 say which files are read, when the call fails, and what is left out.
- `perf_event` and named hierarchies of v1, which only have a path.
- In `Systemd`: the names of units and the paths of slices, and calls for more than
  one unit, which do not meet. `LoadSystemd` makes an object and does nothing else.
- Generated protobuf code, and the command `cgctl`.
- In `Tree2`: threaded controllers, processes with several threads, and Managers
  from systemd, whose mount point is empty.
- Recovery after a crash: nothing is persisted but the kernel's own state. A
  program that dies in the middle of a call leaves a state which another
  handle, by `Load`, finds in `cg1_delete` as one of its initial states.

## The plan

Done, in this order: CgroupFS and Cgroup1 (the object of v1 with its locks),
EventStream and EventChan, Kill2, Stat1, Tree2, DeviceFilter, Cpuset1, Memory1,
Freezer1, Systemd, Resources2, Stat2, Controllers1, Readers1, and the compositions
Settings and Calls; proofs for Cgroup1, EventChan, Kill2, Tree2, DeviceFilter, Calls
and Settings.

Of the code, threaded controllers in Tree2 are what remains, and the hazards that
`PROJECT.json` lists without a property, each with its reason. Of the proofs, what
remains is out of the prover's reach: that calls return. A weaker hypothesis would be
worth having for `MoveToDrains`, which excludes forks and additions altogether,
where it would do to exclude those into the cgroup that is emptied.
