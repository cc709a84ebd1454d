------------------------------- MODULE Cgroup1 -------------------------------
(***************************************************************************)
(* The cgroup object of package cgroup1 (cgroup1/cgroup.go): New, Load and *)
(* the methods New, Add, Delete, State and MoveTo, run by threads that     *)
(* share handles.  A handle is a *cgroup: its path, its subsystems, its    *)
(* mutex mu and its sticky error err.  Every method walks c.subsystems one *)
(* at a time, and one step of a thread here is one file-system operation   *)
(* of that walk, so calls through different handles interleave with each   *)
(* other and with the kernel.                                              *)
(***************************************************************************)
EXTENDS CgroupFS, FiniteSets

CONSTANTS Thread,      \* goroutines
          NoThread,
          Handle,      \* how many *cgroup values a behaviour may create
          NoHandle,
          Paths,       \* the cgroups the callers of New and Load name
          Names,       \* the names given to the method New
          Order,       \* position of a subsystem in the hierarchy's list
          Inactive,    \* subsystems whose path() is ErrControllerNotActive
          Required,    \* those of them InitCheck insists on
          Filters,     \* the subsystem lists passed to Add; {} is "all"
          Adders,      \* <<thread, pid>>: who calls Add for which process
          Moves,       \* <<source, destination>> of the MoveTo calls made
          Ops,         \* the operations the callers use
          WriteTries,  \* 5 in writeCgroupProcs
          RemoveTries  \* 5 in remove

OpNames == {"new", "child", "load", "add", "delete", "state", "moveto"}

ASSUME HandleAssumption ==
    /\ NoThread \notin Thread /\ NoHandle \notin Handle
    /\ Paths \subseteq Cgroup
    /\ Order \in [Subsystem -> Nat]
    /\ Inactive \subseteq Subsystem
    /\ Filters \subseteq SUBSET Subsystem
    /\ Adders \subseteq Thread \X Pid
    /\ Moves \subseteq Handle \X Handle
    /\ Ops \subseteq OpNames
    /\ WriteTries \in Nat \ {0} /\ RemoveTries \in Nat \ {0}

ASSUME OrderAssumption ==
    \A r, s \in Subsystem : Order[r] = Order[s] => r = s

VARIABLES grp,   \* the handles
          mu,    \* who holds the mutex of a handle
          call   \* what each thread is executing

hvars == <<grp, mu>>
vars  == <<dirs, member, proc, grp, mu, call>>

(* A handle; "free" is one that has not been created yet.                  *)
Grp == [path : Cgroup, subs : SUBSET Subsystem, err : {"free", "nil", "deleted"}]

FreeGrp == [path |-> Root, subs |-> {}, err |-> "free"]

(* The locals of a call: the subsystems still to visit (todo), those it    *)
(* has activated or addresses (subs), the directories still to walk        *)
(* (pend), the processes found or still to move (found), whether a         *)
(* subsystem failed (errs), and of an Add its handle (dst), its process,   *)
(* the subsystems still to write (wtodo) and the attempts made (tries).    *)
Call == [op    : OpNames \cup {"idle"},
         at    : {"start", "next", "walk", "remove", "move", "lock", "write"},
         h     : Handle \cup {NoHandle},
         dst   : Handle \cup {NoHandle},
         path  : Cgroup,
         todo  : SUBSET Subsystem,
         subs  : SUBSET Subsystem,
         pend  : SUBSET Cgroup,
         found : SUBSET Pid,
         errs  : BOOLEAN,
         pid   : Pid \cup {0},
         wtodo : SUBSET Subsystem,
         tries : 0 .. (WriteTries + RemoveTries)]

Idle == [op |-> "idle", at |-> "start", h |-> NoHandle, dst |-> NoHandle,
         path |-> Root, todo |-> {}, subs |-> {}, pend |-> {}, found |-> {},
         errs |-> FALSE, pid |-> 0, wtodo |-> {}, tries |-> 0]

TypeOK ==
    /\ KernelTypeOK
    /\ grp \in [Handle -> Grp]
    /\ mu \in [Handle -> Thread \cup {NoThread}]
    /\ call \in [Thread -> Call]

Init ==
    /\ KernelInit
    /\ grp = [h \in Handle |-> FreeGrp]
    /\ mu = [h \in Handle |-> NoThread]
    /\ call = [t \in Thread |-> Idle]

-----------------------------------------------------------------------------
(* Every list of subsystems in the code is a sublist of the hierarchy's.   *)
IsFirst(s, todo) == s \in todo /\ \A u \in todo : Order[s] <= Order[u]

Becomes(t, c) == call' = [call EXCEPT ![t] = c]

(* Slip: a method that forgets to check c.err.                             *)
UsableUnchecked(h) == mu[h] = NoThread /\ grp[h].err # "free"

(* mu.Lock and the check of c.err that every method opens with.            *)
Usable(h) == mu[h] = NoThread /\ grp[h].err = "nil"

Lock(t, h) == mu' = [mu EXCEPT ![h] = t]

(* The deferred mu.Unlock of whatever mutexes the call holds.              *)
UnlockAll(t) == mu' = [g \in Handle |-> IF mu[g] = t THEN NoThread ELSE mu[g]]

Return(t) == Becomes(t, Idle) /\ UnlockAll(t)

Create(h, p, ss) ==
    /\ grp[h].err = "free"
    /\ grp' = [grp EXCEPT ![h] = [path |-> p, subs |-> ss, err |-> "nil"]]

Doing(t, op, at) == call[t].op = op /\ call[t].at = at

-----------------------------------------------------------------------------
(* A bound of the model: a constructor is called only while a handle is   *)
(* left for it to return.                                                  *)
HandleLeft ==
    Cardinality({t \in Thread : call[t].op \in {"new", "child", "load"}})
      < Cardinality({h \in Handle : grp[h].err = "free"})

(* New (the function): initializes every subsystem of the hierarchy.       *)
BeginNew(t, p) ==
    /\ "new" \in Ops /\ call[t] = Idle /\ HandleLeft
    /\ Becomes(t, [Idle EXCEPT !.op = "new", !.path = p, !.todo = Subsystem])
    /\ UNCHANGED <<kvars, hvars>>

(* The method New: the same under the parent's mutex, for its subsystems.  *)
BeginChild(t, h, n) ==
    /\ "child" \in Ops /\ call[t] = Idle /\ Usable(h) /\ HandleLeft
    /\ Append(grp[h].path, n) \in Cgroup
    /\ Lock(t, h)
    /\ Becomes(t, [Idle EXCEPT !.op = "child", !.h = h, !.todo = grp[h].subs,
                               !.path = Append(grp[h].path, n)])
    /\ UNCHANGED <<kvars, grp>>

Creating(t) == call[t].op \in {"new", "child"}

(* initializeSubsystem with the path function answering                    *)
(* ErrControllerNotActive: skipped unless InitCheck refuses.               *)
SkipInactive(t) ==
    /\ call[t].op \in {"new", "load"}
    /\ \E s \in Inactive :
          /\ IsFirst(s, call[t].todo)
          /\ IF s \in Required
             THEN Return(t)
             ELSE /\ Becomes(t, [call[t] EXCEPT !.todo = @ \ {s}])
                  /\ UNCHANGED mu
    /\ UNCHANGED <<kvars, grp>>

InitSubsystem(t) ==
    /\ Creating(t)
    /\ \E s \in Subsystem \ Inactive :
          /\ IsFirst(s, call[t].todo)
          /\ MkdirAll(s, call[t].path)
          /\ Becomes(t, [call[t] EXCEPT !.todo = @ \ {s}, !.subs = @ \cup {s}])
    /\ UNCHANGED <<member, proc, hvars>>

(* mkdir or a write of a setting fails: what exists by then stays.         *)
InitFails(t) ==
    /\ Creating(t)
    /\ \E s \in Subsystem \ Inactive :
          /\ IsFirst(s, call[t].todo)
          /\ MkdirAll(s, call[t].path) \/ UNCHANGED dirs
          /\ Return(t)
    /\ UNCHANGED <<member, proc, grp>>

FinishNew(t, h) ==
    /\ Creating(t) /\ call[t].todo = {}
    /\ Create(h, call[t].path, call[t].subs)
    /\ Return(t)
    /\ UNCHANGED kvars

(* Load keeps the subsystems in which the path exists.                     *)
BeginLoad(t, p) ==
    /\ "load" \in Ops /\ call[t] = Idle /\ HandleLeft
    /\ Becomes(t, [Idle EXCEPT !.op = "load", !.path = p, !.todo = Subsystem])
    /\ UNCHANGED <<kvars, hvars>>

LoadSubsystem(t) ==
    /\ call[t].op = "load"
    /\ \E s \in Subsystem \ Inactive :
          /\ IsFirst(s, call[t].todo)
          /\ Becomes(t, [call[t] EXCEPT
                !.todo = @ \ {s},
                !.subs = IF call[t].path \in dirs[s] THEN @ \cup {s} ELSE @])
    /\ UNCHANGED <<kvars, hvars>>

(* With no subsystem left the answer is ErrCgroupDeleted.                  *)
FinishLoad(t, h) ==
    /\ call[t].op = "load" /\ call[t].todo = {}
    /\ IF call[t].subs = {}
       THEN UNCHANGED grp
       ELSE Create(h, call[t].path, call[t].subs)
    /\ Return(t)
    /\ UNCHANGED kvars

-----------------------------------------------------------------------------
(* Add and AddProc: subsystemsFilter picks the subsystems to write to.     *)
Filtered(h, f) == IF f = {} THEN grp[h].subs ELSE grp[h].subs \cap f

BeginAdd(t, h, p, f) ==
    /\ "add" \in Ops /\ call[t] = Idle /\ Usable(h) /\ <<t, p>> \in Adders
    /\ Lock(t, h)
    /\ Becomes(t, [Idle EXCEPT !.op = "add", !.at = "write", !.dst = h,
                               !.pid = p, !.subs = Filtered(h, f),
                               !.wtodo = Filtered(h, f)])
    /\ UNCHANGED <<kvars, grp>>

Writing(t, s) ==
    /\ call[t].op \in {"add", "moveto"} /\ call[t].at = "write"
    /\ IsFirst(s, call[t].wtodo)

Target(t) == grp[call[t].dst].path

(* The kernel accepts the pid: on to the next subsystem.                   *)
WriteProcs(t) ==
    /\ \E s \in Subsystem :
          /\ Writing(t, s)
          /\ Target(t) \in dirs[s] /\ proc[call[t].pid] = "run"
          /\ WritePid(call[t].pid, s, Target(t))
          /\ Becomes(t, [call[t] EXCEPT !.wtodo = @ \ {s}, !.tries = 0])
    /\ UNCHANGED <<dirs, proc, hvars>>

(* Slip: writeCgroupProcs retries without a limit.                         *)
RetryWriteForever(t) ==
    /\ \E s \in Subsystem : Writing(t, s) /\ Target(t) \in dirs[s]
    /\ proc[call[t].pid] = "new"
    /\ Becomes(t, [call[t] EXCEPT !.tries = @ + 1])
    /\ UNCHANGED <<kvars, hvars>>

(* EINVAL of a TASK_NEW process: writeCgroupProcs tries again.             *)
RetryWrite(t) ==
    /\ \E s \in Subsystem : Writing(t, s) /\ Target(t) \in dirs[s]
    /\ proc[call[t].pid] = "new" /\ call[t].tries + 1 < WriteTries
    /\ Becomes(t, [call[t] EXCEPT !.tries = @ + 1])
    /\ UNCHANGED <<kvars, hvars>>

(* The process is gone (ESRCH): Add returns the error, MoveTo goes on with *)
(* the next process.                                                       *)
ProcessGone(t) ==
    /\ \E s \in Subsystem : Writing(t, s) /\ Target(t) \in dirs[s]
    /\ proc[call[t].pid] \in {"none", "dead"}
    /\ IF call[t].op = "add"
       THEN Return(t)
       ELSE /\ mu' = [mu EXCEPT ![call[t].dst] = NoThread]
            /\ Becomes(t, [call[t] EXCEPT !.at = "move", !.wtodo = {}, !.tries = 0,
                                          !.pid = 0, !.found = @ \ {call[t].pid}])
    /\ UNCHANGED <<kvars, grp>>

(* Slip: add drops the error of one subsystem and goes on with the next.   *)
WriteFailsQuietly(t) ==
    /\ \E s \in Subsystem :
          /\ Writing(t, s)
          /\ Becomes(t, [call[t] EXCEPT !.wtodo = @ \ {s}, !.tries = 0])
    /\ UNCHANGED <<kvars, hvars>>

(* The directory is gone, the retries are used up, or the kernel refuses.  *)
WriteFails(t) ==
    /\ \E s \in Subsystem :
          /\ Writing(t, s)
          /\ \/ Target(t) \notin dirs[s]
             \/ proc[call[t].pid] = "new" /\ call[t].tries + 1 >= WriteTries
             \/ proc[call[t].pid] = "run"
    /\ Return(t)
    /\ UNCHANGED <<kvars, grp>>

Added(t) == call[t].at = "write" /\ call[t].wtodo = {}

FinishAdd(t) ==
    /\ call[t].op = "add" /\ Added(t)
    /\ Return(t)
    /\ UNCHANGED <<kvars, grp>>

-----------------------------------------------------------------------------
BeginDelete(t, h) ==
    /\ "delete" \in Ops /\ call[t] = Idle /\ Usable(h)
    /\ Lock(t, h)
    /\ Becomes(t, [Idle EXCEPT !.op = "delete", !.at = "next", !.h = h,
                               !.path = grp[h].path, !.todo = grp[h].subs])
    /\ UNCHANGED <<kvars, grp>>

Walking(t, s) ==
    /\ call[t].op \in {"delete", "moveto"} /\ call[t].at = "walk"
    /\ IsFirst(s, call[t].todo)

NextSubsystem(c) == [c EXCEPT !.at = "next", !.pend = {}, !.found = {}]

(* c.processes(s, true, cgroup.procs): a walk of the tree from c.path.     *)
BeginWalk(t) ==
    /\ call[t].op \in {"delete", "moveto"} /\ call[t].at = "next"
    /\ call[t].todo # {}
    /\ Becomes(t, [call[t] EXCEPT !.at = "walk", !.pend = {call[t].path}])
    /\ UNCHANGED <<kvars, hvars>>

(* Slip: the walk is not recursive.                                        *)
VisitTopDir(t) ==
    /\ \E s \in Subsystem, d \in call[t].pend :
          /\ Walking(t, s) /\ d \in dirs[s]
          /\ Becomes(t, [call[t] EXCEPT !.pend = {}, !.found = ProcsIn(s, d)])
    /\ UNCHANGED <<kvars, hvars>>

(* One directory: its processes are collected and its children queued.     *)
VisitDir(t) ==
    /\ \E s \in Subsystem, d \in call[t].pend :
          /\ Walking(t, s) /\ d \in dirs[s]
          /\ Becomes(t, [call[t] EXCEPT !.pend = (@ \ {d}) \cup Children(s, d),
                                        !.found = @ \cup ProcsIn(s, d)])
    /\ UNCHANGED <<kvars, hvars>>

(* A queued directory has vanished: the walk ends with ErrNotExist, which  *)
(* Delete takes for a cgroup absent from the subsystem and MoveTo returns. *)
DirVanished(t) ==
    /\ \E s \in Subsystem, d \in call[t].pend :
          /\ Walking(t, s) /\ d \notin dirs[s]
          /\ IF call[t].op = "delete"
             THEN /\ Becomes(t, NextSubsystem([call[t] EXCEPT !.todo = @ \ {s}]))
                  /\ UNCHANGED mu
             ELSE Return(t)
    /\ UNCHANGED <<kvars, grp>>

Walked(t, s) == Walking(t, s) /\ call[t].pend = {}

(* Slip: a subsystem with running processes is passed over in silence.     *)
SkipBusyQuietly(t) ==
    /\ call[t].op = "delete" /\ call[t].found # {}
    /\ \E s \in Subsystem :
          /\ Walked(t, s)
          /\ Becomes(t, NextSubsystem([call[t] EXCEPT !.todo = @ \ {s}]))
    /\ UNCHANGED <<kvars, hvars>>

(* Running processes keep the subsystem out of the removal.                *)
SkipBusy(t) ==
    /\ call[t].op = "delete" /\ call[t].found # {}
    /\ \E s \in Subsystem :
          /\ Walked(t, s)
          /\ Becomes(t, NextSubsystem([call[t] EXCEPT !.todo = @ \ {s}, !.errs = TRUE]))
    /\ UNCHANGED <<kvars, hvars>>

BeginRemove(t) ==
    /\ call[t].op = "delete" /\ call[t].found = {}
    /\ \E s \in Subsystem : Walked(t, s)
    /\ Becomes(t, [call[t] EXCEPT !.at = "remove", !.tries = 0])
    /\ UNCHANGED <<kvars, hvars>>

(* One attempt of remove; after the last one the subsystem goes to errs.   *)
TryRemove(t) ==
    /\ Doing(t, "delete", "remove")
    /\ \E s \in Subsystem :
          LET done == call[t].path \notin dirs[s] \ Removable(s, call[t].path)
              last == call[t].tries + 1 >= RemoveTries
          IN /\ IsFirst(s, call[t].todo)
             /\ RemoveAll(s, call[t].path)
             /\ Becomes(t,
                  IF done \/ last
                  THEN NextSubsystem([call[t] EXCEPT
                           !.todo = @ \ {s}, !.tries = 0, !.errs = @ \/ ~done])
                  ELSE [call[t] EXCEPT !.tries = @ + 1])
    /\ UNCHANGED <<member, proc, hvars>>

(* Only a Delete with no error makes the handle a deleted one.             *)
FinishDelete(t) ==
    /\ Doing(t, "delete", "next") /\ call[t].todo = {}
    /\ grp' = IF call[t].errs THEN grp
              ELSE [grp EXCEPT ![call[t].h].err = "deleted"]
    /\ Return(t)
    /\ UNCHANGED kvars

(* State: checkExists marks the handle when any directory is missing.      *)
State(t, h) ==
    /\ "state" \in Ops /\ call[t] = Idle /\ Usable(h)
    /\ \E s \in grp[h].subs : grp[h].path \notin dirs[s]
    /\ grp' = [grp EXCEPT ![h].err = "deleted"]
    /\ UNCHANGED <<kvars, mu, call>>

-----------------------------------------------------------------------------
BeginMoveTo(t, h, d) ==
    /\ "moveto" \in Ops /\ call[t] = Idle /\ Usable(h)
    /\ <<h, d>> \in Moves /\ grp[d].err # "free"
    /\ Lock(t, h)
    /\ Becomes(t, [Idle EXCEPT !.op = "moveto", !.at = "next", !.h = h, !.dst = d,
                               !.path = grp[h].path, !.todo = grp[h].subs])
    /\ UNCHANGED <<kvars, grp>>

(* The list of this subsystem is complete.                                 *)
BeginMoving(t) ==
    /\ call[t].op = "moveto"
    /\ \E s \in Subsystem : Walked(t, s)
    /\ Becomes(t, [call[t] EXCEPT !.at = "move"])
    /\ UNCHANGED <<kvars, hvars>>

(* destination.Add(p): its mutex is taken while c.mu is held.              *)
NextProcess(t) ==
    /\ Doing(t, "moveto", "move")
    /\ \E p \in call[t].found :
          Becomes(t, [call[t] EXCEPT !.at = "lock", !.pid = p])
    /\ UNCHANGED <<kvars, hvars>>

LockDestination(t) ==
    /\ Doing(t, "moveto", "lock") /\ mu[call[t].dst] = NoThread
    /\ IF grp[call[t].dst].err = "nil"
       THEN /\ Lock(t, call[t].dst)
            /\ Becomes(t, [call[t] EXCEPT !.at = "write", !.tries = 0,
                                          !.wtodo = grp[call[t].dst].subs])
       ELSE Return(t)
    /\ UNCHANGED <<kvars, grp>>

(* Slip: destination.Add leaves its mutex locked.                          *)
FinishOneLocked(t) ==
    /\ call[t].op = "moveto" /\ Added(t)
    /\ Becomes(t, [call[t] EXCEPT !.at = "move", !.pid = 0,
                                  !.found = @ \ {call[t].pid}])
    /\ UNCHANGED <<kvars, hvars>>

(* destination.Add has returned nil.                                       *)
FinishOne(t) ==
    /\ call[t].op = "moveto" /\ Added(t)
    /\ mu' = [mu EXCEPT ![call[t].dst] = NoThread]
    /\ Becomes(t, [call[t] EXCEPT !.at = "move", !.pid = 0,
                                  !.found = @ \ {call[t].pid}])
    /\ UNCHANGED <<kvars, grp>>

FinishSubsystem(t) ==
    /\ Doing(t, "moveto", "move") /\ call[t].found = {}
    /\ \E s \in Subsystem :
          /\ IsFirst(s, call[t].todo)
          /\ Becomes(t, NextSubsystem([call[t] EXCEPT !.todo = @ \ {s}]))
    /\ UNCHANGED <<kvars, hvars>>

FinishMoveTo(t) ==
    /\ Doing(t, "moveto", "next") /\ call[t].todo = {}
    /\ Return(t)
    /\ UNCHANGED <<kvars, grp>>

-----------------------------------------------------------------------------
Begin(t) ==
    \/ \E p \in Paths : BeginNew(t, p) \/ BeginLoad(t, p)
    \/ \E h \in Handle :
          \/ \E n \in Names : BeginChild(t, h, n)
          \/ \E p \in Pid, f \in Filters : BeginAdd(t, h, p, f)
          \/ BeginDelete(t, h)
          \/ State(t, h)
          \/ \E d \in Handle : BeginMoveTo(t, h, d)

(* What a thread inside a call does next.                                  *)
Step(t) ==
    \/ SkipInactive(t) \/ InitSubsystem(t) \/ InitFails(t) \/ LoadSubsystem(t)
    \/ \E h \in Handle : FinishNew(t, h) \/ FinishLoad(t, h)
    \/ WriteProcs(t) \/ RetryWrite(t) \/ ProcessGone(t) \/ WriteFails(t)
    \/ FinishAdd(t)
    \/ BeginWalk(t) \/ VisitDir(t) \/ DirVanished(t)
    \/ SkipBusy(t) \/ BeginRemove(t) \/ TryRemove(t) \/ FinishDelete(t)
    \/ BeginMoving(t) \/ NextProcess(t) \/ FinishOne(t)
    \/ FinishSubsystem(t) \/ FinishMoveTo(t)

Kernel == KernelNext /\ UNCHANGED <<hvars, call>>

Next ==
    \/ \E t \in Thread : Begin(t) \/ Step(t) \/ LockDestination(t)
    \/ Kernel

Spec == Init /\ [][Next]_vars

(* A goroutine inside a call keeps running, and sync.Mutex hands the lock  *)
(* to a waiter it has starved for a millisecond, so a waiting Lock that is *)
(* possible again and again succeeds.                                      *)
Fairness == \A t \in Thread : WF_vars(Step(t)) /\ SF_vars(LockDestination(t))

FairSpec == Spec /\ Fairness

-----------------------------------------------------------------------------
(* A handle that reports ErrCgroupDeleted is quiet: no call is inside it,  *)
(* as its owner or as the destination of a MoveTo, and none gets in (the   *)
(* check of c.err under c.mu that opens every method).                     *)
DeletedHandleIdle ==
    \A h \in Handle : grp[h].err = "deleted" => mu[h] = NoThread

(* Why: the handles locked by a call, and the mutexes agree with them.     *)
Held(c) ==
    {g \in Handle :
        \/ g = c.h /\ c.op \in {"child", "delete", "moveto"}
        \/ g = c.dst /\ (c.op = "add" \/ (c.op = "moveto" /\ c.at = "write"))}

Shape(c) ==
    /\ c.op \in {"child", "delete", "moveto"} => c.h \in Handle
    /\ c.op \in {"add", "moveto"} => c.dst \in Handle
    /\ c.op = "add" => c.at = "write"
    /\ c.op = "moveto" => <<c.h, c.dst>> \in Moves
    /\ c.op = "moveto" /\ c.at = "write" => c.dst # c.h
    /\ c.op \in {"add", "moveto"} /\ c.at \in {"lock", "write"} => c.pid \in Pid
    /\ c.op \notin {"add", "moveto"} => c.at \notin {"lock", "write", "move"}

LockInv ==
    /\ \A t \in Thread : Shape(call[t])
    /\ \A t \in Thread, g \in Handle : mu[g] = t <=> g \in Held(call[t])
    /\ \A g \in Handle : mu[g] # NoThread => grp[g].err = "nil"

(* No set of goroutines waits for mutexes held inside the set.  MoveTo is  *)
(* the only method that locks a second handle, so this is about the order  *)
(* in which callers pair sources and destinations (Moves).                 *)
MovesAcyclic ==
    \A H \in (SUBSET Handle) \ {{}} : \E h \in H : \A d \in H : <<h, d>> \notin Moves

Waiting(t) == Doing(t, "moveto", "lock")

NoDeadlockedSet ==
    \A S \in (SUBSET Thread) \ {{}} :
        ~ \A t \in S : Waiting(t) /\ mu[call[t].dst] \in S

(* What it takes: nobody creates cgroups meanwhile or calls State, and the *)
(* cgroups named have no others beneath them.                              *)
NoRecreation == Ops \cap {"new", "child", "state"} = {}

LeafPaths == \A p \in Paths : Subtree(p) = {p}

(* Once a handle says deleted, its directory is gone from every subsystem  *)
(* it controls (what Delete promises; callers that create cgroups again    *)
(* are left to other runs).                                                *)
DeletedIsGone ==
    \A h \in Handle : grp[h].err = "deleted" =>
        \A s \in grp[h].subs : grp[h].path \notin dirs[s]

(* Each process is one thread's to add, and nobody moves whole cgroups.    *)
OneMover ==
    /\ "moveto" \notin Ops
    /\ \A t, u \in Thread, p \in Pid :
          <<t, p>> \in Adders /\ <<u, p>> \in Adders => t = u

(* An Add has moved its process in every subsystem it has passed, so one   *)
(* that returns nil leaves it in the cgroup everywhere, whatever deletes,  *)
(* forks and other Adds do meanwhile.                                      *)
AddLandsEverywhere ==
    \A t \in Thread : call[t].op = "add" =>
        \A s \in call[t].subs \ call[t].wtodo :
            member[call[t].pid][s] = Target(t)

MoveToOk(t) == Doing(t, "moveto", "next") /\ call[t].todo = {} /\ call'[t] = Idle

(* What it takes: the one pair of handles, no Add, no Load (a handle with  *)
(* fewer subsystems), and no process that forks into the cgroup meanwhile. *)
QuietMoves ==
    /\ Ops \cap {"add", "load"} = {} /\ ~Forks
    /\ \A h, d, g, e \in Handle :
          <<h, d>> \in Moves /\ <<g, e>> \in Moves => h = g /\ d = e

(* A MoveTo that returns nil has emptied the calling cgroup, nested ones   *)
(* included, in every subsystem it controls, unless the destination lies   *)
(* inside it.                                                              *)
MoveDrains ==
    [][\A t \in Thread :
         MoveToOk(t) /\ ~Under(call[t].path, Target(t)) =>
            \A s \in grp[call[t].h].subs, d \in Subtree(call[t].path) :
                ProcsIn(s, d) = {}]_vars

(* Every call returns.                                                     *)
CallsReturn == \A t \in Thread : call[t].op # "idle" ~> call[t].op = "idle"

=============================================================================
