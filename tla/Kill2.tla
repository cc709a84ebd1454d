-------------------------------- MODULE Kill2 --------------------------------
(***************************************************************************)
(* Kill, Freeze and Thaw of a cgroup2 Manager (cgroup2/manager.go), called *)
(* by any number of goroutines on one cgroup and its descendants, while    *)
(* the processes inside fork and exit.  A Manager has no lock: calls meet  *)
(* in the kernel only.                                                     *)
(*                                                                         *)
(* The kernel's side is external.  Writing cgroup.freeze sets a flag that  *)
(* reading the file gives back at once; the processes stop one by one      *)
(* afterwards, and only cgroup.events says when all have.  A killed        *)
(* process dies, frozen or not, and forks no more.                         *)
(***************************************************************************)
EXTENDS Naturals, FiniteSets

CONSTANTS Pid,
          Child,      \* those the caller is the parent of
          Dir,        \* the cgroup and its descendants
          Caller,
          Op,         \* what each caller calls, once
          FreezeFile, \* the kernel has cgroup.freeze
          Subreaper,  \* the caller has a child subreaper set
          Faults      \* what may fail: writing cgroup.kill ("kill"), which
                      \* older kernels do not have, reading a directory ("walk")

ASSUME KillAssumption ==
    /\ Child \subseteq Pid /\ Dir # {}
    /\ Op \in [Caller -> {"kill", "freeze", "thaw"}]
    /\ FreezeFile \in BOOLEAN /\ Subreaper \in BOOLEAN
    /\ Faults \subseteq {"kill", "walk"}

VARIABLES proc,    \* the state of each process
          home,    \* the directory it is in
          killed,  \* those with a SIGKILL pending or delivered
          freeze,  \* the content of cgroup.freeze
          call     \* the calls

kernel == <<proc, home, killed, freeze>>
vars   == <<proc, home, killed, freeze, call>>

Alive == {p \in Pid : proc[p] \in {"run", "frozen"}}

(* A call: what Freeze or Thaw waits for (goal), the directories to walk   *)
(* (todo), the processes found and not signalled yet (left), those to wait *)
(* for (procs), whether the walk failed (err), and for the properties the  *)
(* processes there when it began (first).                                  *)
Call == [at    : {"start", "write", "read", "walk", "signal", "wait", "done"},
         goal  : BOOLEAN,
         todo  : SUBSET Dir,
         left  : SUBSET Pid,
         procs : SUBSET Pid,
         err   : BOOLEAN,
         first : SUBSET Pid]

TypeOK ==
    /\ proc \in [Pid -> {"none", "run", "frozen", "dead"}]
    /\ home \in [Pid -> Dir]
    /\ killed \subseteq Pid
    /\ freeze \in BOOLEAN
    /\ call \in [Caller -> Call]
    /\ \A c \in Caller : call[c].at = "walk" => call[c].todo # {}

Init ==
    /\ freeze \in {FALSE, FreezeFile}
    /\ proc \in [Pid -> {"none", IF freeze THEN "frozen" ELSE "run"}]
    /\ \A p \in Child : proc[p] # "none"
    /\ home \in [Pid -> Dir]
    /\ killed = {}
    /\ call = [c \in Caller |-> [at |-> "start", goal |-> TRUE, todo |-> {},
                left |-> {}, procs |-> {}, err |-> FALSE, first |-> {}]]

-----------------------------------------------------------------------------
(* The kernel.                                                             *)
Fork(p, q) ==
    /\ proc[p] = "run" /\ p \notin killed /\ proc[q] = "none"
    /\ proc' = [proc EXCEPT ![q] = "run"]
    /\ home' = [home EXCEPT ![q] = home[p]]
    /\ UNCHANGED <<killed, freeze, call>>

Stop(p) ==
    /\ freeze /\ proc[p] = "run" /\ p \notin killed
    /\ proc' = [proc EXCEPT ![p] = "frozen"]
    /\ UNCHANGED <<home, killed, freeze, call>>

Continue(p) ==
    /\ ~freeze /\ proc[p] = "frozen"
    /\ proc' = [proc EXCEPT ![p] = "run"]
    /\ UNCHANGED <<home, killed, freeze, call>>

Die(p) ==
    /\ proc[p] = "run" \/ (p \in killed /\ proc[p] = "frozen")
    /\ proc' = [proc EXCEPT ![p] = "dead"]
    /\ UNCHANGED <<home, killed, freeze, call>>

Kernel ==
    \/ \E p, q \in Pid : Fork(p, q)
    \/ \E p \in Pid : Stop(p) \/ Continue(p) \/ Die(p)

-----------------------------------------------------------------------------
Set(c, r) == call' = [call EXCEPT ![c] = r]

(* Kill writes cgroup.kill, and falls back to freezing when it cannot.     *)
Begin(c) ==
    /\ call[c].at = "start"
    /\ LET began == [call[c] EXCEPT !.first = Alive]
       IN  \/ /\ Op[c] = "kill"
              /\ killed' = killed \cup Alive
              /\ Set(c, [began EXCEPT !.at = "done"])
           \/ /\ Op[c] = "kill" => "kill" \in Faults
              /\ UNCHANGED killed
              /\ Set(c, [began EXCEPT !.at = "write", !.goal = Op[c] # "thaw"])
    /\ UNCHANGED <<proc, home, freeze>>

(* Where a call goes when its freeze() has returned: fallbackKill only     *)
(* logs an error of Freeze or Thaw.                                        *)
AfterFreeze(c) ==
    IF Op[c] # "kill" THEN [call[c] EXCEPT !.at = "done"]
    ELSE IF call[c].goal THEN [call[c] EXCEPT !.at = "walk", !.todo = Dir]
    ELSE IF call[c].err THEN [call[c] EXCEPT !.at = "done"]
    ELSE [call[c] EXCEPT !.at = "wait"]

WriteState(c) ==
    /\ call[c].at = "write"
    /\ IF FreezeFile
       THEN freeze' = call[c].goal /\ Set(c, [call[c] EXCEPT !.at = "read"])
       ELSE UNCHANGED freeze /\ Set(c, AfterFreeze(c))
    /\ UNCHANGED <<proc, home, killed>>

(* Slip: the state read back is compared with Frozen whatever was written. *)
ReadFrozen(c) ==
    /\ call[c].at = "read"
    /\ Set(c, IF freeze THEN AfterFreeze(c) ELSE [call[c] EXCEPT !.at = "write"])
    /\ UNCHANGED kernel

(* fetchState reads the flag back; anything else is tried again in 1 ms.   *)
ReadState(c) ==
    /\ call[c].at = "read"
    /\ Set(c, IF freeze = call[c].goal THEN AfterFreeze(c)
                                       ELSE [call[c] EXCEPT !.at = "write"])
    /\ UNCHANGED kernel

(* Slip: the walk of Procs stops at the cgroup's own directory.            *)
WalkTop(c) ==
    /\ call[c].at = "walk"
    /\ \E d \in call[c].todo :
          Set(c, [call[c] EXCEPT !.at = "signal", !.todo = {},
                                 !.left = {p \in Alive : home[p] = d}])
    /\ UNCHANGED kernel

(* Slip: the end of the walk is not noticed.                               *)
WalkOn(c) ==
    /\ call[c].at = "walk"
    /\ \E d \in call[c].todo :
          Set(c, [call[c] EXCEPT !.todo = @ \ {d},
                                 !.left = @ \cup {p \in Alive : home[p] = d}])
    /\ UNCHANGED kernel

(* Procs(true) reads cgroup.procs of one directory after the other.        *)
WalkDir(c) ==
    /\ call[c].at = "walk"
    /\ \E d \in call[c].todo :
          LET rest == call[c].todo \ {d}
          IN  Set(c, [call[c] EXCEPT
                        !.todo = rest,
                        !.left = @ \cup {p \in Alive : home[p] = d},
                        !.at = IF rest = {} THEN "signal" ELSE "walk"])
    /\ UNCHANGED kernel

(* Slip: an error of Procs is returned at once.                            *)
WalkErrReturns(c) ==
    /\ call[c].at = "walk" /\ "walk" \in Faults
    /\ Set(c, [call[c] EXCEPT !.at = "done", !.err = TRUE])
    /\ UNCHANGED kernel

WalkErr(c) ==
    /\ call[c].at = "walk" /\ "walk" \in Faults
    /\ Set(c, [call[c] EXCEPT !.at = "write", !.goal = FALSE, !.err = TRUE])
    /\ UNCHANGED kernel

(* One process is signalled; one that has died since is only logged.       *)
Signal(c) ==
    /\ call[c].at = "signal"
    /\ \E p \in call[c].left :
          /\ killed' = killed \cup ({p} \cap Alive)
          /\ Set(c, [call[c] EXCEPT !.left = @ \ {p}, !.procs = @ \cup {p}])
    /\ UNCHANGED <<proc, home, freeze>>

Signalled(c) ==
    /\ call[c].at = "signal" /\ call[c].left = {}
    /\ Set(c, [call[c] EXCEPT !.at = "write", !.goal = FALSE])
    /\ UNCHANGED kernel

(* p.Wait returns ECHILD for a process that is not a child of the caller.  *)
Wait(c) ==
    /\ call[c].at = "wait" /\ ~Subreaper
    /\ \E p \in call[c].procs :
          /\ p \in Child => proc[p] = "dead"
          /\ Set(c, [call[c] EXCEPT !.procs = @ \ {p}])
    /\ UNCHANGED kernel

Return(c) ==
    /\ call[c].at = "wait" /\ (Subreaper \/ call[c].procs = {})
    /\ Set(c, [call[c] EXCEPT !.at = "done"])
    /\ UNCHANGED kernel

Step(c) ==
    \/ Begin(c) \/ WriteState(c) \/ ReadState(c)
    \/ WalkDir(c) \/ Signal(c) \/ Signalled(c) \/ Wait(c) \/ Return(c)

Next == Kernel \/ \E c \in Caller : Step(c) \/ WalkErr(c)

Spec == Init /\ [][Next]_vars

(* Goroutines run, and a process that was killed dies.                     *)
FairSpec ==
    /\ Spec
    /\ \A c \in Caller : WF_vars(Step(c))
    /\ \A p \in Pid : WF_vars(p \in killed /\ Die(p))

-----------------------------------------------------------------------------
Killed(c) == Op[c] = "kill" /\ call[c].at = "done" /\ ~call[c].err

(* Kill reaches whoever was in the cgroup when it was called, in whatever  *)
(* descendant, and however the processes fork and exit meanwhile.          *)
KillsWhoWasThere ==
    \A c \in Caller : Killed(c) => call[c].first \cap Alive \subseteq killed

(* fallbackKill does not leave the cgroup frozen, whichever way it returns *)
(* (unless another caller freezes it).                                     *)
LeavesThawed ==
    (\A c \in Caller : call[c].at = "done" /\ Op[c] # "freeze")
    /\ (\E c \in Caller : ~call[c].goal)
       => ~freeze

(* Every call returns once no other call is in freeze(), whatever others   *)
(* have written before: it is not left to wait for a process that lives,   *)
(* nor for a state of cgroup.freeze that nobody writes.  Two calls with    *)
(* opposite goals may undo each other's writes as long as both last.       *)
CallsReturn ==
    \A c \in Caller :
        (\A d \in Caller \ {c} : <>[](call[d].at \notin {"write", "read"}))
        => <>(call[c].at = "done")
=============================================================================
