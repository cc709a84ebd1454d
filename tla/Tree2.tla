-------------------------------- MODULE Tree2 --------------------------------
(***************************************************************************)
(* The cgroup2 hierarchy as managers change it (cgroup2/manager.go):       *)
(* NewManager and NewChild, ToggleControllers, SetType, AddProc,           *)
(* AddThread, MoveTo and Delete, called by any number of goroutines.  A    *)
(* Manager has no lock and no state but its path, so calls meet only in    *)
(* the kernel, and one step here is one file-system operation of a call.   *)
(*                                                                         *)
(* The rules of the hierarchy are the kernel's and external: controllers   *)
(* are enabled downwards, an inner cgroup has no processes of its own, and *)
(* threaded cgroups do not let cgroup.procs be read.  The controllers are  *)
(* domain controllers, such as memory and io, and processes have one       *)
(* thread.                                                                 *)
(***************************************************************************)
EXTENDS Naturals, Sequences, FiniteSets

CONSTANTS Dir,         \* the directories that may exist
          Path,        \* of each, the directories from the mount point to it
          Controller,
          Pid, Caller,
          Menu,        \* the calls made: [op, dir, ctrl, pid, dst]
          Denied,      \* directories a caller may not be allowed to write in
          BadValue,    \* whether writing a resource may fail
          RemoveTries  \* 5 in remove

Root == CHOOSE d \in Dir : Len(Path[d]) = 1

Above(d)  == {Path[d][i] : i \in 1 .. Len(Path[d]) - 1}
Under(d)  == {e \in Dir : e = d \/ d \in Above(e)}
Parent(d) == Path[d][Len(Path[d]) - 1]

Op == {"new", "child", "enable", "disable", "settype", "add", "thread", "move", "delete"}

ASSUME TreeAssumption ==
    /\ Path \in [Dir -> Seq(Dir)] /\ Pid # {}
    /\ \A d \in Dir : Len(Path[d]) > 0 /\ Path[d][Len(Path[d])] = d
    /\ \A d \in Dir : \A i \in 1 .. Len(Path[d]) : Path[Path[d][i]] = SubSeq(Path[d], 1, i)
    /\ \A d, e \in Dir : Path[d][1] = Path[e][1]
    /\ Menu \subseteq [op : Op, dir : Dir, ctrl : SUBSET Controller, pid : Pid, dst : Dir]
    /\ Denied \subseteq Dir /\ BadValue \in BOOLEAN
    /\ RemoveTries \in Nat \ {0}

VARIABLES exists,   \* the directories there are
          control,  \* what cgroup.subtree_control of each enables
          threaded, \* the threaded ones
          home,     \* where each process is
          proc,
          call

tree   == <<exists, control, threaded>>
kernel == <<exists, control, threaded, home, proc>>
vars   == <<exists, control, threaded, home, proc, call>>

Alive == {p \in Pid : proc[p] = "run"}

(* The locals of a call: the place in the path (i), whether the last write *)
(* failed (err), what the walk has still to visit (pend), which file it    *)
(* reads and what it found, the attempts of remove; and for the properties *)
(* the processes that were there when it began and have not moved (stay).  *)
Call == [op : Op, dir : Dir, ctrl : SUBSET Controller, pid : Pid, dst : Dir,
         at    : {"idle", "mkdir", "toggle", "set", "cleanup", "write", "type",
                  "walk", "remove", "moving", "ok", "err"},
         i     : Nat, err : BOOLEAN,
         pend  : SUBSET ({"dir", "file"} \X Dir),
         file  : {"procs", "threads"},
         found : SUBSET Pid, tries : 0 .. RemoveTries - 1,
         stay  : SUBSET Pid]

TypeOK ==
    /\ exists \subseteq Dir /\ Root \in exists
    /\ \A d \in exists : Above(d) \subseteq exists
    /\ control \in [Dir -> SUBSET Controller]
    /\ \A d \in Dir : \A a \in Above(d) : control[d] \subseteq control[a]
    /\ threaded \subseteq exists \ {Root}
    /\ home \in [Pid -> Dir] /\ proc \in [Pid -> {"none", "run", "dead"}]
    /\ \A p \in Alive : home[p] \in exists
    /\ \A d \in Dir \ exists : control[d] = {}
    /\ call \in [Caller -> Call]

-----------------------------------------------------------------------------
(* The kernel.                                                             *)
Children(d) == {e \in exists : Len(Path[e]) = Len(Path[d]) + 1 /\ d \in Above(e)}

In(d)        == {p \in Alive : home[p] = d}
Populated(d) == \E p \in Alive : home[p] \in Under(d)

Available(d) == IF d = Root THEN Controller ELSE control[Parent(d)]

ThreadRoot(d) == d \notin threaded \cup {Root} /\ Children(d) \cap threaded # {}

(* The cgroup whose resource domain d belongs to.                          *)
DomainOf(d) ==
    CHOOSE a \in (Above(d) \cup {d}) \ threaded :
        \A b \in (Above(d) \cup {d}) \ threaded : b = a \/ b \in Above(a)

ValidDomain(d) ==
    d \notin threaded /\ \A a \in Above(d) : a \notin threaded /\ ~ThreadRoot(a)

CanBeRoot(d) ==
    d = Root \/ (control[d] = {} /\ \A e \in Children(d) \ threaded : ~Populated(e))

CanEnable(d, s) ==
    s \ control[d] # {} =>
        /\ s \ control[d] \subseteq Available(d)
        /\ ValidDomain(DomainOf(d))
        /\ d # Root => d \notin threaded /\ ~ThreadRoot(d) /\ In(d) = {}

CanDisable(d, s) == \A e \in Children(d) : control[e] \cap s = {}

CanThread(d) ==
    \/ d \in threaded
    \/ /\ d # Root /\ ~Populated(d) /\ control[d] = {}
       /\ ValidDomain(DomainOf(Parent(d))) /\ CanBeRoot(DomainOf(Parent(d)))

CanHost(d) ==
    /\ d \in exists /\ ValidDomain(DomainOf(d))
    /\ d = Root \/ d \in threaded \/ control[d] = {}

(* What a tasks file lists: cgroup.procs of a thread root has the whole    *)
(* threaded domain.                                                        *)
Lists(file, d) ==
    IF file = "threads" THEN In(d) ELSE {p \in Alive : DomainOf(home[p]) = d}

Removable(d) == {e \in exists \cap Under(d) : e # Root /\ ~Populated(e)}

Rmdir(gone) ==
    /\ exists' = exists \ gone /\ threaded' = threaded \ gone
    /\ control' = [d \in Dir |-> IF d \in gone THEN {} ELSE control[d]]

Fork ==
    /\ \E p \in Alive, q \in Pid :
          /\ proc[q] = "none"
          /\ proc' = [proc EXCEPT ![q] = "run"] /\ home' = [home EXCEPT ![q] = home[p]]
    /\ UNCHANGED <<tree, call>>

Exit ==
    /\ \E p \in Alive : proc' = [proc EXCEPT ![p] = "dead"]
    /\ UNCHANGED <<tree, home, call>>

-----------------------------------------------------------------------------
Fresh(j) == [op |-> j.op, dir |-> j.dir, ctrl |-> j.ctrl, pid |-> j.pid, dst |-> j.dst,
             at |-> "idle", i |-> 1, err |-> FALSE, pend |-> {}, file |-> "procs",
             found |-> {}, tries |-> 0, stay |-> {}]

Idle == Fresh([op |-> "child", dir |-> Root, ctrl |-> {}, pid |-> CHOOSE p \in Pid : TRUE,
               dst |-> Root])

Init ==
    /\ exists \in {D \in SUBSET Dir : Root \in D /\ \A d \in D : Above(d) \subseteq D}
    /\ control \in {f \in [Dir -> SUBSET Controller] :
                        /\ \A d \in Dir \ exists : f[d] = {}
                        /\ \A d \in Dir : \A a \in Above(d) : f[d] \subseteq f[a]}
    /\ threaded = {}
    /\ proc \in [Pid -> {"none", "run"}]
    /\ home \in [Pid -> Dir]
    /\ \A p \in Pid : proc[p] = "none" => home[p] = Root
    /\ \A p \in Pid : home[p] = Root \/ (home[p] \in exists /\ control[home[p]] = {})
    /\ call = [c \in Caller |-> Idle]

Set(c, r) == call' = [call EXCEPT ![c] = r]

Resting == {"idle", "ok", "err"}

Start(op) ==
    CASE op \in {"new", "child"}               -> "mkdir"
      [] op \in {"enable", "disable"}          -> "toggle"
      [] op \in {"settype", "add", "thread"}   -> "write"
      [] op = "delete"                         -> "type"
      [] op = "move"                           -> "walk"

Begin(c) ==
    /\ call[c].at \in Resting
    /\ \E j \in Menu :
          Set(c, [Fresh(j) EXCEPT
                    !.at = Start(j.op),
                    !.pend = IF j.op = "move" THEN {<<"dir", j.dir>>} ELSE {},
                    !.stay = IF j.op \in {"move", "delete"}
                             THEN {p \in Alive : home[p] \in Under(j.dir)} ELSE {}])
    /\ UNCHANGED kernel

(* A call that returns keeps what the properties look at.                  *)
Return(c, result, r) == Set(c, [r EXCEPT !.at = result, !.pend = {}, !.found = {}])

Fails(c) == Return(c, "err", call[c]) /\ UNCHANGED kernel

(* os.MkdirAll, one directory after the other.                             *)
Mkdir(c) ==
    LET r == call[c]
        d == Path[r.dir][r.i]
        leaf == r.i = Len(Path[r.dir])
        next == [r EXCEPT !.i = IF leaf THEN 1 ELSE @ + 1,
                          !.at = IF ~leaf THEN "mkdir"
                                 ELSE IF r.op = "child" THEN "ok" ELSE "toggle"]
    IN  /\ r.at = "mkdir"
        /\ IF d \in exists \/ Parent(d) \in exists
           THEN exists' = exists \cup {d} /\ Set(c, next)
                /\ UNCHANGED <<control, threaded, home, proc>>
           ELSE Fails(c)

(* Where a call goes once the toggling is over.                            *)
AfterToggle(r, failed) ==
    [r EXCEPT !.err = failed,
              !.at = IF r.op = "new" THEN IF failed THEN "cleanup" ELSE "set"
                     ELSE IF failed THEN "err" ELSE "ok"]

Accepted(r, d) ==
    /\ d \in exists
    /\ IF r.op = "disable" THEN CanDisable(d, r.ctrl) ELSE CanEnable(d, r.ctrl)

Outcomes(r, d) == {Accepted(r, d)} \cup {FALSE : u \in Denied \cap {d}}

WriteControl(r, d, accepted) ==
    control' = IF ~accepted THEN control
               ELSE [control EXCEPT ![d] = IF r.op = "disable" THEN @ \ r.ctrl
                                                               ELSE @ \cup r.ctrl]

(* Slip: the loop ends one directory early.                                *)
ToggleShort(c) ==
    LET r == call[c]
        d == Path[r.dir][r.i]
    IN  /\ r.at = "toggle"
        /\ IF r.i + 1 >= Len(Path[r.dir])
           THEN Set(c, AfterToggle(r, r.err)) /\ UNCHANGED kernel
           ELSE \E ok \in Outcomes(r, d) :
                   /\ WriteControl(r, d, ok)
                   /\ Set(c, [r EXCEPT !.i = @ + 1, !.err = ~ok])
                   /\ UNCHANGED <<exists, threaded, home, proc>>

(* ToggleControllers writes cgroup.subtree_control of every directory      *)
(* above, from the mount point down, and reports the last error only; the  *)
(* last write decides.                                                     *)
Toggle(c) ==
    LET r == call[c]
        d == Path[r.dir][r.i]
    IN  /\ r.at = "toggle"
        /\ IF r.i = Len(Path[r.dir])
           THEN Set(c, AfterToggle(r, FALSE)) /\ UNCHANGED kernel
           ELSE \E ok \in Outcomes(r, d) :
                   /\ WriteControl(r, d, ok)
                   /\ Set(c, IF r.i + 1 = Len(Path[r.dir]) THEN AfterToggle(r, ~ok)
                             ELSE [r EXCEPT !.i = @ + 1, !.err = ~ok])
                   /\ UNCHANGED <<exists, threaded, home, proc>>

(* setResources writes the files of the enabled controllers.               *)
SetResources(c) ==
    LET r == call[c]
    IN  /\ r.at = "set"
        /\ \/ /\ r.dir \in exists /\ r.ctrl \subseteq Available(r.dir)
              /\ Return(c, "ok", r)
           \/ /\ BadValue \/ r.dir \notin exists \/ ~(r.ctrl \subseteq Available(r.dir))
              /\ Set(c, [r EXCEPT !.at = "cleanup"])
        /\ UNCHANGED kernel

(* os.Remove(path): rmdir of the cgroup alone; its error is dropped.       *)
Cleanup(c) ==
    LET d == call[c].dir
    IN  /\ call[c].at = "cleanup"
        /\ Return(c, "err", call[c])
        /\ Rmdir(IF Children(d) = {} THEN Removable(d) ELSE {})
        /\ UNCHANGED <<home, proc>>

(* A process that moves has not stayed.                                    *)
Moved(p, calls) == [b \in Caller |-> [calls[b] EXCEPT !.stay = @ \ {p}]]

(* One write: to cgroup.type, cgroup.procs or cgroup.threads.              *)
SetType(c) ==
    LET r == call[c]
    IN  /\ r.at = "write" /\ r.op = "settype"
        /\ IF r.dir \in exists /\ CanThread(r.dir)
           THEN /\ threaded' = threaded \cup {r.dir} /\ Return(c, "ok", r)
                /\ UNCHANGED <<exists, control, home, proc>>
           ELSE Fails(c)

AddProc(c) ==
    LET r == call[c]
        p == r.pid
    IN  /\ r.at = "write" /\ r.op \in {"add", "thread"}
        /\ IF /\ p \in Alive /\ CanHost(r.dir)
              /\ r.op = "thread" => DomainOf(home[p]) = DomainOf(r.dir)
           THEN /\ home' = [home EXCEPT ![p] = r.dir]
                /\ call' = Moved(p, [call EXCEPT ![c].at = "ok"])
                /\ UNCHANGED <<tree, proc>>
           ELSE Fails(c)

-----------------------------------------------------------------------------
(* Delete looks at the type first: what it is decides the file to read.    *)
ReadType(c) ==
    LET r == call[c]
    IN  /\ r.at = "type"
        /\ Set(c, [r EXCEPT !.at = "walk", !.pend = {<<"dir", r.dir>>},
                            !.file = IF r.dir \in threaded \/ ThreadRoot(r.dir)
                                     THEN "threads" ELSE "procs"])
        /\ UNCHANGED kernel

(* Slip: the walk is not recursive.                                        *)
ListDirShallow(c) ==
    /\ call[c].at = "walk"
    /\ \E d \in exists :
          /\ <<"dir", d>> \in call[c].pend
          /\ Set(c, [call[c] EXCEPT !.pend = (@ \ {<<"dir", d>>}) \cup {<<"file", d>>}])
    /\ UNCHANGED kernel

(* getTasks: filepath.Walk lists a directory, and then visits what it      *)
(* found there.                                                            *)
ListDir(c) ==
    /\ call[c].at = "walk"
    /\ \E d \in exists :
          /\ <<"dir", d>> \in call[c].pend
          /\ Set(c, [call[c] EXCEPT
                       !.pend = (@ \ {<<"dir", d>>}) \cup {<<"file", d>>}
                                \cup {<<"dir", e>> : e \in Children(d)}])
    /\ UNCHANGED kernel

(* One tasks file.                                                         *)
ReadTasks(c) ==
    /\ call[c].at = "walk"
    /\ \E d \in exists :
          /\ <<"file", d>> \in call[c].pend
          /\ call[c].file = "procs" => d \notin threaded
          /\ Set(c, [call[c] EXCEPT !.pend = @ \ {<<"file", d>>},
                                    !.found = @ \cup Lists(call[c].file, d)])
    /\ UNCHANGED kernel

(* What has vanished, or cannot be read, ends the walk with an error.      *)
WalkFails(c) ==
    /\ call[c].at = "walk"
    /\ \E k \in {"dir", "file"}, d \in Dir :
          /\ <<k, d>> \in call[c].pend
          /\ d \notin exists \/ (k = "file" /\ call[c].file = "procs" /\ d \in threaded)
    /\ Fails(c)

Walked(c) ==
    /\ call[c].at = "walk" /\ call[c].pend = {}
    /\ \/ /\ call[c].op = "move"
          /\ Set(c, [call[c] EXCEPT !.at = "moving"]) /\ UNCHANGED kernel
       \/ /\ call[c].op = "delete" /\ call[c].found = {}
          /\ Set(c, [call[c] EXCEPT !.at = "remove"]) /\ UNCHANGED kernel
       \/ /\ call[c].op = "delete" /\ call[c].found # {}
          /\ Fails(c)

(* Slip: the attempts are not counted.                                     *)
RemoveForever(c) ==
    LET r == call[c]
        gone == Removable(r.dir)
    IN  /\ r.at = "remove"
        /\ Rmdir(gone) /\ UNCHANGED <<home, proc>>
        /\ IF r.dir \notin exists \ gone THEN Return(c, "ok", r) ELSE Set(c, r)

(* Slip: one attempt too many.                                             *)
RemoveOnceMore(c) ==
    LET r == call[c]
        gone == Removable(r.dir)
    IN  /\ r.at = "remove"
        /\ Rmdir(gone) /\ UNCHANGED <<home, proc>>
        /\ IF r.dir \notin exists \ gone THEN Return(c, "ok", r)
           ELSE IF r.tries = RemoveTries
                THEN Return(c, "err", r)
                ELSE Set(c, [r EXCEPT !.tries = @ + 1])

(* remove: os.RemoveAll takes away, bottom up, what is not populated.      *)
Remove(c) ==
    LET r == call[c]
        gone == Removable(r.dir)
    IN  /\ r.at = "remove"
        /\ Rmdir(gone) /\ UNCHANGED <<home, proc>>
        /\ IF r.dir \notin exists \ gone THEN Return(c, "ok", r)
           ELSE IF r.tries + 1 = RemoveTries
                THEN Return(c, "err", r)
                ELSE Set(c, [r EXCEPT !.tries = @ + 1])

(* Slip: whatever the error, the process is passed over.                   *)
MoveOneOn(c) ==
    LET r == call[c]
    IN  /\ r.at = "moving"
        /\ \E p \in r.found :
              LET rest == [call EXCEPT ![c].found = @ \ {p}]
              IN  \/ /\ p \notin Alive \/ ~CanHost(r.dst)
                     /\ call' = rest /\ UNCHANGED kernel
                  \/ /\ p \in Alive /\ CanHost(r.dst)
                     /\ home' = [home EXCEPT ![p] = r.dst] /\ call' = Moved(p, rest)
                     /\ UNCHANGED <<tree, proc>>

(* MoveTo, the rest of it: AddProc of the destination for every process    *)
(* found; one that is gone is passed over.                                 *)
MoveOne(c) ==
    LET r == call[c]
    IN  /\ r.at = "moving"
        /\ \E p \in r.found :
              LET rest == [call EXCEPT ![c].found = @ \ {p}]
              IN  \/ /\ p \notin Alive
                     /\ call' = rest /\ UNCHANGED kernel
                  \/ /\ p \in Alive /\ CanHost(r.dst)
                     /\ home' = [home EXCEPT ![p] = r.dst] /\ call' = Moved(p, rest)
                     /\ UNCHANGED <<tree, proc>>
                  \/ /\ p \in Alive /\ ~CanHost(r.dst)
                     /\ Fails(c)

MovedAll(c) ==
    /\ call[c].at = "moving" /\ call[c].found = {}
    /\ Return(c, "ok", call[c]) /\ UNCHANGED kernel

Step(c) ==
    \/ Mkdir(c) \/ Toggle(c) \/ SetResources(c) \/ Cleanup(c) \/ SetType(c)
    \/ AddProc(c) \/ ReadType(c) \/ ListDir(c) \/ ReadTasks(c) \/ WalkFails(c)
    \/ Walked(c) \/ Remove(c) \/ MoveOne(c) \/ MovedAll(c)

Next == Fork \/ Exit \/ \E c \in Caller : Begin(c) \/ Step(c)

Spec == Init /\ [][Next]_vars

(* A goroutine runs until its call returns.                                *)
FairSpec == Spec /\ \A c \in Caller : WF_vars(Step(c))

-----------------------------------------------------------------------------
(* Enabling succeeds all the way up: when ToggleControllers has accepted   *)
(* the last write, the controllers are on in every cgroup above, although  *)
(* it forgets the errors of the earlier writes (the directories a rootless *)
(* user cannot write among them) and others disable and remove meanwhile.  *)
EnabledAllTheWay ==
    [][ \A c \in Caller :
          (/\ call[c].at = "toggle" /\ call[c].op # "disable"
           /\ call'[c].at \in {"set", "ok"})
          => \A a \in Above(call[c].dir) : call[c].ctrl \subseteq control'[a] ]_vars

(* Delete removes nothing from under a process that was in the cgroup when *)
(* it began and stayed where it was: the walk has seen it, in whatever     *)
(* descendant and whatever the types, and however the tree changes.        *)
DeleteSpares ==
    \A c \in Caller : call[c].at = "remove" => call[c].stay \cap Alive = {}

(* MoveTo that returns without an error has taken along every process that *)
(* was there when it began, unless someone else has moved it or it died.   *)
MoveTakesAll ==
    \A c \in Caller :
        call[c].op = "move" /\ call[c].at = "ok" => call[c].stay \cap Alive = {}

(* Every call returns: remove gives up on a cgroup that stays busy.        *)
CallsReturn == \A c \in Caller : (call[c].at \notin Resting) ~> (call[c].at \in Resting)
=============================================================================
