------------------------------ MODULE Freezer1 ------------------------------
(***************************************************************************)
(* Freeze and Thaw of package cgroup1: the loop of cgroup1/freezer.go that *)
(* writes freezer.state until it reads back what it wrote, run under the   *)
(* lock of a cgroup object (cgroup1/cgroup.go).  Two objects may stand for *)
(* one directory, or for a directory and one above it.                     *)
(*                                                                         *)
(* The freezer is the kernel's, and external.  Writing FROZEN makes the    *)
(* processes beneath the directory stop one by one; its state reads        *)
(* "freezing" until a read finds all of them stopped and marks it, and     *)
(* "frozen" from then on.  Writing THAWED lets those run that no other     *)
(* directory above them still freezes.                                     *)
(***************************************************************************)
EXTENDS Naturals, FiniteSets

CONSTANTS Dir,    \* directories of the freezer hierarchy
          Above,  \* [Dir -> SUBSET Dir]: a directory and those above it
          Pid,
          Object, \* cgroup objects
          DirOf,  \* [Object -> Dir]
          Caller,
          Menu,   \* the calls: [op, handle]
          Moves   \* bound: how many processes are added to another cgroup

Request == [op : {"freeze", "thaw"}, handle : Object]

FreezerAssumption ==
    /\ Above \in [Dir -> SUBSET Dir]
    /\ \A d \in Dir : d \in Above[d] /\ \A e \in Above[d] : Above[e] \subseteq Above[d]
    /\ DirOf \in [Object -> Dir]
    /\ Menu \subseteq Request /\ Menu # {}
    /\ Moves \in Nat /\ "none" \notin Caller

Unlocked == "none"

VARIABLES self,   \* the directories that FROZEN was written to
          marked, \* those whose state reads "frozen"
          proc,   \* the state of each process
          home,   \* the directory it is in
          moves,  \* processes moved so far
          mu,     \* [Object -> Caller]: who holds the lock of the object
          call,   \* [Caller -> [at, req]]
          held    \* for the properties: the directories a Freeze has returned
                  \* for, and that no Thaw has been let in to since

kernel == <<self, marked, proc, home, moves>>
vars   == <<self, marked, proc, home, moves, mu, call, held>>

(* Before and after a call: the request says nothing.                      *)
NoCall == [at |-> "done", req |-> CHOOSE r \in Menu : TRUE]

Beneath(d)  == {e \in Dir : d \in Above[e]}
Freezing(d) == Above[d] \cap self # {}
Inside(d)   == {p \in Pid : proc[p] \in {"run", "frozen"} /\ d \in Above[home[p]]}

TypeOK ==
    /\ self \subseteq Dir /\ marked \subseteq Dir
    /\ proc \in [Pid -> {"none", "run", "frozen", "dead"}]
    /\ home \in [Pid -> Dir]
    /\ moves \in 0 .. Moves
    /\ mu \in [Object -> Caller \cup {Unlocked}]
    /\ call \in [Caller -> [at : {"lock", "write", "read", "done"}, req : Request]]
    /\ held \subseteq Dir
    /\ \A h \in Object, c \in Caller :
          mu[h] = c <=> call[c].at \in {"write", "read"} /\ call[c].req.handle = h

Init ==
    /\ self = {} /\ marked = {} /\ held = {}
    /\ proc \in [Pid -> {"none", "run"}]
    /\ home \in [Pid -> Dir]
    /\ moves = 0
    /\ mu = [h \in Object |-> Unlocked]
    /\ call = [c \in Caller |-> NoCall]

-----------------------------------------------------------------------------
(* The kernel.                                                             *)
Fork(p, q) ==
    /\ proc[p] = "run" /\ proc[q] = "none"
    /\ proc' = [proc EXCEPT ![q] = "run"]
    /\ home' = [home EXCEPT ![q] = home[p]]
    /\ UNCHANGED <<self, marked, moves, mu, call, held>>

Stop(p) ==
    /\ proc[p] = "run" /\ Freezing(home[p])
    /\ proc' = [proc EXCEPT ![p] = "frozen"]
    /\ UNCHANGED <<self, marked, home, moves, mu, call, held>>

Exit(p) ==
    /\ proc[p] = "run"
    /\ proc' = [proc EXCEPT ![p] = "dead"]
    /\ UNCHANGED <<self, marked, home, moves, mu, call, held>>

(* A process that is added to a freezing cgroup has yet to stop, and one   *)
(* that is added to another runs.                                          *)
Move(p, d) ==
    /\ moves < Moves /\ proc[p] \in {"run", "frozen"} /\ d # home[p]
    /\ moves' = moves + 1
    /\ home' = [home EXCEPT ![p] = d]
    /\ proc' = [proc EXCEPT ![p] = IF Freezing(d) THEN @ ELSE "run"]
    /\ marked' = IF Freezing(d) THEN marked \ Above[d] ELSE marked
    /\ UNCHANGED <<self, mu, call, held>>

Kernel ==
    \/ \E p, q \in Pid : Fork(p, q)
    \/ \E p \in Pid : Stop(p) \/ Exit(p) \/ \E d \in Dir : Move(p, d)

WriteFrozen(d) ==
    /\ self' = self \cup {d}
    /\ UNCHANGED <<marked, proc>>

WriteThawed(d) ==
    LET still == {e \in Dir : Above[e] \cap (self \ {d}) # {}}
    IN  /\ self' = self \ {d}
        /\ marked' = marked \cap still
        /\ proc' = [p \in Pid |-> IF proc[p] = "frozen" /\ home[p] \notin still
                                  THEN "run" ELSE proc[p]]

(* What a read marks in the directory and beneath it.                      *)
Marked(d) ==
    marked \cup {e \in Beneath(d) : Freezing(e) /\ \A p \in Inside(e) : proc[p] = "frozen"}

StateOf(d) ==
    IF ~Freezing(d) THEN "thaw" ELSE IF d \in Marked(d) THEN "freeze" ELSE "freezing"

-----------------------------------------------------------------------------
Path(c) == DirOf[call[c].req.handle]

Begin(c) ==
    /\ call[c].at = "done"
    /\ \E r \in Menu : call' = [call EXCEPT ![c] = [at |-> "lock", req |-> r]]
    /\ UNCHANGED <<kernel, mu, held>>

Lock(c) ==
    LET h == call[c].req.handle
    IN  /\ call[c].at = "lock" /\ mu[h] = Unlocked
        /\ mu' = [mu EXCEPT ![h] = c]
        /\ call' = [call EXCEPT ![c].at = "write"]
        /\ held' = IF call[c].req.op = "thaw" THEN held \ {DirOf[h]} ELSE held
        /\ UNCHANGED kernel

Return(c) ==
    /\ call' = [call EXCEPT ![c] = NoCall]
    /\ mu' = [h \in Object |-> IF mu[h] = c THEN Unlocked ELSE mu[h]]

(* The object has an error, has no freezer, or freezer.state cannot be     *)
(* opened any more: the call returns the error.                            *)
Fails(c) ==
    /\ call[c].at \in {"write", "read"}
    /\ Return(c)
    /\ UNCHANGED <<kernel, held>>

(* changeState.                                                            *)
ChangeState(c) ==
    /\ call[c].at = "write"
    /\ IF call[c].req.op = "freeze" THEN WriteFrozen(Path(c)) ELSE WriteThawed(Path(c))
    /\ call' = [call EXCEPT ![c].at = "read"]
    /\ UNCHANGED <<home, moves, mu, held>>

(* Slip: a cgroup that is freezing is taken for frozen.                    *)
ReadStateEarly(c) ==
    /\ call[c].at = "read"
    /\ marked' = Marked(Path(c))
    /\ \/ /\ StateOf(Path(c)) \in {call[c].req.op, "freezing"}
          /\ Return(c)
          /\ held' = IF call[c].req.op = "freeze" THEN held \cup {Path(c)} ELSE held
       \/ /\ StateOf(Path(c)) \notin {call[c].req.op, "freezing"}
          /\ call' = [call EXCEPT ![c].at = "write"]
          /\ UNCHANGED <<mu, held>>
    /\ UNCHANGED <<self, proc, home, moves>>

(* state, and what waitState does with it: return, or sleep and repeat.    *)
ReadState(c) ==
    /\ call[c].at = "read"
    /\ marked' = Marked(Path(c))
    /\ \/ /\ StateOf(Path(c)) = call[c].req.op
          /\ Return(c)
          /\ held' = IF call[c].req.op = "freeze" THEN held \cup {Path(c)} ELSE held
       \/ /\ StateOf(Path(c)) # call[c].req.op
          /\ call' = [call EXCEPT ![c].at = "write"]
          /\ UNCHANGED <<mu, held>>
    /\ UNCHANGED <<self, proc, home, moves>>

Step(c) == ChangeState(c) \/ ReadState(c)

Next == Kernel \/ \E c \in Caller : Begin(c) \/ Lock(c) \/ Fails(c) \/ Step(c)

Spec == Init /\ [][Next]_vars

-----------------------------------------------------------------------------
(* Each directory has one object, so that its lock keeps a Thaw of the     *)
(* directory out while a Freeze of it is under way.                        *)
OneObject == \A g, h \in Object : DirOf[g] = DirOf[h] => g = h

(* Once Freeze has returned, and until Thaw is let in for that cgroup, no  *)
(* process in it runs, whatever is done to the cgroups above and beneath   *)
(* (unless processes are added to it).                                     *)
StaysFrozen ==
    moves = 0 => \A d \in held : \A p \in Inside(d) : proc[p] = "frozen"

(* A Thaw repeats as long as a cgroup above is frozen.                     *)
HeldUp ==
    \E c \in Caller :
        /\ call[c].at \in {"write", "read"} /\ call[c].req.op = "thaw"
        /\ (Above[Path(c)] \ {Path(c)}) \cap self # {}

(* Every call returns, and lets go of the lock of its object, unless Thaw  *)
(* is held up from above: Freeze and Thaw of one object do not undo each   *)
(* other's writes for ever, and a cgroup above that freezes or thaws does  *)
(* not keep a Freeze from ending.                                          *)
CallsReturn ==
    <>[]~HeldUp => \A c \in Caller : call[c].at = "lock" ~> call[c].at = "done"
=============================================================================
