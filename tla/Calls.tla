------------------------------- MODULE Calls -------------------------------
(***************************************************************************)
(* Three components whose calls run at the same time and wait for each     *)
(* other or for the system, and that share nothing: Stat and the freezer   *)
(* of package cgroup1, and the systemd units of both packages.  A          *)
(* behaviour is one of one of them (part); the others stay as they began.  *)
(***************************************************************************)
EXTENDS Stat1

CONSTANTS Dir, Above, Pid, Object, DirOf, FreezerMenu, Moves, \* of the freezer
          UnitMenu, Losses                                    \* of the units

VARIABLES part,
          self, marked, proc, home, moves, locks, freezing, held, \* of the freezer
          unit, owner, joined, job, sig, buf, closed, missed, late, panic,
          canDelegate, call                                       \* of the units

freezerVars == <<self, marked, proc, home, moves, locks, freezing, held>>
unitVars    == <<unit, owner, joined, job, sig, buf, closed, missed, late, panic,
                 canDelegate, call>>
allVars     == <<part, vars, freezerVars, unitVars>>

(* Callers are the same for all three.                                     *)
Freezer == INSTANCE Freezer1 WITH Menu <- FreezerMenu, mu <- locks, call <- freezing
Units   == INSTANCE Systemd WITH Menu <- UnitMenu

ASSUME CallsAssumption == Freezer!FreezerAssumption /\ Units!SystemdAssumption

-----------------------------------------------------------------------------
StartAll ==
    /\ part \in {"stat", "freezer", "units"}
    /\ Init /\ Freezer!Init /\ Units!Init

InStat    == part = "stat"    /\ UNCHANGED <<part, freezerVars, unitVars>>
InFreezer == part = "freezer" /\ UNCHANGED <<part, vars, unitVars>>
InUnits   == part = "units"   /\ UNCHANGED <<part, vars, freezerVars>>

StatStep    == InStat /\ Next
FreezerStep == InFreezer /\ Freezer!Next
UnitStep    == InUnits /\ Units!Next

(* What is fair, in the part there is.  A call of Stat moves on while one  *)
(* of its goroutines can, and one for a unit while it or the goroutine of  *)
(* its connection can; no order among these is asked for.                  *)
Runs(c) ==
    \/ InStat /\ (Loop(c) \/ \E s \in Stater : Collector(c, s))
    \/ InFreezer /\ Freezer!Step(c)
    \/ InUnits /\ ~panic /\ (Units!Step(c) \/ Units!Dispatch(c))

(* A mutex is handed to who waits for it.                                  *)
Locks(c) == (InStat /\ Lock(c)) \/ (InFreezer /\ Freezer!Lock(c))

(* A process that is to stop stops; systemd works off its jobs.            *)
Stops(p) == InFreezer /\ Freezer!Stop(p)
Works    == InUnits /\ ~panic /\ Units!Jobs

NextAll == StatStep \/ FreezerStep \/ UnitStep

Fairness ==
    /\ \A c \in Caller : WF_allVars(Runs(c)) /\ SF_allVars(Locks(c))
    /\ \A p \in Pid : WF_allVars(Stops(p))
    /\ WF_allVars(Works)

SpecAll == StartAll /\ [][NextAll]_allVars /\ Fairness

-----------------------------------------------------------------------------
(* The variables keep their types, and a lock is held exactly while a call *)
(* is between taking and releasing it (cgroup.go:304, 431, 449).           *)
AllTypeOK == TypeOK /\ Freezer!TypeOK /\ Units!TypeOK

(* What Freeze of freezer.go:48 has stopped stays stopped.                 *)
StaysFrozen == Freezer!StaysFrozen

(* NewSystemd of cgroup2/manager.go:948 puts its process into its own unit.*)
OwnUnit == Units!OwnUnit

(* A signal meets the channel that startUnit closes (manager.go:1088) only *)
(* after a timeout.                                                        *)
PanicsOnlyLate == Units!PanicsOnlyLate

(* The calls return: Stat ("Stat returns the current metrics"); Freeze,    *)
(* and Thaw unless a cgroup above is frozen; NewSystemd, and the calls     *)
(* without a timeout unless their signal is lost.                          *)
AllReturn ==
    /\ part = "stat" => StatReturns
    /\ part = "freezer" => Freezer!CallsReturn
    /\ part = "units" => Units!CallsReturn
=============================================================================
