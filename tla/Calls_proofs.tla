---------------------------- MODULE Calls_proofs ----------------------------
(***************************************************************************)
(* Theorems about Calls: the invariant of Stat, for any subsystems and     *)
(* callers; of the freezer, for any hierarchy, processes and objects; of   *)
(* the systemd units, for any menu of calls; and that they hold together.  *)
(***************************************************************************)
EXTENDS Calls, FiniteSetTheorems, TLAPS

-----------------------------------------------------------------------------
(* Stat of package cgroup1.                                                *)

Gor == [at : {"none", "stat", "handle", "send", "done"}, next : 1 .. Handlers + 1]

(* A goroutine passes its error to one handler after the other, so what it *)
(* has sent comes from earlier handlers than the one it has reached.       *)
Sent ==
    \A c \in Caller, s \in Stater :
        /\ gor[c][s].at = "send" => gor[c][s].next <= Handlers
        /\ \A i \in 1 .. Handlers : <<s, i>> \in errs[c] => i < gor[c][s].next

(* The loop has started every goroutine it has passed.                     *)
Started ==
    \A c \in Caller :
        /\ at[c] = "launch" => \A s \in Stater : gor[c][s].at = "none" => s \in todo[c]
        /\ at[c] = "wait" => \A s \in Stater : gor[c][s].at # "none"
        /\ at[c] = "ok" => errs[c] = {} /\ \A s \in Stater : gor[c][s].at = "done"

StatInv == TypeOK /\ Sent /\ Started

LEMMA StatInit == Init => StatInv
<1> SUFFICES ASSUME Init PROVE StatInv
  OBVIOUS
<1>1. NotStarted \in Gor
  BY StatAssumption DEF NotStarted, Gor
<1>2. gor \in [Caller -> [Stater -> Gor]]
  BY <1>1 DEF Init
<1>3. TypeOK
  BY <1>2, StatAssumption DEF Init, TypeOK, Gor
<1>4. Sent /\ Started
  BY DEF Init, Sent, Started, NotStarted
<1> QED
  BY <1>3, <1>4 DEF StatInv

LEMMA LoopInv ==
  ASSUME StatInv, NEW c \in Caller, Lock(c) \/ Skip(c) \/ LaunchFails(c) \/ Launched(c) \/ Return(c)
  PROVE  StatInv'
<1> USE DEF StatInv
<1>1. CASE Lock(c)
  BY <1>1, StatAssumption DEF Lock, TypeOK, Sent, Started
<1>2. CASE Skip(c)
  BY <1>2 DEF Skip, TypeOK, Sent, Started
<1>3. CASE LaunchFails(c)
  BY <1>3, StatAssumption DEF LaunchFails, TypeOK, Sent, Started
<1>4. CASE Launched(c)
  BY <1>4 DEF Launched, TypeOK, Sent, Started
<1>5. CASE Return(c)
  BY <1>5, StatAssumption DEF Return, TypeOK, Sent, Started
<1> QED
  BY <1>1, <1>2, <1>3, <1>4, <1>5

(* A step of one goroutine changes its record only.                        *)
LEMMA GorAt ==
  ASSUME StatInv, NEW c \in Caller, NEW s \in Stater,
         NEW a \in {"none", "stat", "handle", "send", "done"},
         gor' = [gor EXCEPT ![c][s].at = a]
  PROVE  /\ gor' \in [Caller -> [Stater -> Gor]]
         /\ gor'[c][s].at = a /\ gor'[c][s].next = gor[c][s].next
         /\ \A d \in Caller, u \in Stater : d # c \/ u # s => gor'[d][u] = gor[d][u]
<1>1. gor \in [Caller -> [Stater -> Gor]]
  BY DEF StatInv, TypeOK, Gor
<1> DEFINE g == [gor[c][s] EXCEPT !.at = a]
<1>2. g \in Gor /\ g.at = a /\ g.next = gor[c][s].next
  BY <1>1 DEF Gor
<1>3. gor' = [gor EXCEPT ![c] = [gor[c] EXCEPT ![s] = g]]
  OBVIOUS
<1> HIDE DEF g
<1> QED
  BY <1>1, <1>2, <1>3

LEMMA LaunchInv ==
  ASSUME StatInv, NEW c \in Caller, Launch(c)
  PROVE  StatInv'
<1>1. PICK s \in todo[c] \cap Stater :
        /\ todo' = [todo EXCEPT ![c] = @ \ {s}]
        /\ gor' = [gor EXCEPT ![c][s].at = "stat"]
  BY DEF Launch
<1>2. UNCHANGED <<mu, at, errs>> /\ at[c] = "launch"
  BY DEF Launch
<1>3. /\ gor' \in [Caller -> [Stater -> Gor]]
      /\ gor'[c][s].at = "stat" /\ gor'[c][s].next = gor[c][s].next
      /\ \A d \in Caller, u \in Stater : d # c \/ u # s => gor'[d][u] = gor[d][u]
  BY <1>1, GorAt
<1>4. TypeOK'
  BY <1>1, <1>2, <1>3 DEF StatInv, TypeOK, Gor
<1>5. Sent'
  BY <1>2, <1>3 DEF StatInv, Sent
<1>6. Started'
  BY <1>1, <1>2, <1>3 DEF StatInv, TypeOK, Started
<1> QED
  BY <1>4, <1>5, <1>6 DEF StatInv

LEMMA CollectorInv ==
  ASSUME StatInv, NEW c \in Caller, NEW s \in Stater, Collector(c, s)
  PROVE  StatInv'
<1> DEFINE g == gor[c][s]
<1>0. g \in Gor
  BY DEF StatInv, TypeOK, Gor
<1>1. UNCHANGED <<mu, at, todo>> /\ g.at \in {"stat", "handle", "send"}
  BY DEF Collector, Collect, Handle, Send, Handled
<1>2. ASSUME gor' \in [Caller -> [Stater -> Gor]], gor'[c][s].at \in {"handle", "send", "done"},
             \A d \in Caller, u \in Stater : d # c \/ u # s => gor'[d][u] = gor[d][u],
             \A d \in Caller : d # c => errs'[d] = errs[d]
      PROVE  Started'
  BY <1>1, <1>2 DEF StatInv, Started
<1>3. CASE Collect(c, s) \/ Handled(c, s) \/ (Handle(c, s) /\ gor' = [gor EXCEPT ![c][s].at = "send"])
  <2>1. PICK a \in {"handle", "send", "done"} :
          /\ gor' = [gor EXCEPT ![c][s].at = a]
          /\ a = "send" => g.next <= Handlers
    BY <1>3 DEF Collect, Handle, Handled
  <2>2. UNCHANGED errs
    BY <1>3 DEF Collect, Handle, Handled
  <2>3. /\ gor' \in [Caller -> [Stater -> Gor]]
        /\ gor'[c][s].at = a /\ gor'[c][s].next = gor[c][s].next
        /\ \A d \in Caller, u \in Stater : d # c \/ u # s => gor'[d][u] = gor[d][u]
    <3>1. a \in {"none", "stat", "handle", "send", "done"}
      BY <2>1
    <3>2. gor' = [gor EXCEPT ![c][s].at = a]
      BY <2>1
    <3>3. gor \in [Caller -> [Stater -> Gor]]
      BY DEF StatInv, TypeOK, Gor
    <3> DEFINE h == [gor[c][s] EXCEPT !.at = a]
    <3>4. h \in Gor /\ h.at = a /\ h.next = g.next
      BY <3>1, <3>3 DEF Gor
    <3>5. gor' = [gor EXCEPT ![c] = [gor[c] EXCEPT ![s] = h]]
      BY <3>2
    <3> HIDE DEF h
    <3> QED
      BY <3>3, <3>4, <3>5
  <2>4. TypeOK'
    BY <1>1, <2>2, <2>3 DEF StatInv, TypeOK, Gor
  <2>5. Sent'
    BY <2>1, <2>2, <2>3 DEF StatInv, Sent
  <2>6. Started'
    BY <1>2, <2>1, <2>2, <2>3
  <2> QED
    BY <2>4, <2>5, <2>6 DEF StatInv
<1>4. CASE Handle(c, s) /\ gor' = [gor EXCEPT ![c][s].next = @ + 1]
  <2>1. /\ g.at = "handle" /\ g.next <= Handlers /\ UNCHANGED errs
    BY <1>4 DEF Handle
  <2>2. g.next + 1 \in 1 .. Handlers + 1
    BY <1>0, <2>1, StatAssumption DEF Gor
  <2>3. /\ gor' \in [Caller -> [Stater -> Gor]]
        /\ gor'[c][s].at = "handle" /\ gor'[c][s].next = g.next + 1
        /\ \A d \in Caller, u \in Stater : d # c \/ u # s => gor'[d][u] = gor[d][u]
    <3>1. gor \in [Caller -> [Stater -> Gor]]
      BY DEF StatInv, TypeOK, Gor
    <3> DEFINE h == [gor[c][s] EXCEPT !.next = gor[c][s].next + 1]
    <3>2. h \in Gor /\ h.at = "handle" /\ h.next = g.next + 1
      BY <2>1, <2>2, <3>1 DEF Gor
    <3>3. gor' = [gor EXCEPT ![c] = [gor[c] EXCEPT ![s] = h]]
      BY <1>4
    <3> HIDE DEF h
    <3> QED
      BY <3>1, <3>2, <3>3
  <2>4. TypeOK'
    BY <1>1, <2>1, <2>3 DEF StatInv, TypeOK, Gor
  <2>5. Sent'
    <3>1. g.next \in Nat /\ Handlers \in Nat
      BY <1>0, StatAssumption DEF Gor
    <3>2. \A i \in 1 .. Handlers, n \in Nat : i < n => i < n + 1
      BY <3>1
    <3> QED
      BY <2>1, <2>3, <3>1, <3>2 DEF StatInv, Sent
  <2>6. Started'
    BY <1>2, <2>1, <2>3
  <2> QED
    BY <2>4, <2>5, <2>6 DEF StatInv
<1>5. CASE Send(c, s)
  <2>1. /\ g.at = "send" /\ g.next \in 1 .. Handlers
        /\ errs' = [errs EXCEPT ![c] = @ \cup {<<s, g.next>>}]
        /\ gor' = [gor EXCEPT ![c][s] = [at |-> "handle", next |-> @.next + 1]]
    BY <1>0, <1>5, StatAssumption DEF Send, StatInv, Sent, Gor
  <2>2. [at |-> "handle", next |-> g.next + 1] \in Gor
    BY <2>1, StatAssumption DEF Gor
  <2>3. /\ gor' \in [Caller -> [Stater -> Gor]]
        /\ gor'[c][s].at = "handle" /\ gor'[c][s].next = g.next + 1
        /\ \A d \in Caller, u \in Stater : d # c \/ u # s => gor'[d][u] = gor[d][u]
    BY <2>1, <2>2 DEF StatInv, TypeOK, Gor
  <2>4. /\ errs' \in [Caller -> SUBSET (Stater \X (1 .. Handlers))]
        /\ errs'[c] = errs[c] \cup {<<s, g.next>>}
        /\ \A d \in Caller : d # c => errs'[d] = errs[d]
    BY <2>1 DEF StatInv, TypeOK
  <2>5. TypeOK'
    BY <1>1, <2>3, <2>4 DEF StatInv, TypeOK, Gor
  <2>6. Sent'
    BY <1>0, <2>1, <2>3, <2>4, StatAssumption DEF StatInv, Sent, Gor
  <2>7. Started'
    BY <1>2, <2>3, <2>4
  <2> QED
    BY <2>5, <2>6, <2>7 DEF StatInv
<1> QED
  BY <1>3, <1>4, <1>5 DEF Collector, Handle

LEMMA StatStepInv == StatInv /\ [Next]_vars => StatInv'
<1> SUFFICES ASSUME StatInv, [Next]_vars PROVE StatInv'
  OBVIOUS
<1>1. ASSUME NEW c \in Caller, Lock(c) \/ Loop(c) PROVE StatInv'
  BY <1>1, LoopInv, LaunchInv DEF Loop
<1>2. ASSUME NEW c \in Caller, NEW s \in Stater, Collector(c, s) PROVE StatInv'
  BY <1>2, CollectorInv
<1>3. CASE UNCHANGED vars
  BY <1>3 DEF vars, StatInv, TypeOK, Sent, Started
<1> QED
  BY <1>1, <1>2, <1>3 DEF Next

(* With one handler a channel as long as the list of subsystems is long    *)
(* enough: the goroutine that sends has sent nothing yet.                  *)
LEMMA RoomForAll == ASSUME Handlers = 1, StatInv PROVE NeverBlocks
<1> SUFFICES ASSUME StatInv, NEW c \in Caller, NEW s \in Stater, gor[c][s].at = "send"
             PROVE  Cardinality(errs[c]) < Cardinality(Subsystem)
  BY DEF NeverBlocks, Room
<1>1. gor[c][s].next = 1
  <2>1. gor[c][s].next \in 1 .. Handlers + 1
    BY DEF StatInv, TypeOK
  <2>2. gor[c][s].next <= Handlers
    BY DEF StatInv, Sent
  <2> QED
    BY <2>1, <2>2
<1>2. <<s, 1>> \notin errs[c]
  BY <1>1 DEF StatInv, Sent
<1> DEFINE others == Subsystem \ {s}
           room   == others \X {1}
<1>3. errs[c] \in SUBSET room
  <2>1. errs[c] \in SUBSET (Stater \X {1})
    <3>1. 1 .. Handlers = {1}
      OBVIOUS
    <3> QED
      BY <3>1 DEF StatInv, TypeOK
  <2> QED
    BY <1>2, <2>1, StatAssumption
<1>4. IsFiniteSet(others) /\ Cardinality(others) = Cardinality(Subsystem) - 1
  BY FS_RemoveElement, StatAssumption
<1>5. IsFiniteSet({1}) /\ Cardinality({1}) = 1
  BY FS_Singleton
<1>6. Cardinality(Subsystem) \in Nat /\ Cardinality(others) \in Nat
  BY <1>4, FS_CardinalityType, StatAssumption
<1> HIDE DEF others
<1>7. IsFiniteSet(room) /\ Cardinality(room) = Cardinality(others) * Cardinality({1})
  BY <1>4, <1>5, FS_Product
<1> HIDE DEF room
<1>8. IsFiniteSet(errs[c]) /\ Cardinality(errs[c]) <= Cardinality(room)
  BY <1>3, <1>7, FS_Subset
<1>9. Cardinality(errs[c]) \in Nat
  BY <1>8, FS_CardinalityType
<1> QED
  BY <1>4, <1>5, <1>6, <1>7, <1>8, <1>9

-----------------------------------------------------------------------------
(* The freezer.                                                            *)

(* A directory that is marked has stopped, and one that is held is marked  *)
(* and asked to be frozen on its own account (unless processes are added). *)
Frozen ==
    moves = 0 =>
        /\ \A d \in marked : Freezer!Freezing(d) /\ \A p \in Freezer!Inside(d) : proc[p] = "frozen"
        /\ held \subseteq self \cap marked

(* Between its write and its return a Freeze has its request in place, and *)
(* no directory is held that a Thaw is at work on.                         *)
Asked ==
    \A c \in Caller :
        /\ freezing[c].at = "read" /\ freezing[c].req.op = "freeze" => Freezer!Path(c) \in self
        /\ freezing[c].at \in {"write", "read"} /\ freezing[c].req.op = "thaw" => Freezer!Path(c) \notin held

FreezerInv == Freezer!TypeOK /\ Frozen /\ Asked

FreezerCall == [at : {"lock", "write", "read", "done"}, req : Freezer!Request]

LEMMA NoFreezerCall == ASSUME Freezer!FreezerAssumption PROVE Freezer!NoCall \in FreezerCall /\ Freezer!NoCall.at = "done"
<1>1. (CHOOSE r \in FreezerMenu : TRUE) \in FreezerMenu
  BY DEF Freezer!FreezerAssumption
<1> DEFINE m == CHOOSE r \in FreezerMenu : TRUE
<1> HIDE DEF m
<1>2. m \in Freezer!Request
  BY <1>1 DEF Freezer!FreezerAssumption, m
<1> QED
  BY <1>2 DEF Freezer!NoCall, FreezerCall, m

LEMMA Paths ==
  ASSUME Freezer!FreezerAssumption, Freezer!TypeOK, NEW c \in Caller
  PROVE  /\ freezing[c] \in FreezerCall /\ freezing[c].req.op \in {"freeze", "thaw"}
         /\ freezing[c].req.handle \in Object /\ Freezer!Path(c) \in Dir
  BY DEF Freezer!FreezerAssumption, Freezer!TypeOK, FreezerCall, Freezer!Request, Freezer!Path

(* Freezing reaches down.                                                  *)
LEMMA Reaches ==
  ASSUME Freezer!FreezerAssumption, NEW S, NEW d \in Dir, Above[d] \cap S # {},
         NEW e \in Dir, d \in Above[e]
  PROVE  Above[e] \cap S # {}
  BY DEF Freezer!FreezerAssumption

LEMMA FreezerInit == ASSUME Freezer!FreezerAssumption PROVE Freezer!Init => FreezerInv
<1> SUFFICES ASSUME Freezer!Init PROVE FreezerInv
  OBVIOUS
<1>1. \A c \in Caller : freezing[c] = Freezer!NoCall /\ Freezer!NoCall \in FreezerCall /\ Freezer!NoCall.at = "done"
  BY NoFreezerCall DEF Freezer!Init
<1>2. freezing \in [Caller -> FreezerCall]
  BY <1>1 DEF Freezer!Init
<1>3. \A h \in Object, c \in Caller : locks[h] # c
  BY DEF Freezer!Init, Freezer!Unlocked, Freezer!FreezerAssumption
<1>4. moves \in 0 .. Moves /\ locks \in [Object -> Caller \cup {Freezer!Unlocked}]
  BY DEF Freezer!Init, Freezer!FreezerAssumption
<1>5. Freezer!TypeOK
  BY <1>1, <1>2, <1>3, <1>4 DEF Freezer!Init, Freezer!TypeOK, FreezerCall
<1>6. Frozen /\ Asked
  BY <1>1 DEF Freezer!Init, Frozen, Asked
<1> QED
  BY <1>5, <1>6 DEF FreezerInv

(* What the steps of a caller do to the locks and the calls.               *)
LEMMA CallTypes ==
  ASSUME Freezer!FreezerAssumption, Freezer!TypeOK, NEW c \in Caller, NEW e \in FreezerCall,
         freezing' = [freezing EXCEPT ![c] = e],
         \/ /\ UNCHANGED locks
            /\ freezing[c].at \in {"write", "read"} <=> e.at \in {"write", "read"}
            /\ e.at \in {"write", "read"} => e.req.handle = freezing[c].req.handle
         \/ /\ locks[e.req.handle] = Freezer!Unlocked /\ locks' = [locks EXCEPT ![e.req.handle] = c]
            /\ freezing[c].at = "lock" /\ e.at = "write"
         \/ /\ locks' = [h \in Object |-> IF locks[h] = c THEN Freezer!Unlocked ELSE locks[h]]
            /\ e.at = "done"
  PROVE  /\ freezing' \in [Caller -> FreezerCall] /\ locks' \in [Object -> Caller \cup {Freezer!Unlocked}]
         /\ \A h \in Object, k \in Caller :
               locks'[h] = k <=> freezing'[k].at \in {"write", "read"} /\ freezing'[k].req.handle = h
<1>1. /\ freezing \in [Caller -> FreezerCall] /\ locks \in [Object -> Caller \cup {Freezer!Unlocked}]
      /\ \A h \in Object, k \in Caller :
            locks[h] = k <=> freezing[k].at \in {"write", "read"} /\ freezing[k].req.handle = h
  BY DEF Freezer!TypeOK, FreezerCall
<1>2. freezing' \in [Caller -> FreezerCall] /\ freezing'[c] = e /\ \A k \in Caller \ {c} : freezing'[k] = freezing[k]
  BY <1>1
<1>3. Freezer!Unlocked \notin Caller /\ e.req.handle \in Object
  BY DEF Freezer!FreezerAssumption, Freezer!Unlocked, FreezerCall, Freezer!Request
<1>4. CASE /\ UNCHANGED locks
           /\ freezing[c].at \in {"write", "read"} <=> e.at \in {"write", "read"}
           /\ e.at \in {"write", "read"} => e.req.handle = freezing[c].req.handle
  BY <1>1, <1>2, <1>4
<1>5. CASE /\ locks[e.req.handle] = Freezer!Unlocked /\ locks' = [locks EXCEPT ![e.req.handle] = c]
           /\ freezing[c].at = "lock" /\ e.at = "write"
  BY <1>1, <1>2, <1>3, <1>5
<1>6. CASE /\ locks' = [h \in Object |-> IF locks[h] = c THEN Freezer!Unlocked ELSE locks[h]]
           /\ e.at = "done"
  BY <1>1, <1>2, <1>3, <1>6
<1> QED
  BY <1>4, <1>5, <1>6

LEMMA FreezerTypes ==
  ASSUME Freezer!FreezerAssumption
  PROVE  Freezer!TypeOK /\ [Freezer!Next]_(Freezer!vars) => Freezer!TypeOK'
<1> SUFFICES ASSUME Freezer!TypeOK, [Freezer!Next]_(Freezer!vars) PROVE Freezer!TypeOK'
  OBVIOUS
<1>1. /\ proc \in [Pid -> {"none", "run", "frozen", "dead"}] /\ home \in [Pid -> Dir]
      /\ moves \in Nat /\ moves \in 0 .. Moves /\ Moves \in Nat
      /\ self \subseteq Dir /\ marked \subseteq Dir /\ held \subseteq Dir
      /\ freezing \in [Caller -> FreezerCall]
  BY DEF Freezer!TypeOK, Freezer!FreezerAssumption, FreezerCall
<1>2. CASE Freezer!Kernel
  <2>1. UNCHANGED <<self, locks, freezing, held>>
    BY <1>2 DEF Freezer!Kernel, Freezer!Fork, Freezer!Stop, Freezer!Exit, Freezer!Move
  <2>2. ASSUME NEW p \in Pid, NEW q \in Pid, Freezer!Fork(p, q) PROVE Freezer!TypeOK'
    BY <1>1, <2>1, <2>2 DEF Freezer!Fork, Freezer!TypeOK
  <2>3. ASSUME NEW p \in Pid, Freezer!Stop(p) \/ Freezer!Exit(p) PROVE Freezer!TypeOK'
    BY <1>1, <2>1, <2>3 DEF Freezer!Stop, Freezer!Exit, Freezer!TypeOK
  <2>4. ASSUME NEW p \in Pid, NEW d \in Dir, Freezer!Move(p, d) PROVE Freezer!TypeOK'
    <3>1. /\ moves + 1 \in 0 .. Moves /\ moves' = moves + 1
          /\ home' = [home EXCEPT ![p] = d] /\ marked' \subseteq marked
          /\ proc' = [proc EXCEPT ![p] = IF Freezer!Freezing(d) THEN @ ELSE "run"]
      BY <1>1, <2>4 DEF Freezer!Move
    <3> QED
      BY <1>1, <2>1, <3>1 DEF Freezer!TypeOK
  <2> QED
    BY <1>2, <2>2, <2>3, <2>4 DEF Freezer!Kernel
<1>3. ASSUME NEW c \in Caller, Freezer!Begin(c) \/ Freezer!Lock(c) \/ Freezer!Fails(c) \/ Freezer!ChangeState(c) \/ Freezer!ReadState(c)
      PROVE  Freezer!TypeOK'
  <2>1. freezing[c] \in FreezerCall /\ Freezer!Path(c) \in Dir /\ DirOf[freezing[c].req.handle] = Freezer!Path(c)
    BY Paths DEF Freezer!Path
  <2>2. /\ self' \subseteq Dir /\ marked' \subseteq Dir /\ held' \subseteq Dir
        /\ proc' \in [Pid -> {"none", "run", "frozen", "dead"}]
        /\ UNCHANGED <<home, moves>>
    <3>1. CASE Freezer!Begin(c) \/ Freezer!Lock(c) \/ Freezer!Fails(c)
      BY <1>1, <3>1 DEF Freezer!Begin, Freezer!Lock, Freezer!Fails, Freezer!kernel
    <3>2. CASE Freezer!ChangeState(c)
      BY <1>1, <2>1, <3>2 DEF Freezer!ChangeState, Freezer!WriteFrozen, Freezer!WriteThawed
    <3>3. CASE Freezer!ReadState(c)
      BY <1>1, <2>1, <3>3 DEF Freezer!ReadState, Freezer!Marked, Freezer!Beneath
    <3> QED
      BY <1>3, <3>1, <3>2, <3>3
  <2>3. ASSUME NEW e \in FreezerCall, freezing' = [freezing EXCEPT ![c] = e],
               \/ /\ UNCHANGED locks
                  /\ freezing[c].at \in {"write", "read"} <=> e.at \in {"write", "read"}
                  /\ e.at \in {"write", "read"} => e.req.handle = freezing[c].req.handle
               \/ /\ locks[e.req.handle] = Freezer!Unlocked /\ locks' = [locks EXCEPT ![e.req.handle] = c]
                  /\ freezing[c].at = "lock" /\ e.at = "write"
               \/ /\ locks' = [h \in Object |-> IF locks[h] = c THEN Freezer!Unlocked ELSE locks[h]]
                  /\ e.at = "done"
        PROVE  Freezer!TypeOK'
    <3>1. /\ freezing' \in [Caller -> FreezerCall] /\ locks' \in [Object -> Caller \cup {Freezer!Unlocked}]
          /\ \A h \in Object, k \in Caller :
                locks'[h] = k <=> freezing'[k].at \in {"write", "read"} /\ freezing'[k].req.handle = h
      BY <2>3, CallTypes
    <3> QED
      BY <1>1, <2>2, <3>1 DEF Freezer!TypeOK, FreezerCall
  <2>4. CASE Freezer!Begin(c)
    <3>1. PICK r \in FreezerMenu : freezing' = [freezing EXCEPT ![c] = [at |-> "lock", req |-> r]]
      BY <2>4 DEF Freezer!Begin
    <3>2. [at |-> "lock", req |-> r] \in FreezerCall
      BY DEF Freezer!FreezerAssumption, FreezerCall
    <3> QED
      BY <2>3, <2>4, <3>1, <3>2 DEF Freezer!Begin
  <2>5. CASE Freezer!Lock(c)
    <3> DEFINE e == [freezing[c] EXCEPT !.at = "write"]
    <3>1. e \in FreezerCall /\ e.at = "write" /\ e.req = freezing[c].req /\ freezing' = [freezing EXCEPT ![c] = e]
      BY <1>1, <2>1, <2>5 DEF FreezerCall, Freezer!Lock
    <3> HIDE DEF e
    <3> QED
      BY <2>3, <2>5, <3>1 DEF Freezer!Lock
  <2>6. CASE \/ Freezer!Fails(c) \/ (Freezer!ReadState(c) /\ Freezer!Return(c))
    BY <2>3, <2>6, NoFreezerCall DEF Freezer!Fails, Freezer!Return
  <2>7. CASE \/ Freezer!ChangeState(c) \/ (Freezer!ReadState(c) /\ ~Freezer!Return(c))
    <3>1. PICK a \in {"write", "read"} : freezing' = [freezing EXCEPT ![c].at = a] /\ UNCHANGED locks
      BY <2>7 DEF Freezer!ChangeState, Freezer!ReadState
    <3> DEFINE e == [freezing[c] EXCEPT !.at = a]
    <3>2. e \in FreezerCall /\ e.at = a /\ e.req = freezing[c].req /\ freezing' = [freezing EXCEPT ![c] = e]
          /\ freezing[c].at \in {"write", "read"}
      BY <1>1, <2>1, <2>7, <3>1 DEF FreezerCall, Freezer!ChangeState, Freezer!ReadState
    <3> HIDE DEF e
    <3> QED
      BY <2>3, <3>1, <3>2
  <2> QED
    BY <1>3, <2>4, <2>5, <2>6, <2>7
<1>4. CASE UNCHANGED Freezer!vars
  BY <1>4 DEF Freezer!vars, Freezer!kernel, Freezer!TypeOK
<1> QED
  BY <1>2, <1>3, <1>4 DEF Freezer!Next, Freezer!Step

-----------------------------------------------------------------------------
LEMMA KernelSteps ==
  ASSUME Freezer!FreezerAssumption, FreezerInv, Freezer!Kernel
  PROVE  Frozen' /\ Asked'
<1>1. /\ proc \in [Pid -> {"none", "run", "frozen", "dead"}] /\ home \in [Pid -> Dir]
      /\ moves \in Nat /\ moves \in 0 .. Moves /\ Moves \in Nat /\ Freezer!TypeOK
      /\ marked \subseteq Dir
  BY DEF FreezerInv, Freezer!TypeOK, Freezer!FreezerAssumption
<1>2. UNCHANGED <<self, locks, freezing, held>>
  BY DEF Freezer!Kernel, Freezer!Fork, Freezer!Stop, Freezer!Exit, Freezer!Move
<1>3. Asked'
  BY <1>2 DEF FreezerInv, Asked, Freezer!Path
<1>4. ASSUME NEW p \in Pid, NEW q \in Pid, Freezer!Fork(p, q) PROVE Frozen'
  <2>1. /\ proc' = [proc EXCEPT ![q] = "run"] /\ home' = [home EXCEPT ![q] = home[p]]
        /\ UNCHANGED <<marked, moves>> /\ proc[p] = "run" /\ proc[q] = "none"
    BY <1>4 DEF Freezer!Fork
  <2>2. ASSUME moves = 0, NEW d \in marked, NEW r \in Pid, r \in Freezer!Inside(d)'
        PROVE  proc'[r] = "frozen"
    <3>1. \A x \in Freezer!Inside(d) : proc[x] = "frozen"
      BY <2>2 DEF FreezerInv, Frozen
    <3>2. p \notin Freezer!Inside(d)
      BY <2>1, <3>1
    <3>3. d \notin Above[home[p]]
      BY <2>1, <3>2 DEF Freezer!Inside
    <3>4. r # q
      BY <1>1, <2>1, <2>2, <3>3 DEF Freezer!Inside
    <3> QED
      BY <1>1, <2>1, <2>2, <3>1, <3>4 DEF Freezer!Inside
  <2>3. \A d : Freezer!Inside(d)' \subseteq Pid
    BY DEF Freezer!Inside
  <2> QED
    BY <1>2, <2>1, <2>2, <2>3 DEF FreezerInv, Frozen, Freezer!Freezing
<1>5. ASSUME NEW p \in Pid, Freezer!Stop(p) \/ Freezer!Exit(p) PROVE Frozen'
  <2>1. /\ proc' = [proc EXCEPT ![p] = "frozen"] \/ proc' = [proc EXCEPT ![p] = "dead"]
        /\ UNCHANGED <<marked, home, moves>> /\ proc[p] = "run"
    BY <1>5 DEF Freezer!Stop, Freezer!Exit
  <2>2. ASSUME moves = 0, NEW d \in marked, NEW r \in Pid, r \in Freezer!Inside(d)'
        PROVE  proc'[r] = "frozen"
    <3>1. \A x \in Freezer!Inside(d) : proc[x] = "frozen"
      BY <2>2 DEF FreezerInv, Frozen
    <3> QED
      BY <1>1, <2>1, <2>2, <3>1 DEF Freezer!Inside
  <2>3. \A d : Freezer!Inside(d)' \subseteq Pid
    BY DEF Freezer!Inside
  <2> QED
    BY <1>2, <2>1, <2>2, <2>3 DEF FreezerInv, Frozen, Freezer!Freezing
<1>6. ASSUME NEW p \in Pid, NEW d \in Dir, Freezer!Move(p, d) PROVE Frozen'
  <2>1. /\ moves < Moves /\ moves' = moves + 1 /\ home' = [home EXCEPT ![p] = d]
        /\ proc' = [proc EXCEPT ![p] = IF Freezer!Freezing(d) THEN @ ELSE "run"]
        /\ marked' \subseteq marked
    BY <1>6 DEF Freezer!Move
  <2>2. moves' \in 0 .. Moves /\ moves' # 0
    BY <1>1, <2>1
  <2> QED
    BY <2>2 DEF Frozen
<1> QED
  BY <1>3, <1>4, <1>5, <1>6 DEF Freezer!Kernel

(* The callers.                                                            *)
LEMMA CallerSteps ==
  ASSUME Freezer!FreezerAssumption, Freezer!OneObject, FreezerInv, NEW c \in Caller,
         Freezer!Begin(c) \/ Freezer!Lock(c) \/ Freezer!Fails(c)
  PROVE  Frozen' /\ Asked'
<1>1. /\ Freezer!TypeOK /\ freezing[c] \in FreezerCall /\ freezing[c].req.handle \in Object /\ Freezer!Path(c) \in Dir
      /\ freezing \in [Caller -> FreezerCall]
  BY Paths DEF FreezerInv, Freezer!TypeOK, FreezerCall
<1>2. UNCHANGED Freezer!kernel
  BY DEF Freezer!Begin, Freezer!Lock, Freezer!Fails
<1>3. PICK e \in FreezerCall :
         /\ freezing' = [freezing EXCEPT ![c] = e]
         /\ \/ held' = held /\ e.at \notin {"write", "read"}
            \/ /\ e.at = "write" /\ e.req = freezing[c].req
               /\ held' = IF freezing[c].req.op = "thaw" THEN held \ {Freezer!Path(c)} ELSE held
  <2>1. CASE Freezer!Begin(c)
    <3>1. PICK r \in FreezerMenu : freezing' = [freezing EXCEPT ![c] = [at |-> "lock", req |-> r]]
      BY <2>1 DEF Freezer!Begin
    <3>2. [at |-> "lock", req |-> r] \in FreezerCall
      BY DEF Freezer!FreezerAssumption, FreezerCall
    <3> QED
      BY <2>1, <3>1, <3>2 DEF Freezer!Begin
  <2>2. CASE Freezer!Lock(c)
    <3> DEFINE e == [freezing[c] EXCEPT !.at = "write"]
    <3>1. e \in FreezerCall /\ e.at = "write" /\ e.req = freezing[c].req /\ freezing' = [freezing EXCEPT ![c] = e]
      BY <1>1, <2>2 DEF FreezerCall, Freezer!Lock
    <3> HIDE DEF e
    <3> QED
      BY <2>2, <3>1 DEF Freezer!Lock, Freezer!Path
  <2>3. CASE Freezer!Fails(c)
    BY <2>3, NoFreezerCall DEF Freezer!Fails, Freezer!Return
  <2> QED
    BY <2>1, <2>2, <2>3
<1>4. held' \subseteq held
  BY <1>3
<1>5. Frozen'
  BY <1>2, <1>4 DEF FreezerInv, Frozen, Freezer!Inside, Freezer!Freezing, Freezer!kernel
<1>6. freezing'[c] = e /\ \A k \in Caller \ {c} : freezing'[k] = freezing[k]
  BY <1>1, <1>3
<1>7. Asked'
  BY <1>2, <1>3, <1>4, <1>6 DEF FreezerInv, Asked, Freezer!Path, Freezer!kernel
<1> QED
  BY <1>5, <1>7

(* The lock keeps the calls of one directory apart.                        *)
LEMMA Apart ==
  ASSUME Freezer!FreezerAssumption, Freezer!OneObject, Freezer!TypeOK, NEW c \in Caller, NEW k \in Caller,
         freezing[c].at \in {"write", "read"}, freezing[k].at \in {"write", "read"},
         Freezer!Path(c) = Freezer!Path(k)
  PROVE  c = k
<1>1. freezing[c].req.handle \in Object /\ freezing[k].req.handle \in Object
  BY Paths
<1>2. freezing[c].req.handle = freezing[k].req.handle
  BY <1>1 DEF Freezer!OneObject, Freezer!Path
<1> QED
  BY <1>1, <1>2 DEF Freezer!TypeOK

LEMMA ChangeSteps ==
  ASSUME Freezer!FreezerAssumption, Freezer!OneObject, FreezerInv, NEW c \in Caller, Freezer!ChangeState(c)
  PROVE  Frozen' /\ Asked'
<1> DEFINE d == Freezer!Path(c)
           e == [freezing[c] EXCEPT !.at = "read"]
<1>1. /\ Freezer!TypeOK /\ freezing[c] \in FreezerCall /\ d \in Dir /\ freezing \in [Caller -> FreezerCall]
      /\ freezing[c].req.op \in {"freeze", "thaw"} /\ freezing[c].at = "write"
      /\ self \subseteq Dir /\ marked \subseteq Dir /\ home \in [Pid -> Dir]
      /\ proc \in [Pid -> {"none", "run", "frozen", "dead"}]
  BY Paths DEF FreezerInv, Freezer!TypeOK, FreezerCall, Freezer!ChangeState
<1>2. /\ e \in FreezerCall /\ e.at = "read" /\ e.req = freezing[c].req /\ freezing' = [freezing EXCEPT ![c] = e]
      /\ UNCHANGED <<home, moves, locks, held>>
  BY <1>1 DEF FreezerCall, Freezer!ChangeState
<1>3. freezing'[c] = e /\ \A k \in Caller \ {c} : freezing'[k] = freezing[k]
  BY <1>1, <1>2
<1>4. \A k \in Caller : Freezer!Path(k)' = Freezer!Path(k) /\ freezing'[k].req = freezing[k].req
  <2>1. \A k \in Caller : freezing'[k].req = freezing[k].req
    BY <1>2, <1>3
  <2> QED
    BY <2>1 DEF Freezer!Path
<1> HIDE DEF e
<1>5. CASE freezing[c].req.op = "freeze"
  <2>1. self' = self \cup {d} /\ UNCHANGED <<marked, proc>>
    BY <1>5 DEF Freezer!ChangeState, Freezer!WriteFrozen
  <2>2. \A x \in Dir : Freezer!Freezing(x) => Freezer!Freezing(x)'
    BY <2>1 DEF Freezer!Freezing
  <2>3. \A x : Freezer!Inside(x)' = Freezer!Inside(x)
    BY <1>2, <2>1 DEF Freezer!Inside
  <2>4. Frozen'
    BY <1>1, <1>2, <2>1, <2>2, <2>3 DEF FreezerInv, Frozen
  <2>5. Asked'
    BY <1>1, <1>2, <1>3, <1>4, <1>5, <2>1 DEF FreezerInv, Asked
  <2> QED
    BY <2>4, <2>5
<1>6. CASE freezing[c].req.op = "thaw"
  <2> DEFINE still == {x \in Dir : Above[x] \cap (self \ {d}) # {}}
  <2>1. /\ self' = self \ {d} /\ marked' = marked \cap still
        /\ proc' = [p \in Pid |-> IF proc[p] = "frozen" /\ home[p] \notin still
                                  THEN "run" ELSE proc[p]]
    BY <1>6 DEF Freezer!ChangeState, Freezer!WriteThawed
  <2>2. d \notin held
    BY <1>1, <1>6 DEF FreezerInv, Asked
  <2>3. ASSUME moves = 0, NEW x \in marked'
        PROVE  Freezer!Freezing(x)' /\ \A p \in Freezer!Inside(x)' : proc'[p] = "frozen"
    <3>1. x \in marked /\ x \in still /\ x \in Dir
      BY <1>1, <2>1, <2>3
    <3>2. Freezer!Freezing(x)'
      BY <2>1, <3>1 DEF Freezer!Freezing
    <3>3. ASSUME NEW p \in Freezer!Inside(x)' PROVE proc'[p] = "frozen"
      <4>1. /\ p \in Pid /\ proc'[p] \in {"run", "frozen"} /\ home[p] \in Dir
            /\ x \in Above[home[p]]
        BY <1>1, <1>2, <3>3 DEF Freezer!Inside
      <4>2. proc[p] \in {"run", "frozen"}
        BY <1>1, <2>1, <4>1
      <4>3. proc[p] = "frozen"
        BY <2>3, <3>1, <4>1, <4>2 DEF FreezerInv, Frozen, Freezer!Inside
      <4>4. home[p] \in still
        BY <3>1, <4>1, Reaches
      <4> QED
        BY <2>1, <4>1, <4>3, <4>4
    <3> QED
      BY <3>2, <3>3
  <2>4. ASSUME moves = 0, NEW x \in held PROVE x \in self' /\ x \in marked'
    <3>1. x \in self /\ x \in marked /\ x # d /\ x \in Dir
      BY <1>1, <2>2, <2>4 DEF FreezerInv, Frozen
    <3>2. x \in still
      BY <3>1 DEF Freezer!FreezerAssumption
    <3> QED
      BY <2>1, <3>1, <3>2
  <2>5. Frozen'
    BY <1>2, <2>3, <2>4 DEF Frozen
  <2>6. ASSUME NEW k \in Caller, freezing'[k].at = "read", freezing'[k].req.op = "freeze"
        PROVE  Freezer!Path(k)' \in self'
    <3>1. k # c /\ freezing[k].at = "read" /\ freezing[k].req.op = "freeze"
      BY <1>3, <1>4, <1>6, <2>6
    <3>2. Freezer!Path(k) \in self /\ Freezer!Path(k) # d
      BY <1>1, <3>1, Apart DEF FreezerInv, Asked
    <3> QED
      BY <1>4, <2>1, <3>2
  <2>7. ASSUME NEW k \in Caller, freezing'[k].at \in {"write", "read"}, freezing'[k].req.op = "thaw"
        PROVE  Freezer!Path(k)' \notin held'
    BY <1>1, <1>2, <1>3, <1>4, <2>7 DEF FreezerInv, Asked
  <2>8. Asked'
    BY <2>6, <2>7 DEF Asked
  <2> QED
    BY <2>5, <2>8
<1> QED
  BY <1>1, <1>5, <1>6

LEMMA ReadSteps ==
  ASSUME Freezer!FreezerAssumption, Freezer!OneObject, FreezerInv, NEW c \in Caller, Freezer!ReadState(c)
  PROVE  Frozen' /\ Asked'
<1> DEFINE d == Freezer!Path(c)
<1>1. /\ Freezer!TypeOK /\ freezing[c] \in FreezerCall /\ d \in Dir /\ freezing \in [Caller -> FreezerCall]
      /\ freezing[c].req.op \in {"freeze", "thaw"} /\ freezing[c].at = "read"
      /\ marked \subseteq Dir /\ held \subseteq Dir
  BY Paths DEF FreezerInv, Freezer!TypeOK, FreezerCall, Freezer!ReadState
<1>2. marked' = Freezer!Marked(d) /\ UNCHANGED <<self, proc, home, moves>>
  BY DEF Freezer!ReadState
<1>3. Freezer!Marked(d) \subseteq Dir
  BY <1>1 DEF Freezer!Marked, Freezer!Beneath
<1>4. \A x : Freezer!Freezing(x)' = Freezer!Freezing(x) /\ Freezer!Inside(x)' = Freezer!Inside(x)
  BY <1>2 DEF Freezer!Freezing, Freezer!Inside
<1>5. ASSUME moves = 0, NEW x \in Freezer!Marked(d)
      PROVE  Freezer!Freezing(x) /\ \A p \in Freezer!Inside(x) : proc[p] = "frozen"
  BY <1>5 DEF Freezer!Marked, FreezerInv, Frozen
<1>6. CASE Freezer!StateOf(d) = freezing[c].req.op
  <2>1. /\ freezing' = [freezing EXCEPT ![c] = Freezer!NoCall] /\ Freezer!NoCall \in FreezerCall /\ Freezer!NoCall.at = "done"
        /\ locks' = [h \in Object |-> IF locks[h] = c THEN Freezer!Unlocked ELSE locks[h]]
        /\ held' = IF freezing[c].req.op = "freeze" THEN held \cup {d} ELSE held
    BY <1>6, NoFreezerCall DEF Freezer!ReadState, Freezer!Return
  <2>2. /\ freezing'[c] = Freezer!NoCall
        /\ \A k \in Caller \ {c} : freezing'[k] = freezing[k] /\ Freezer!Path(k)' = Freezer!Path(k)
    <3>1. freezing'[c] = Freezer!NoCall /\ \A k \in Caller \ {c} : freezing'[k] = freezing[k]
      BY <1>1, <2>1
    <3> QED
      BY <3>1 DEF Freezer!Path
  <2>3. freezing[c].req.op = "freeze" => d \in self /\ d \in Freezer!Marked(d)
    BY <1>1, <1>6 DEF Freezer!StateOf, FreezerInv, Asked
  <2>4. Frozen'
    <3>1. moves = 0 => held' \subseteq self \cap Freezer!Marked(d)
      BY <2>1, <2>3 DEF FreezerInv, Frozen, Freezer!Marked
    <3> QED
      BY <1>2, <1>4, <1>5, <3>1 DEF Frozen
  <2>5. ASSUME NEW k \in Caller, freezing'[k].at = "read", freezing'[k].req.op = "freeze"
        PROVE  Freezer!Path(k)' \in self'
    BY <1>2, <2>1, <2>2, <2>5 DEF FreezerInv, Asked
  <2>6. ASSUME NEW k \in Caller, freezing'[k].at \in {"write", "read"}, freezing'[k].req.op = "thaw"
        PROVE  Freezer!Path(k)' \notin held'
    <3>1. k # c /\ freezing[k].at \in {"write", "read"} /\ freezing[k].req.op = "thaw"
          /\ Freezer!Path(k)' = Freezer!Path(k)
      BY <2>1, <2>2, <2>6
    <3>2. Freezer!Path(k) \notin held /\ Freezer!Path(k) # d
      BY <1>1, <3>1, Apart DEF FreezerInv, Asked
    <3> QED
      BY <2>1, <3>1, <3>2
  <2> QED
    BY <2>4, <2>5, <2>6 DEF Asked
<1>7. CASE Freezer!StateOf(d) # freezing[c].req.op
  <2> DEFINE e == [freezing[c] EXCEPT !.at = "write"]
  <2>1. /\ e \in FreezerCall /\ e.at = "write" /\ e.req = freezing[c].req
        /\ freezing' = [freezing EXCEPT ![c] = e] /\ UNCHANGED <<locks, held>>
    BY <1>1, <1>7 DEF FreezerCall, Freezer!ReadState
  <2> HIDE DEF e
  <2>2. freezing'[c] = e /\ \A k \in Caller \ {c} : freezing'[k] = freezing[k]
    BY <1>1, <2>1
  <2>3. \A k \in Caller : Freezer!Path(k)' = Freezer!Path(k)
    BY <2>1, <2>2 DEF Freezer!Path
  <2>4. Frozen'
    <3>1. moves = 0 => held \subseteq self \cap Freezer!Marked(d)
      BY DEF FreezerInv, Frozen, Freezer!Marked
    <3> QED
      BY <1>2, <1>4, <1>5, <2>1, <3>1 DEF Frozen
  <2>5. Asked'
    BY <1>1, <1>2, <2>1, <2>2, <2>3 DEF FreezerInv, Asked
  <2> QED
    BY <2>4, <2>5
<1> QED
  BY <1>6, <1>7

LEMMA FreezerStepInv ==
  ASSUME Freezer!FreezerAssumption, Freezer!OneObject
  PROVE  FreezerInv /\ [Freezer!Next]_(Freezer!vars) => FreezerInv'
<1> SUFFICES ASSUME FreezerInv, [Freezer!Next]_(Freezer!vars) PROVE FreezerInv'
  OBVIOUS
<1>1. CASE UNCHANGED Freezer!vars
  <2>1. UNCHANGED <<self, marked, proc, home, moves, locks, freezing, held>>
    BY <1>1 DEF Freezer!vars, Freezer!kernel
  <2> QED
    BY <2>1 DEF FreezerInv, Freezer!TypeOK, Frozen, Asked, Freezer!Freezing, Freezer!Inside, Freezer!Path
<1>2. Freezer!TypeOK'
  BY FreezerTypes DEF FreezerInv
<1> QED
  BY <1>1, <1>2, KernelSteps, CallerSteps, ChangeSteps, ReadSteps DEF Freezer!Next, Freezer!Step, FreezerInv

-----------------------------------------------------------------------------
(* The systemd units.                                                      *)

UnitCall == [at : Units!Place, req : Units!Request, retry : BOOLEAN, res : {"none", "nil", "err"}]

Registered == {"none", "start", "stop"}
Signal     == Units!Result \cup {"none"}

(* A start job is the one of the unit that is starting, and of the call    *)
(* that has loaded it; a stop job is of a call that stops the unit.        *)
Linked(c) ==
    /\ job[c] = "start" => unit = "starting" /\ c \in owner
    /\ job[c] = "stop" => call[c].req.op \in {"delete", "delete1"}

(* A call is told once: there is its job, or the signal, or what was       *)
(* received of it; and nothing of these before the job is asked for.       *)
Once(c) ==
    /\ job[c] # "none" => sig[c] = "none" /\ buf[c] = "none"
    /\ sig[c] # "none" => buf[c] = "none"
    /\ call[c].at \in {"idle", "check", "start", "reset"}
         => job[c] = "none" /\ sig[c] = "none" /\ buf[c] = "none"
    /\ call[c].at = "idle" => call[c].res = "none"

(* The start that a call is told of, or returns for, was of its own unit.  *)
Told(c) ==
    /\ call[c].req.op = "new" /\ call[c].req.pid
    /\ sig[c] = "done" \/ buf[c] = "done" \/ call[c].res = "nil"
    => c \in joined

(* A call that no longer receives has been told, or has given up.          *)
Ended(c) ==
    /\ c \in closed => call[c].at = "close"
    /\ c \in closed \/ (call[c].req.op = "new" /\ call[c].at = "clear")
         => c \in late \/ (job[c] = "none" /\ sig[c] = "none")

Good(c) == Linked(c) /\ Once(c) /\ Told(c) /\ Ended(c)

UnitsInv == Units!TypeOK /\ Units!PanicsOnlyLate /\ \A c \in Caller : Good(c)

(* The types, one variable at a time.                                      *)
Types ==
    /\ unit \in {"absent", "starting", "active", "stopping", "failed"}
    /\ owner \in {{}} \cup {{c} : c \in Caller}
    /\ joined \subseteq Caller /\ closed \subseteq Caller
    /\ missed \subseteq Caller /\ late \subseteq Caller
    /\ job \in [Caller -> Registered]
    /\ sig \in [Caller -> Signal]
    /\ buf \in [Caller -> Signal]
    /\ panic \in BOOLEAN
    /\ canDelegate \in {"unasked", "yes", "no"}
    /\ call \in [Caller -> UnitCall]

LEMMA TypesSuffice == (Types /\ \A c \in Caller : Good(c)) => Units!TypeOK
  BY DEF Types, Units!TypeOK, Good, Once, UnitCall, Registered, Signal

LEMMA TypesSufficeNext == (Types' /\ \A c \in Caller : Good(c)') => Units!TypeOK'
  BY DEF Types, Units!TypeOK, Good, Once, UnitCall, Registered, Signal

LEMMA TypesHold == Units!TypeOK => Types
  BY DEF Types, Units!TypeOK, UnitCall, Registered, Signal

-----------------------------------------------------------------------------
(* What a step does to the record of its call.                             *)
LEMMA GoesRecord ==
  ASSUME call \in [Caller -> UnitCall], NEW c \in Caller, NEW place \in Units!Place, Units!Goes(c, place)
  PROVE  /\ call' \in [Caller -> UnitCall]
         /\ call'[c].at = place /\ call'[c].req = call[c].req /\ call'[c].res = call[c].res
         /\ \A d \in Caller : d # c => call'[d] = call[d]
  BY DEF Units!Goes, UnitCall

LEMMA EndsRecord ==
  ASSUME call \in [Caller -> UnitCall], NEW c \in Caller, NEW res \in {"nil", "err"},
         Units!Ends(c, res)
  PROVE  /\ call' \in [Caller -> UnitCall]
         /\ call'[c].at = "close" /\ call'[c].req = call[c].req /\ call'[c].res = res
         /\ \A d \in Caller : d # c => call'[d] = call[d]
         /\ closed' = IF call[c].req.op = "new" THEN closed \cup {c} ELSE closed
  BY DEF Units!Ends, UnitCall, Units!Place

LEMMA NoCallRecord ==
  ASSUME Units!SystemdAssumption
  PROVE  Units!NoCall \in UnitCall /\ Units!NoCall.at = "idle" /\ Units!NoCall.res = "none"
<1>1. (CHOOSE r \in UnitMenu : TRUE) \in Units!Request
  <2>1. UnitMenu # {} /\ UnitMenu \subseteq Units!Request
    BY DEF Units!SystemdAssumption
  <2>2. (CHOOSE r \in UnitMenu : TRUE) \in UnitMenu
    BY <2>1
  <2> QED
    BY <2>1, <2>2
<1> QED
  BY <1>1 DEF Units!NoCall, UnitCall, Units!Place

(* A call that ends in a place where it waits for nothing, without a unit  *)
(* of its own, or because it need not have one.                            *)
LEMMA EndsGood ==
  ASSUME UnitsInv, NEW c \in Caller, NEW res \in {"nil", "err"}, Units!Ends(c, res),
         UNCHANGED <<Units!daemon, Units!library, late, canDelegate>>,
         call[c].at \in {"check", "start"},
         res = "nil" => ~(call[c].req.op = "new" /\ call[c].req.pid)
  PROVE  Types' /\ \A d \in Caller : Good(d)'
<1>1. Types
  BY TypesHold DEF UnitsInv
<1>2. /\ call' \in [Caller -> UnitCall]
      /\ call'[c].at = "close" /\ call'[c].req = call[c].req /\ call'[c].res = res
      /\ \A d \in Caller : d # c => call'[d] = call[d]
      /\ closed' = IF call[c].req.op = "new" THEN closed \cup {c} ELSE closed
  BY <1>1, EndsRecord DEF Types
<1>3. Types'
  BY <1>1, <1>2 DEF Types, Units!daemon, Units!library
<1>4. ASSUME NEW d \in Caller PROVE Good(d)'
  <2>1. Good(d) /\ Good(c)
    BY DEF UnitsInv
  <2>2. CASE d = c
    BY <1>2, <2>1, <2>2 DEF Good, Linked, Once, Told, Ended, Units!daemon, Units!library
  <2>3. CASE d # c
    BY <1>2, <2>1, <2>3 DEF Good, Linked, Once, Told, Ended, Units!daemon, Units!library
  <2> QED
    BY <2>2, <2>3
<1> QED
  BY <1>3, <1>4

(* The unit is loaded for a call, which then waits.                        *)
LEMMA LoadsGood ==
  ASSUME UnitsInv, NEW c \in Caller, Units!Loads(c), Units!Goes(c, "wait"), UNCHANGED closed,
         call[c].at = "start"
  PROVE  Types' /\ \A d \in Caller : Good(d)'
<1>1. Types
  BY TypesHold DEF UnitsInv
<1>2. /\ call' \in [Caller -> UnitCall]
      /\ call'[c].at = "wait" /\ call'[c].req = call[c].req /\ call'[c].res = call[c].res
      /\ \A d \in Caller : d # c => call'[d] = call[d]
  BY <1>1, GoesRecord DEF Types, Units!Place
<1>3. /\ job' \in [Caller -> Registered] /\ job'[c] = "start"
      /\ \A d \in Caller : d # c => job'[d] = job[d]
  BY <1>1 DEF Types, Units!Loads, Registered
<1>4. Types'
  BY <1>1, <1>2, <1>3 DEF Types, Units!Loads
<1>5. ASSUME NEW d \in Caller PROVE Good(d)'
  <2>1. Good(d) /\ Good(c) /\ unit = "absent"
    BY DEF UnitsInv, Units!Loads
  <2>2. CASE d = c
    BY <1>2, <1>3, <2>1, <2>2 DEF Good, Linked, Once, Told, Ended, Units!Loads
  <2>3. CASE d # c
    BY <1>2, <1>3, <2>1, <2>3 DEF Good, Linked, Once, Told, Ended, Units!Loads
  <2> QED
    BY <2>2, <2>3
<1> QED
  BY <1>4, <1>5

(* systemd announces the end of a job to whoever waits for it.             *)
LEMMA AnnounceMaps ==
  ASSUME Types, NEW kind \in {"start", "stop"}, NEW result \in Units!Result, Units!Announce(kind, result)
  PROVE  /\ job' \in [Caller -> Registered] /\ sig' \in [Caller -> Signal]
         /\ \A d \in Caller :
              /\ job[d] = kind => job'[d] = "none" /\ sig'[d] = result
              /\ job[d] # kind => job'[d] = job[d] /\ sig'[d] = sig[d]
  BY DEF Types, Units!Announce, Registered, Signal

-----------------------------------------------------------------------------
(* systemd and the connections.                                            *)
LEMMA StartDoneGood ==
  ASSUME UnitsInv, Units!StartDone
  PROVE  Types' /\ \A d \in Caller : Good(d)'
<1>1. Types
  BY TypesHold DEF UnitsInv
<1>2. /\ job' \in [Caller -> Registered] /\ sig' \in [Caller -> Signal]
      /\ \A d \in Caller :
           /\ job[d] = "start" => job'[d] = "none" /\ sig'[d] = "done"
           /\ job[d] # "start" => job'[d] = job[d] /\ sig'[d] = sig[d]
  BY <1>1, AnnounceMaps DEF Units!StartDone, Units!Result
<1>3. Types'
  BY <1>1, <1>2 DEF Types, Units!StartDone
<1>4. ASSUME NEW d \in Caller PROVE Good(d)'
  <2>1. Good(d)
    BY DEF UnitsInv
  <2>2. CASE job[d] = "start"
    BY <1>2, <2>1, <2>2 DEF Good, Linked, Once, Told, Ended, Units!StartDone
  <2>3. CASE job[d] # "start"
    BY <1>2, <2>1, <2>3 DEF Good, Linked, Once, Told, Ended, Units!StartDone
  <2> QED
    BY <2>2, <2>3
<1> QED
  BY <1>3, <1>4

LEMMA StartFailsGood ==
  ASSUME UnitsInv, Units!StartFails
  PROVE  Types' /\ \A d \in Caller : Good(d)'
<1>1. Types
  BY TypesHold DEF UnitsInv
<1>2. /\ job' \in [Caller -> Registered] /\ sig' \in [Caller -> Signal]
      /\ \A d \in Caller :
           /\ job[d] = "start" => job'[d] = "none" /\ sig'[d] = "failed"
           /\ job[d] # "start" => job'[d] = job[d] /\ sig'[d] = sig[d]
  BY <1>1, AnnounceMaps DEF Units!StartFails, Units!Result
<1>3. Types'
  BY <1>1, <1>2 DEF Types, Units!StartFails
<1>4. ASSUME NEW d \in Caller PROVE Good(d)'
  <2>1. Good(d)
    BY DEF UnitsInv
  <2> QED
    BY <1>2, <2>1 DEF Good, Linked, Once, Told, Ended, Units!StartFails
<1> QED
  BY <1>3, <1>4

LEMMA StopEndsGood ==
  ASSUME UnitsInv, Units!StopEnds
  PROVE  Types' /\ \A d \in Caller : Good(d)'
<1>1. Types
  BY TypesHold DEF UnitsInv
<1>2. PICK result \in Units!Result :
        /\ Units!Announce("stop", result)
        /\ unit' \in {"absent", "failed"} /\ owner' \in {{}, owner}
  BY DEF Units!StopEnds, Units!Result
<1>3. /\ job' \in [Caller -> Registered] /\ sig' \in [Caller -> Signal]
      /\ \A d \in Caller :
           /\ job[d] = "stop" => job'[d] = "none" /\ sig'[d] = result
           /\ job[d] # "stop" => job'[d] = job[d] /\ sig'[d] = sig[d]
  BY <1>1, <1>2, AnnounceMaps
<1>4. Types'
  BY <1>1, <1>2, <1>3 DEF Types, Units!StopEnds
<1>5. ASSUME NEW d \in Caller PROVE Good(d)'
  <2>1. Good(d)
    BY DEF UnitsInv
  <2> QED
    BY <1>2, <1>3, <2>1 DEF Good, Linked, Once, Told, Ended, Units!StopEnds
<1> QED
  BY <1>4, <1>5

LEMMA ExitGood ==
  ASSUME UnitsInv, Units!Exit
  PROVE  Types' /\ \A d \in Caller : Good(d)'
<1>1. Types
  BY TypesHold DEF UnitsInv
<1>2. Types'
  BY <1>1 DEF Types, Units!Exit, Units!library
<1>3. ASSUME NEW d \in Caller PROVE Good(d)'
  <2>1. Good(d)
    BY DEF UnitsInv
  <2> QED
    BY <2>1 DEF Good, Linked, Once, Told, Ended, Units!Exit, Units!library
<1> QED
  BY <1>2, <1>3

LEMMA LoseGood ==
  ASSUME UnitsInv, NEW c \in Caller, Units!Lose(c)
  PROVE  Types' /\ \A d \in Caller : Good(d)'
<1>1. Types
  BY TypesHold DEF UnitsInv
<1>2. Types'
  BY <1>1 DEF Types, Units!Lose, Units!daemon, Signal
<1>3. ASSUME NEW d \in Caller PROVE Good(d)'
  <2>1. Good(d)
    BY DEF UnitsInv
  <2>2. sig'[d] = IF d = c THEN "none" ELSE sig[d]
    BY <1>1 DEF Types, Units!Lose
  <2> QED
    BY <2>1, <2>2 DEF Good, Linked, Once, Told, Ended, Units!Lose, Units!daemon
<1> QED
  BY <1>2, <1>3

(* A signal that meets a closed channel is of a call that has given up.    *)
LEMMA DispatchGood ==
  ASSUME UnitsInv, NEW c \in Caller, Units!Dispatch(c)
  PROVE  Types' /\ Units!PanicsOnlyLate' /\ \A d \in Caller : Good(d)'
<1>1. Types /\ Good(c)
  BY TypesHold DEF UnitsInv
<1>2. Types'
  BY <1>1 DEF Types, Units!Dispatch, Units!daemon, Signal
<1>3. Units!PanicsOnlyLate'
  <2>1. CASE c \in closed
    <3>1. c \in late
      BY <1>1, <2>1 DEF Good, Once, Ended, Units!Dispatch
    <3> QED
      BY <2>1, <3>1 DEF Units!PanicsOnlyLate, Units!Dispatch
  <2>2. CASE c \notin closed
    BY <2>2 DEF UnitsInv, Units!PanicsOnlyLate, Units!Dispatch
  <2> QED
    BY <2>1, <2>2
<1>4. ASSUME NEW d \in Caller PROVE Good(d)'
  <2>1. Good(d)
    BY DEF UnitsInv
  <2>2. /\ sig'[d] = IF d = c THEN "none" ELSE sig[d]
        /\ buf'[d] = IF d = c /\ c \notin closed THEN sig[c] ELSE buf[d]
    BY <1>1 DEF Types, Units!Dispatch
  <2>3. CASE d = c
    BY <1>1, <2>1, <2>2, <2>3 DEF Good, Linked, Once, Told, Ended, Units!Dispatch, Units!daemon
  <2>4. CASE d # c
    BY <2>1, <2>2, <2>4 DEF Good, Linked, Once, Told, Ended, Units!Dispatch, Units!daemon
  <2> QED
    BY <2>3, <2>4
<1> QED
  BY <1>2, <1>3, <1>4

-----------------------------------------------------------------------------
(* The calls.                                                              *)
LEMMA BeginGood ==
  ASSUME Units!SystemdAssumption, UnitsInv, NEW c \in Caller, Units!Begin(c)
  PROVE  Types' /\ \A d \in Caller : Good(d)'
<1>1. Types
  BY TypesHold DEF UnitsInv
<1>2. PICK r \in UnitMenu :
        call' = [call EXCEPT ![c].at = IF r.op = "create1" THEN "check" ELSE "start",
                             ![c].req = r]
  BY DEF Units!Begin
<1>3. /\ call' \in [Caller -> UnitCall]
      /\ call'[c].at \in {"check", "start"} /\ call'[c].res = call[c].res
      /\ \A d \in Caller : d # c => call'[d] = call[d]
  <2> DEFINE a == IF r.op = "create1" THEN "check" ELSE "start"
             m == [call[c] EXCEPT !.at = a, !.req = r]
  <2>1. call \in [Caller -> UnitCall] /\ call[c] \in UnitCall
    BY <1>1 DEF Types
  <2>2. r \in Units!Request /\ a \in Units!Place /\ a \in {"check", "start"}
    BY DEF Units!SystemdAssumption, Units!Place
  <2> DEFINE R == Units!Request
             P == Units!Place
  <2> HIDE DEF a, R, P
  <2>3. m \in UnitCall /\ m.at = a /\ m.res = call[c].res
    BY <2>1, <2>2 DEF UnitCall
  <2>4. call' = [call EXCEPT ![c] = m]
    BY <1>2 DEF a
  <2> HIDE DEF m
  <2> QED
    BY <2>1, <2>2, <2>3, <2>4
<1>4. Types'
  BY <1>1, <1>3 DEF Types, Units!Begin, Units!daemon, Units!library
<1>5. ASSUME NEW d \in Caller PROVE Good(d)'
  <2>1. Good(d) /\ Good(c)
    BY DEF UnitsInv
  <2>2. CASE d = c
    BY <1>3, <2>1, <2>2 DEF Good, Linked, Once, Told, Ended, Units!Begin, Units!daemon, Units!library
  <2>3. CASE d # c
    BY <1>3, <2>1, <2>3 DEF Good, Linked, Once, Told, Ended, Units!Begin, Units!daemon, Units!library
  <2> QED
    BY <2>2, <2>3
<1> QED
  BY <1>4, <1>5

(* A call moves between two places where it has asked for no job.          *)
LEMMA MovesGood ==
  ASSUME UnitsInv, NEW c \in Caller, NEW place \in {"start", "reset"},
         call[c].at \in {"check", "start", "reset"},
         call' \in [Caller -> UnitCall],
         call'[c].at = place, call'[c].req = call[c].req, call'[c].res = call[c].res,
         \A d \in Caller : d # c => call'[d] = call[d],
         UNCHANGED <<Units!daemon, Units!library, late, closed>>,
         canDelegate' \in {"unasked", "yes", "no"}
  PROVE  Types' /\ \A d \in Caller : Good(d)'
<1>1. Types
  BY TypesHold DEF UnitsInv
<1>2. Types'
  BY <1>1 DEF Types, Units!daemon, Units!library
<1>3. ASSUME NEW d \in Caller PROVE Good(d)'
  <2>1. Good(d) /\ Good(c)
    BY DEF UnitsInv
  <2>2. CASE d = c
    BY <2>1, <2>2 DEF Good, Linked, Once, Told, Ended, Units!daemon, Units!library
  <2>3. CASE d # c
    BY <2>1, <2>3 DEF Good, Linked, Once, Told, Ended, Units!daemon, Units!library
  <2> QED
    BY <2>2, <2>3
<1> QED
  BY <1>2, <1>3

LEMMA CheckDelegateGood ==
  ASSUME UnitsInv, NEW c \in Caller, Units!CheckDelegate(c)
  PROVE  Types' /\ \A d \in Caller : Good(d)'
<1>1. Types
  BY TypesHold DEF UnitsInv
<1>2. /\ call' \in [Caller -> UnitCall]
      /\ call'[c].at = "start" /\ call'[c].req = call[c].req /\ call'[c].res = call[c].res
      /\ \A d \in Caller : d # c => call'[d] = call[d]
  BY <1>1, GoesRecord DEF Types, Units!Place, Units!CheckDelegate
<1>3. canDelegate' \in {"unasked", "yes", "no"}
  BY <1>1 DEF Types, Units!CheckDelegate
<1> QED
  BY <1>2, <1>3, MovesGood DEF Units!CheckDelegate

(* startUnit loads the unit, or ends for one that exists, or resets it.    *)
LEMMA StartUnitGood ==
  ASSUME UnitsInv, NEW c \in Caller, Units!StartUnit(c)
  PROVE  Types' /\ \A d \in Caller : Good(d)'
<1>1. Types
  BY TypesHold DEF UnitsInv
<1>2. CASE Units!Loads(c) /\ Units!Goes(c, "wait") /\ UNCHANGED closed
  BY <1>2, LoadsGood DEF Units!StartUnit
<1>3. CASE /\ UNCHANGED <<Units!daemon, Units!library, late, canDelegate>>
           /\ ~call[c].req.pid /\ Units!Ends(c, "nil")
  BY <1>3, EndsGood DEF Units!StartUnit
<1>4. CASE /\ UNCHANGED <<Units!daemon, Units!library, late, canDelegate>>
           /\ call' = [call EXCEPT ![c].at = "reset", ![c].retry = FALSE]
           /\ UNCHANGED closed
  <2>1. /\ call' \in [Caller -> UnitCall]
        /\ call'[c].at = "reset" /\ call'[c].req = call[c].req /\ call'[c].res = call[c].res
        /\ \A d \in Caller : d # c => call'[d] = call[d]
    BY <1>1, <1>4 DEF Types, UnitCall, Units!Place
  <2>2. canDelegate' \in {"unasked", "yes", "no"}
    BY <1>1, <1>4 DEF Types
  <2> QED
    BY <1>4, <2>1, <2>2, MovesGood DEF Units!StartUnit
<1>5. CASE /\ UNCHANGED <<Units!daemon, Units!library, late, canDelegate>>
           /\ Units!Ends(c, "err")
  BY <1>5, EndsGood DEF Units!StartUnit
<1> QED
  BY <1>2, <1>3, <1>4, <1>5 DEF Units!StartUnit

LEMMA CreateGood ==
  ASSUME UnitsInv, NEW c \in Caller, Units!Create(c)
  PROVE  Types' /\ \A d \in Caller : Good(d)'
<1>1. CASE Units!Loads(c) /\ Units!Goes(c, "wait") /\ UNCHANGED closed
  BY <1>1, LoadsGood DEF Units!Create
<1>2. CASE Units!Ends(c, "err") /\ UNCHANGED <<Units!daemon, Units!library, late, canDelegate>>
  BY <1>2, EndsGood DEF Units!Create
<1> QED
  BY <1>1, <1>2 DEF Units!Create

LEMMA RefusedGood ==
  ASSUME UnitsInv, NEW c \in Caller, Units!Refused(c)
  PROVE  Types' /\ \A d \in Caller : Good(d)'
  BY EndsGood DEF Units!Refused

(* Of the unit only a failed one is forgotten, which nobody waits for.     *)
LEMMA ResetFailedGood ==
  ASSUME UnitsInv, NEW c \in Caller, Units!ResetFailed(c)
  PROVE  Types' /\ \A d \in Caller : Good(d)'
<1>1. Types /\ Good(c)
  BY TypesHold DEF UnitsInv
<1>2. /\ call' \in [Caller -> UnitCall]
      /\ call'[c].req = call[c].req
      /\ \A d \in Caller : d # c => call'[d] = call[d]
      /\ \/ /\ call[c].at = "reset" /\ call'[c].at = "start" /\ call'[c].res = call[c].res
            /\ closed' = closed
         \/ /\ call[c].at = "clear" /\ call'[c].at = "close" /\ call'[c].res = "err"
            /\ closed' = IF call[c].req.op = "new" THEN closed \cup {c} ELSE closed
  BY <1>1, GoesRecord, EndsRecord DEF Types, Units!Place, Units!ResetFailed
<1>3. /\ joined' = joined
      /\ \/ unit' = unit /\ owner' = owner
         \/ unit = "failed" /\ unit' = "absent" /\ owner' = {}
  BY DEF Units!ResetFailed, Units!daemon
<1>4. UNCHANGED <<Units!library, late, canDelegate>>
  BY DEF Units!ResetFailed
<1>5. Types'
  BY <1>1, <1>2, <1>3, <1>4 DEF Types, Units!library
<1>6. ASSUME NEW d \in Caller PROVE Good(d)'
  <2>1. Good(d)
    BY DEF UnitsInv
  <2>2. CASE d = c
    BY <1>1, <1>2, <1>3, <1>4, <2>2 DEF Good, Linked, Once, Told, Ended, Units!library
  <2>3. CASE d # c
    BY <1>2, <1>3, <1>4, <2>1, <2>3 DEF Good, Linked, Once, Told, Ended, Units!library
  <2> QED
    BY <2>2, <2>3
<1> QED
  BY <1>5, <1>6

(* Stopping cancels the start of another call, which is then told that it  *)
(* has failed.                                                             *)
LEMMA StopUnitGood ==
  ASSUME UnitsInv, NEW c \in Caller, Units!StopUnit(c)
  PROVE  Types' /\ \A d \in Caller : Good(d)'
<1>1. Types /\ Good(c) /\ call[c].at = "start"
  BY TypesHold DEF UnitsInv, Units!StopUnit
<1>2. CASE Units!Ends(c, "err") /\ UNCHANGED <<Units!daemon, Units!library, late, canDelegate>>
  BY <1>2, EndsGood DEF Units!StopUnit
<1>3. CASE /\ sig' = [sig EXCEPT ![c] = "done"] /\ Units!Goes(c, "wait")
           /\ UNCHANGED <<Units!daemon, job, buf, missed, panic, closed, late, canDelegate>>
  <2>1. /\ call' \in [Caller -> UnitCall]
        /\ call'[c].at = "wait" /\ call'[c].req = call[c].req /\ call'[c].res = call[c].res
        /\ \A d \in Caller : d # c => call'[d] = call[d]
    BY <1>1, <1>3, GoesRecord DEF Types, Units!Place
  <2>2. /\ sig' \in [Caller -> Signal] /\ sig'[c] = "done"
        /\ \A d \in Caller : d # c => sig'[d] = sig[d]
    BY <1>1, <1>3 DEF Types, Signal, Units!Result
  <2>3. Types'
    BY <1>1, <1>3, <2>1, <2>2 DEF Types, Units!daemon
  <2>4. ASSUME NEW d \in Caller PROVE Good(d)'
    <3>1. Good(d)
      BY DEF UnitsInv
    <3>2. CASE d = c
      BY <1>1, <1>3, <2>1, <2>2, <3>2
      DEF Good, Linked, Once, Told, Ended, Units!StopUnit, Units!daemon
    <3>3. CASE d # c
      BY <1>3, <2>1, <2>2, <3>1, <3>3 DEF Good, Linked, Once, Told, Ended, Units!daemon
    <3> QED
      BY <3>2, <3>3
  <2> QED
    BY <2>3, <2>4
<1>4. CASE /\ unit' = "stopping"
           /\ sig' = [d \in Caller |-> IF job[d] = "start" THEN "failed" ELSE sig[d]]
           /\ job' = [[d \in Caller |-> IF job[d] = "start" THEN "none" ELSE job[d]]
                        EXCEPT ![c] = "stop"]
           /\ Units!Goes(c, "wait")
           /\ UNCHANGED <<owner, joined, buf, missed, panic, closed, late, canDelegate>>
  <2>1. /\ call' \in [Caller -> UnitCall]
        /\ call'[c].at = "wait" /\ call'[c].req = call[c].req /\ call'[c].res = call[c].res
        /\ \A d \in Caller : d # c => call'[d] = call[d]
    BY <1>1, <1>4, GoesRecord DEF Types, Units!Place
  <2>2. /\ sig' \in [Caller -> Signal]
        /\ \A d \in Caller : sig'[d] = IF job[d] = "start" THEN "failed" ELSE sig[d]
    BY <1>1, <1>4 DEF Types, Signal, Units!Result
  <2>3. /\ job' \in [Caller -> Registered]
        /\ \A d \in Caller :
             job'[d] = IF d = c THEN "stop" ELSE IF job[d] = "start" THEN "none" ELSE job[d]
    BY <1>1, <1>4 DEF Types, Registered
  <2>4. Types'
    BY <1>1, <1>4, <2>1, <2>2, <2>3 DEF Types
  <2>5. ASSUME NEW d \in Caller PROVE Good(d)'
    <3>1. Good(d)
      BY DEF UnitsInv
    <3>2. CASE d = c
      BY <1>1, <1>4, <2>1, <2>2, <2>3, <3>2
      DEF Good, Linked, Once, Told, Ended, Units!StopUnit
    <3>3. CASE d # c
      BY <1>4, <2>1, <2>2, <2>3, <3>1, <3>3 DEF Good, Linked, Once, Told, Ended
    <3> QED
      BY <3>2, <3>3
  <2> QED
    BY <2>4, <2>5
<1> QED
  BY <1>2, <1>3, <1>4 DEF Units!StopUnit

(* What a call of NewSystemd returns nil for is a done of its own start.   *)
LEMMA ReceiveGood ==
  ASSUME UnitsInv, NEW c \in Caller, Units!Receive(c)
  PROVE  Types' /\ \A d \in Caller : Good(d)'
<1>1. Types /\ Good(c) /\ call[c].at = "wait" /\ buf[c] # "none"
  BY TypesHold DEF UnitsInv, Units!Receive
<1>2. /\ call' \in [Caller -> UnitCall]
      /\ call'[c].req = call[c].req
      /\ \A d \in Caller : d # c => call'[d] = call[d]
      /\ \/ /\ call'[c].at = "clear" /\ call'[c].res = call[c].res /\ closed' = closed
            /\ call[c].req.op = "new" /\ buf[c] # "done"
         \/ /\ call'[c].at = "close" /\ call'[c].res = "nil"
            /\ closed' = IF call[c].req.op = "new" THEN closed \cup {c} ELSE closed
            /\ call[c].req.op = "new" => buf[c] = "done"
  BY <1>1, GoesRecord, EndsRecord DEF Types, Units!Place, Units!Receive
<1>3. /\ buf' \in [Caller -> Signal] /\ buf'[c] = "none"
      /\ \A d \in Caller : d # c => buf'[d] = buf[d]
  BY <1>1 DEF Types, Signal, Units!Receive
<1>4. UNCHANGED <<Units!daemon, job, sig, missed, panic, late, canDelegate>>
  BY DEF Units!Receive
<1>5. Types'
  BY <1>1, <1>2, <1>3, <1>4 DEF Types, Units!daemon
<1>6. ASSUME NEW d \in Caller PROVE Good(d)'
  <2>1. Good(d)
    BY DEF UnitsInv
  <2>2. CASE d = c
    BY <1>1, <1>2, <1>3, <1>4, <2>2 DEF Good, Linked, Once, Told, Ended, Units!daemon
  <2>3. CASE d # c
    BY <1>2, <1>3, <1>4, <2>1, <2>3 DEF Good, Linked, Once, Told, Ended, Units!daemon
  <2> QED
    BY <2>2, <2>3
<1> QED
  BY <1>5, <1>6

LEMMA TimeoutGood ==
  ASSUME UnitsInv, NEW c \in Caller, Units!Timeout(c)
  PROVE  Types' /\ \A d \in Caller : Good(d)'
<1>1. Types /\ Good(c)
  BY TypesHold DEF UnitsInv
<1>2. /\ call' \in [Caller -> UnitCall]
      /\ call'[c].at = "clear" /\ call'[c].req = call[c].req /\ call'[c].res = call[c].res
      /\ \A d \in Caller : d # c => call'[d] = call[d]
  BY <1>1, GoesRecord DEF Types, Units!Place, Units!Timeout
<1>3. late' = late \cup {c} /\ UNCHANGED <<Units!daemon, Units!library, closed, canDelegate>>
  BY DEF Units!Timeout
<1>4. Types'
  BY <1>1, <1>2, <1>3 DEF Types, Units!daemon, Units!library
<1>5. ASSUME NEW d \in Caller PROVE Good(d)'
  <2>1. Good(d)
    BY DEF UnitsInv
  <2>2. CASE d = c
    BY <1>1, <1>2, <1>3, <2>2 DEF Good, Linked, Once, Told, Ended, Units!Timeout, Units!daemon, Units!library
  <2>3. CASE d # c
    BY <1>2, <1>3, <2>1, <2>3 DEF Good, Linked, Once, Told, Ended, Units!daemon, Units!library
  <2> QED
    BY <2>2, <2>3
<1> QED
  BY <1>4, <1>5

LEMMA CloseConnGood ==
  ASSUME Units!SystemdAssumption, UnitsInv, NEW c \in Caller, Units!CloseConn(c)
  PROVE  Types' /\ \A d \in Caller : Good(d)'
<1>1. Types
  BY TypesHold DEF UnitsInv
<1>2. /\ call' \in [Caller -> UnitCall]
      /\ call'[c].at = "idle" /\ call'[c].res = "none"
      /\ \A d \in Caller : d # c => call'[d] = call[d]
  BY <1>1, NoCallRecord DEF Types, Units!CloseConn
<1>3. /\ job' \in [Caller -> Registered] /\ sig' \in [Caller -> Signal]
      /\ buf' \in [Caller -> Signal]
      /\ job'[c] = "none" /\ sig'[c] = "none" /\ buf'[c] = "none"
      /\ \A d \in Caller : d # c => job'[d] = job[d] /\ sig'[d] = sig[d] /\ buf'[d] = buf[d]
  BY <1>1 DEF Types, Units!CloseConn, Registered, Signal
<1>4. owner' \in {{}} \cup {{d} : d \in Caller}
  BY <1>1 DEF Types, Units!CloseConn
<1>5. Types'
  BY <1>1, <1>2, <1>3, <1>4 DEF Types, Units!CloseConn
<1>6. ASSUME NEW d \in Caller PROVE Good(d)'
  <2>1. Good(d)
    BY DEF UnitsInv
  <2>2. CASE d = c
    BY <1>2, <1>3, <2>2 DEF Good, Linked, Once, Told, Ended, Units!CloseConn
  <2>3. CASE d # c
    BY <1>2, <1>3, <2>1, <2>3 DEF Good, Linked, Once, Told, Ended, Units!CloseConn
  <2> QED
    BY <2>2, <2>3
<1> QED
  BY <1>5, <1>6

-----------------------------------------------------------------------------
LEMMA UnitsInit ==
  ASSUME Units!SystemdAssumption, Units!Init
  PROVE  UnitsInv
<1>1. Types
  BY NoCallRecord DEF Units!Init, Types, Registered, Signal
<1>2. ASSUME NEW c \in Caller PROVE Good(c)
  BY NoCallRecord DEF Units!Init, Good, Linked, Once, Told, Ended
<1>3. Units!PanicsOnlyLate
  BY DEF Units!Init, Units!PanicsOnlyLate
<1> QED
  BY <1>1, <1>2, <1>3, TypesSuffice DEF UnitsInv

(* Only the goroutine of a connection can panic, and nothing comes after.  *)
LEMMA NoPanic ==
  ASSUME ~panic, UNCHANGED panic
  PROVE  Units!PanicsOnlyLate'
  BY DEF Units!PanicsOnlyLate

LEMMA UnitsStepInv ==
  ASSUME Units!SystemdAssumption, UnitsInv, [Units!Next]_(Units!vars)
  PROVE  UnitsInv'
<1>1. CASE UNCHANGED Units!vars
  BY <1>1
  DEF Units!vars, Units!daemon, Units!library, UnitsInv, Units!TypeOK, Units!PanicsOnlyLate, Good, Linked, Once, Told, Ended
<1>2. CASE Units!Next
  <2>1. ~panic
    BY <1>2 DEF Units!Next
  <2> SUFFICES Types' /\ Units!PanicsOnlyLate' /\ \A d \in Caller : Good(d)'
    BY TypesSufficeNext DEF UnitsInv
  <2>2. CASE Units!StartDone
    BY <2>1, <2>2, StartDoneGood, NoPanic DEF Units!StartDone
  <2>3. CASE Units!StartFails
    BY <2>1, <2>3, StartFailsGood, NoPanic DEF Units!StartFails
  <2>4. CASE Units!StopEnds
    BY <2>1, <2>4, StopEndsGood, NoPanic DEF Units!StopEnds
  <2>5. CASE Units!Exit
    BY <2>1, <2>5, ExitGood, NoPanic DEF Units!Exit, Units!library
  <2>6. CASE \E c \in Caller : Units!Lose(c)
    BY <2>1, <2>6, LoseGood, NoPanic DEF Units!Lose
  <2>7. CASE \E c \in Caller : Units!Dispatch(c)
    BY <2>7, DispatchGood
  <2>8. CASE \E c \in Caller : Units!Begin(c)
    BY <2>1, <2>8, BeginGood, NoPanic DEF Units!Begin, Units!library
  <2>9. CASE \E c \in Caller : Units!Refused(c)
    BY <2>1, <2>9, RefusedGood, NoPanic DEF Units!Refused, Units!library
  <2>10. CASE \E c \in Caller : Units!Step(c)
    <3>1. PICK c \in Caller : Units!Step(c)
      BY <2>10
    <3>2. CASE Units!CheckDelegate(c)
      BY <2>1, <3>2, CheckDelegateGood, NoPanic DEF Units!CheckDelegate, Units!library
    <3>3. CASE Units!StartUnit(c)
      BY <2>1, <3>3, StartUnitGood, NoPanic DEF Units!StartUnit, Units!Loads, Units!library
    <3>4. CASE Units!Create(c)
      BY <2>1, <3>4, CreateGood, NoPanic DEF Units!Create, Units!Loads, Units!library
    <3>5. CASE Units!StopUnit(c)
      BY <2>1, <3>5, StopUnitGood, NoPanic DEF Units!StopUnit, Units!library
    <3>6. CASE Units!ResetFailed(c)
      BY <2>1, <3>6, ResetFailedGood, NoPanic DEF Units!ResetFailed, Units!library
    <3>7. CASE Units!Receive(c)
      BY <2>1, <3>7, ReceiveGood, NoPanic DEF Units!Receive
    <3>8. CASE Units!Timeout(c)
      BY <2>1, <3>8, TimeoutGood, NoPanic DEF Units!Timeout, Units!library
    <3>9. CASE Units!CloseConn(c)
      BY <2>1, <3>9, CloseConnGood, NoPanic DEF Units!CloseConn
    <3> QED
      BY <3>1, <3>2, <3>3, <3>4, <3>5, <3>6, <3>7, <3>8, <3>9 DEF Units!Step
  <2> QED
    BY <1>2, <2>2, <2>3, <2>4, <2>5, <2>6, <2>7, <2>8, <2>9, <2>10 DEF Units!Next, Units!Jobs
<1> QED
  BY <1>1, <1>2

-----------------------------------------------------------------------------
(* The components together.                                                *)
LEMMA Starts == StartAll => Init /\ Freezer!Init /\ Units!Init
  BY DEF StartAll

(* A step of one component leaves the variables of the others alone.       *)
LEMMA Steps == [NextAll]_allVars => [Next]_vars /\ [Freezer!Next]_(Freezer!vars) /\ [Units!Next]_(Units!vars)
<1> SUFFICES ASSUME [NextAll]_allVars
             PROVE  [Next]_vars /\ [Freezer!Next]_(Freezer!vars) /\ [Units!Next]_(Units!vars)
  OBVIOUS
<1>1. UNCHANGED freezerVars => UNCHANGED Freezer!vars
  BY DEF freezerVars, Freezer!vars, Freezer!kernel
<1>2. UNCHANGED unitVars => UNCHANGED Units!vars
  BY DEF unitVars, Units!vars, Units!daemon, Units!library
<1>3. CASE StatStep
  BY <1>1, <1>2, <1>3 DEF StatStep, InStat
<1>4. CASE FreezerStep
  BY <1>1, <1>2, <1>4 DEF FreezerStep, InFreezer
<1>5. CASE UnitStep
  BY <1>1, <1>2, <1>5 DEF UnitStep, InUnits
<1>6. CASE UNCHANGED allVars
  BY <1>1, <1>2, <1>6 DEF allVars
<1> QED
  BY <1>3, <1>4, <1>5, <1>6 DEF NextAll

LEMMA Behaves == SpecAll => StartAll /\ [][NextAll]_allVars
  BY DEF SpecAll

LEMMA StatHolds == SpecAll => []StatInv
<1>1. StartAll => StatInv
  BY Starts, StatInit
<1>2. StatInv /\ [NextAll]_allVars => StatInv'
  BY Steps, StatStepInv
<1> QED
  BY <1>1, <1>2, Behaves, PTL

LEMMA FreezerTypeHolds == SpecAll => []Freezer!TypeOK
<1>1. StartAll => Freezer!TypeOK
  BY Starts, FreezerInit, CallsAssumption DEF FreezerInv
<1>2. Freezer!TypeOK /\ [NextAll]_allVars => Freezer!TypeOK'
  BY Steps, FreezerTypes, CallsAssumption
<1> QED
  BY <1>1, <1>2, Behaves, PTL

LEMMA FreezerHolds == ASSUME Freezer!OneObject PROVE SpecAll => []FreezerInv
<1>1. StartAll => FreezerInv
  BY Starts, FreezerInit, CallsAssumption
<1>2. FreezerInv /\ [NextAll]_allVars => FreezerInv'
  BY Steps, FreezerStepInv, CallsAssumption
<1> QED
  BY <1>1, <1>2, Behaves, PTL

LEMMA UnitsHold == SpecAll => []UnitsInv
<1>1. StartAll => UnitsInv
  BY Starts, UnitsInit, CallsAssumption
<1>2. UnitsInv /\ [NextAll]_allVars => UnitsInv'
  BY Steps, UnitsStepInv, CallsAssumption
<1> QED
  BY <1>1, <1>2, Behaves, PTL

-----------------------------------------------------------------------------
(* The variables of the three keep their types, and a lock is held exactly *)
(* while a call is between taking and releasing it.                        *)
THEOREM TypeCorrect == SpecAll => []AllTypeOK
<1>1. StatInv /\ Freezer!TypeOK /\ UnitsInv => AllTypeOK
  BY DEF StatInv, UnitsInv, AllTypeOK
<1> QED
  BY <1>1, StatHolds, FreezerTypeHolds, UnitsHold, PTL

(* The Metrics of a call that returned no error are final and complete.    *)
THEOREM MetricsAreFinal == SpecAll => []MetricsFinal
<1>1. StatInv => MetricsFinal
  BY DEF StatInv, Started, MetricsFinal
<1> QED
  BY <1>1, StatHolds, PTL

(* With one handler no goroutine of Stat blocks on its channel of errors.  *)
THEOREM OneHandlerNeverBlocks == ASSUME Handlers = 1 PROVE SpecAll => []NeverBlocks
<1>1. StatInv => NeverBlocks
  BY RoomForAll
<1> QED
  BY <1>1, StatHolds, PTL

(* With one object to a directory, what Freeze has stopped stays stopped   *)
(* until a Thaw of that directory is let in, whatever is frozen and thawed *)
(* above it and beneath it.                                                *)
THEOREM FreezeHolds == ASSUME Freezer!OneObject PROVE SpecAll => []StaysFrozen
<1>1. FreezerInv => StaysFrozen
  BY DEF FreezerInv, Frozen, StaysFrozen, Freezer!StaysFrozen
<1> QED
  BY <1>1, FreezerHolds, PTL

(* NewSystemd with a pid returns nil only when this process was put into a *)
(* unit that the call has started (manager.go:948).                        *)
THEOREM UnitsAreOwn == SpecAll => []OwnUnit
<1>1. UnitsInv => OwnUnit
  BY DEF UnitsInv, Good, Told, OwnUnit, Units!OwnUnit
<1> QED
  BY <1>1, UnitsHold, PTL

(* A signal meets the channel that startUnit has closed (manager.go:1088)  *)
(* only of a call that has timed out.                                      *)
THEOREM PanicsAreLate == SpecAll => []PanicsOnlyLate
<1>1. UnitsInv => PanicsOnlyLate
  BY DEF UnitsInv, PanicsOnlyLate
<1> QED
  BY <1>1, UnitsHold, PTL
=============================================================================
