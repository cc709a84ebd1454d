---------------------------- MODULE Kill2_proofs ----------------------------
(***************************************************************************)
(* Theorems about Kill2, for any number of processes, directories and      *)
(* callers: Kill reaches whoever was in the cgroup when it was called, and *)
(* does not leave the cgroup frozen.                                       *)
(***************************************************************************)
EXTENDS Kill2, TLAPS

Phase == {"start", "write", "read", "walk", "signal", "wait", "done"}

(* How the steps of a call change its record.                              *)
LEMMA Records ==
  ASSUME NEW r \in Call, NEW at \in Phase, NEW b \in BOOLEAN,
         NEW D \in SUBSET Dir, NEW P \in SUBSET Pid
  PROVE  /\ [r EXCEPT !.at = at] \in Call
         /\ [r EXCEPT !.at = at, !.goal = b] \in Call
         /\ [r EXCEPT !.at = at, !.goal = b, !.err = TRUE] \in Call
         /\ [r EXCEPT !.at = at, !.todo = D] \in Call
         /\ [r EXCEPT !.todo = D, !.left = P, !.at = at] \in Call
  BY DEF Call, Phase

LEMMA RecordSets ==
  ASSUME NEW r \in Call, NEW P \in SUBSET Pid, NEW Q \in SUBSET Pid
  PROVE  /\ [r EXCEPT !.left = P, !.procs = Q] \in Call
         /\ [r EXCEPT !.procs = Q] \in Call
         /\ [r EXCEPT !.first = P] \in Call
  BY DEF Call

LEMMA AfterFreezeType ==
  ASSUME TypeOK, NEW c \in Caller
  PROVE  AfterFreeze(c) \in Call
<1>1. call[c] \in Call
  BY DEF TypeOK
<1> QED
  BY <1>1, Records DEF AfterFreeze, Phase

LEMMA AfterFreezeWalks ==
  ASSUME TypeOK, NEW c \in Caller, call[c].at # "walk"
  PROVE  AfterFreeze(c).at = "walk" => AfterFreeze(c).todo # {}
<1>1. call[c] \in Call
  BY DEF TypeOK
<1> QED
  BY <1>1, KillAssumption DEF AfterFreeze, Call

(* A step of a call replaces its record.                                   *)
LEMMA StepType ==
  ASSUME TypeOK, NEW c \in Caller, NEW r \in Call, Set(c, r),
         r.at = "walk" => r.todo # {}
  PROVE  /\ call' \in [Caller -> Call]
         /\ \A e \in Caller : call'[e].at = "walk" => call'[e].todo # {}
  BY DEF TypeOK, Set

(* The calls and the processes keep their types, and a walk has somewhere  *)
(* to go.                                                                  *)
THEOREM TypeCorrect == Spec => []TypeOK
<1>1. Init => TypeOK
  <2> SUFFICES ASSUME Init PROVE TypeOK
    OBVIOUS
  <2>1. proc \in [Pid -> {"none", "run", "frozen", "dead"}]
    BY DEF Init
  <2>2. freeze \in BOOLEAN
    BY KillAssumption DEF Init
  <2>3. call \in [Caller -> Call] /\ \A c \in Caller : call[c].at # "walk"
    BY DEF Init, Call
  <2> QED
    BY <2>1, <2>2, <2>3 DEF Init, TypeOK
<1>2. TypeOK /\ [Next]_vars => TypeOK'
  <2> SUFFICES ASSUME TypeOK, [Next]_vars PROVE TypeOK'
    OBVIOUS
  <2>1. CASE Kernel
    BY <2>1 DEF TypeOK, Kernel, Fork, Stop, Continue, Die
  <2>2. ASSUME NEW c \in Caller, Step(c) \/ WalkErr(c) PROVE TypeOK'
    <3> DEFINE r == call[c]
    <3>0. r \in Call /\ r.todo \subseteq Dir /\ r.left \subseteq Pid /\ r.procs \subseteq Pid
      BY DEF TypeOK, Call
    <3>a. Alive \subseteq Pid
      BY DEF Alive
    <3> USE <3>0, <3>a
    <3>1. CASE Begin(c)
      <4> DEFINE began == [r EXCEPT !.first = Alive]
      <4>1. began \in Call
        BY RecordSets
      <4>2. /\ [began EXCEPT !.at = "done"] \in Call
            /\ [began EXCEPT !.at = "write", !.goal = Op[c] # "thaw"] \in Call
        BY <4>1, Records DEF Phase
      <4>3. CASE Set(c, [began EXCEPT !.at = "done"])
        <5>1. [began EXCEPT !.at = "done"].at = "done"
          BY <4>1 DEF Call
        <5> HIDE DEF began
        <5> QED
          BY <3>1, <4>2, <4>3, <5>1, StepType DEF Begin, TypeOK
      <4>4. CASE Set(c, [began EXCEPT !.at = "write", !.goal = Op[c] # "thaw"])
        <5>1. [began EXCEPT !.at = "write", !.goal = Op[c] # "thaw"].at = "write"
          BY <4>1 DEF Call
        <5> HIDE DEF began
        <5> QED
          BY <3>1, <4>2, <4>4, <5>1, StepType DEF Begin, TypeOK
      <4> QED
        BY <3>1, <4>3, <4>4 DEF Begin
    <3>2. CASE WriteState(c)
      <4>1. [r EXCEPT !.at = "read"] \in Call
        BY Records DEF Phase
      <4>2. freeze' \in BOOLEAN
        BY <3>2 DEF WriteState, TypeOK, Call
      <4>3. \E t \in Call : Set(c, t) /\ (t.at = "walk" => t.todo # {})
        BY <3>2, <4>1, AfterFreezeType, AfterFreezeWalks DEF WriteState, Call
      <4> QED
        BY <3>2, <4>2, <4>3, StepType DEF WriteState, TypeOK
    <3>3. CASE ReadState(c)
      <4>1. [r EXCEPT !.at = "write"] \in Call
        BY Records DEF Phase
      <4>2. \E t \in Call : Set(c, t) /\ (t.at = "walk" => t.todo # {})
        BY <3>3, <4>1, AfterFreezeType, AfterFreezeWalks DEF ReadState, Call
      <4> QED
        BY <3>3, <4>2, StepType DEF ReadState, TypeOK, kernel
    <3>4. CASE WalkDir(c)
      <4>1. PICK d \in r.todo :
              Set(c, [r EXCEPT !.todo = r.todo \ {d},
                               !.left = r.left \cup {p \in Alive : home[p] = d},
                               !.at = IF r.todo \ {d} = {} THEN "signal" ELSE "walk"])
        BY <3>4 DEF WalkDir
      <4> DEFINE t == [r EXCEPT !.todo = r.todo \ {d},
                                !.left = r.left \cup {p \in Alive : home[p] = d},
                                !.at = IF r.todo \ {d} = {} THEN "signal" ELSE "walk"]
      <4>2. t \in Call
        BY Records DEF Phase
      <4>3. t.at = "walk" => t.todo # {}
        BY DEF Call
      <4> HIDE DEF t
      <4> QED
        BY <3>4, <4>1, <4>2, <4>3, StepType DEF WalkDir, TypeOK, kernel, t
    <3>5. CASE Signal(c)
      <4>1. PICK p \in r.left :
              /\ killed' = killed \cup ({p} \cap Alive)
              /\ Set(c, [r EXCEPT !.left = r.left \ {p}, !.procs = r.procs \cup {p}])
        BY <3>5 DEF Signal
      <4>2. r.at = "signal"
        BY <3>5 DEF Signal
      <4> DEFINE t == [r EXCEPT !.left = r.left \ {p}, !.procs = r.procs \cup {p}]
      <4>3. t \in Call
        BY RecordSets
      <4>6. t.at = "signal"
        BY <4>2 DEF Call
      <4>4. killed' \subseteq Pid
        BY <4>1 DEF TypeOK
      <4>5. Set(c, t)
        BY <4>1
      <4> HIDE DEF t
      <4> QED
        BY <3>5, <4>3, <4>4, <4>5, <4>6, StepType DEF Signal, TypeOK
    <3>6. CASE Signalled(c)
      <4> DEFINE t == [r EXCEPT !.at = "write", !.goal = FALSE]
      <4>1. Set(c, t)
        BY <3>6 DEF Signalled
      <4>2. t \in Call
        BY Records DEF Phase
      <4>3. t.at = "write"
        BY DEF Call
      <4> HIDE DEF t
      <4> QED
        BY <3>6, <4>1, <4>2, <4>3, StepType DEF Signalled, TypeOK, kernel
    <3>7. CASE WalkErr(c)
      <4> DEFINE t == [r EXCEPT !.at = "write", !.goal = FALSE, !.err = TRUE]
      <4>1. Set(c, t)
        BY <3>7 DEF WalkErr
      <4>2. t \in Call
        BY Records DEF Phase
      <4>3. t.at = "write"
        BY DEF Call
      <4> HIDE DEF t
      <4> QED
        BY <3>7, <4>1, <4>2, <4>3, StepType DEF WalkErr, TypeOK, kernel
    <3>8. CASE Return(c)
      <4> DEFINE t == [r EXCEPT !.at = "done"]
      <4>1. Set(c, t)
        BY <3>8 DEF Return
      <4>2. t \in Call
        BY Records DEF Phase
      <4>3. t.at = "done"
        BY DEF Call
      <4> HIDE DEF t
      <4> QED
        BY <3>8, <4>1, <4>2, <4>3, StepType DEF Return, TypeOK, kernel
    <3>9. CASE Wait(c)
      <4>1. PICK p \in r.procs : Set(c, [r EXCEPT !.procs = r.procs \ {p}])
        BY <3>9 DEF Wait
      <4> DEFINE t == [r EXCEPT !.procs = r.procs \ {p}]
      <4>2. t \in Call
        BY RecordSets
      <4>3. t.at = "wait"
        BY <3>9 DEF Wait, Call
      <4> HIDE DEF t
      <4> QED
        BY <3>9, <4>1, <4>2, <4>3, StepType DEF Wait, TypeOK, kernel, t
    <3> QED
      BY <2>2, <3>1, <3>2, <3>3, <3>4, <3>5, <3>6, <3>7, <3>8, <3>9 DEF Step
  <2>3. CASE UNCHANGED vars
    BY <2>3 DEF TypeOK, vars
  <2> QED
    BY <2>1, <2>2, <2>3 DEF Next
<1> QED
  BY <1>1, <1>2, PTL DEF Spec

-----------------------------------------------------------------------------
(* What a call still has to do about a process that was there at its       *)
(* beginning: walk its directory, signal it, or nothing because the walk   *)
(* failed.                                                                 *)
Due(c, p) ==
    \/ call[c].at \in {"write", "read"} /\ call[c].goal
    \/ call[c].at = "walk" /\ (p \in call[c].left \/ home[p] \in call[c].todo)
    \/ call[c].at = "signal" /\ p \in call[c].left
    \/ call[c].err

Reaches ==
    \A c \in Caller :
        /\ call[c].at = "start" => call[c].first = {} /\ call[c].goal
        /\ Op[c] = "thaw" /\ call[c].at \in {"write", "read"} => ~call[c].goal
        /\ \A p \in call[c].first :
              /\ proc[p] # "none"
              /\ Op[c] = "kill" /\ p \in Alive => p \in killed \/ Due(c, p)

(* A call on its way to thawing.                                           *)
Busy(c) == call[c].at \in {"write", "read", "walk", "signal"}

Thaws ==
    /\ freeze => FreezeFile
    /\ (\A c \in Caller : Op[c] # "freeze") /\ freeze
         => (\E c \in Caller : Busy(c)) \/ (\A c \in Caller : call[c].goal)

IInv == TypeOK /\ Reaches /\ Thaws

(* One step of a call that changes the process table at most in what is    *)
(* killed preserves what it owes, once it does so for its own record.      *)
LEMMA OtherCalls ==
  ASSUME IInv, NEW c \in Caller, NEW t \in Call, Set(c, t),
         UNCHANGED <<proc, home>>, killed \subseteq killed',
         t.at = "start" => t.first = {} /\ t.goal,
         Op[c] = "thaw" /\ t.at \in {"write", "read"} => ~t.goal,
         \A p \in t.first :
            /\ proc[p] # "none"
            /\ Op[c] = "kill" /\ p \in Alive
                 => \/ p \in killed'
                    \/ t.at \in {"write", "read"} /\ t.goal
                    \/ t.at = "walk" /\ (p \in t.left \/ home[p] \in t.todo)
                    \/ t.at = "signal" /\ p \in t.left
                    \/ t.err
  PROVE  Reaches'
<1>1. call'[c] = t /\ \A e \in Caller \ {c} : call'[e] = call[e]
  BY DEF IInv, TypeOK, Set
<1>2. Alive' = Alive
  BY DEF Alive
<1> SUFFICES ASSUME NEW e \in Caller
             PROVE  /\ call'[e].at = "start" => call'[e].first = {} /\ call'[e].goal
                    /\ Op[e] = "thaw" /\ call'[e].at \in {"write", "read"} => ~call'[e].goal
                    /\ \A p \in call'[e].first :
                          /\ proc'[p] # "none"
                          /\ Op[e] = "kill" /\ p \in Alive' => p \in killed' \/ Due(e, p)'
  BY DEF Reaches
<1>3. CASE e = c
  BY <1>1, <1>2, <1>3 DEF Due
<1>4. CASE e # c
  BY <1>1, <1>2, <1>4 DEF Due, IInv, Reaches
<1> QED
  BY <1>3, <1>4

LEMMA OtherThaws ==
  ASSUME IInv, NEW c \in Caller, NEW t \in Call, Set(c, t),
         freeze' => FreezeFile,
         freeze' => \/ t.at \in {"write", "read", "walk", "signal"}
                    \/ ~Busy(c) /\ t.goal = call[c].goal /\ freeze
                    \/ Op[c] = "freeze"
  PROVE  Thaws'
<1>1. call'[c] = t /\ \A e \in Caller \ {c} : call'[e] = call[e]
  BY DEF IInv, TypeOK, Set
<1> SUFFICES ASSUME \A e \in Caller : Op[e] # "freeze", freeze'
             PROVE  (\E e \in Caller : Busy(e)') \/ (\A e \in Caller : call'[e].goal)
  BY DEF Thaws
<1>2. CASE t.at \in {"write", "read", "walk", "signal"}
  BY <1>1, <1>2 DEF Busy
<1>3. CASE ~Busy(c) /\ t.goal = call[c].goal /\ freeze
  <2>1. CASE \E e \in Caller : Busy(e)
    BY <1>1, <1>3, <2>1 DEF Busy
  <2>2. CASE \A e \in Caller : call[e].goal
    BY <1>1, <1>3, <2>2
  <2> QED
    BY <1>3, <2>1, <2>2 DEF IInv, Thaws
<1> QED
  BY <1>2, <1>3

LEMMA NewRecord ==
  ASSUME TypeOK, TypeOK', NEW c \in Caller, NEW t, Set(c, t)
  PROVE  t \in Call
<1>1. call'[c] = t
  BY DEF TypeOK, Set
<1> QED
  BY <1>1 DEF TypeOK

(* The record of a call whose freeze() has returned, when the flag is what *)
(* it asked for or the kernel has no such flag.                            *)
LEMMA FreezeReturned ==
  ASSUME IInv, TypeOK', NEW c \in Caller, Set(c, AfterFreeze(c)), UNCHANGED kernel,
         call[c].at \in {"write", "read"}, freeze => call[c].goal
  PROVE  Reaches' /\ Thaws'
<1> DEFINE r == call[c]
           t == AfterFreeze(c)
<1>1. r \in Call /\ t \in Call
  BY NewRecord DEF IInv, TypeOK
<1>2. UNCHANGED <<proc, home, killed, freeze>>
  BY DEF kernel
<1>3. /\ t.first = r.first /\ t.err = r.err /\ t.goal = r.goal
      /\ t.at \in {"walk", "wait", "done"}
      /\ Op[c] = "kill" =>
            \/ t.at = "walk" /\ t.todo = Dir
            \/ ~r.goal
  BY <1>1 DEF AfterFreeze, Call
<1>4. \A p \in Pid : home[p] \in Dir
  BY DEF IInv, TypeOK
<1>5. \A p \in r.first : /\ p \in Pid /\ proc[p] # "none"
                         /\ Op[c] = "kill" /\ p \in Alive /\ ~r.goal => p \in killed \/ r.err
  BY <1>1 DEF IInv, Reaches, Due, Call
<1>6. Reaches'
  <2> HIDE DEF t
  <2> QED
    BY <1>1, <1>2, <1>3, <1>4, <1>5, OtherCalls DEF t
<1>7. Thaws'
  <2>1. freeze' => FreezeFile
    BY <1>2 DEF IInv, Thaws
  <2>2. freeze => t.at = "walk" \/ Op[c] = "freeze"
    BY <1>1, KillAssumption DEF AfterFreeze, Call, IInv, Reaches
  <2> QED
    BY <1>1, <1>2, <2>1, <2>2, OtherThaws
<1> QED
  BY <1>6, <1>7

LEMMA StepInv ==
  ASSUME IInv, TypeOK', NEW c \in Caller, Step(c) \/ WalkErr(c)
  PROVE  Reaches' /\ Thaws'
<1> DEFINE r == call[c]
<1>0. r \in Call /\ r.todo \subseteq Dir /\ r.left \subseteq Pid /\ r.first \subseteq Pid
  BY DEF IInv, TypeOK, Call
<1>a. /\ r.at = "start" => r.first = {} /\ r.goal
      /\ Op[c] = "thaw" /\ r.at \in {"write", "read"} => ~r.goal
      /\ \A p \in r.first :
            proc[p] # "none" /\ (Op[c] = "kill" /\ p \in Alive => p \in killed \/ Due(c, p))
  BY DEF IInv, Reaches
<1>b. freeze => FreezeFile
  BY DEF IInv, Thaws
<1>1. CASE Begin(c)
  <2> DEFINE began == [r EXCEPT !.first = Alive]
  <2>1. \A p \in Alive : p \in Pid /\ proc[p] # "none"
    BY DEF Alive
  <2>2. /\ UNCHANGED <<proc, home, freeze>> /\ killed \subseteq killed'
        /\ r.at = "start"
    BY <1>1 DEF Begin
  <2>3. CASE Set(c, [began EXCEPT !.at = "done"]) /\ killed' = killed \cup Alive
    <3> DEFINE t == [began EXCEPT !.at = "done"]
    <3>1. t \in Call
      BY <2>3, NewRecord DEF IInv
    <3>2. t.at = "done" /\ t.first = Alive /\ t.goal = r.goal
      BY <1>0 DEF Call
    <3>3. Set(c, t)
      BY <2>3
    <3> HIDE DEF t
    <3>4. Reaches'
      BY <2>1, <2>2, <2>3, <3>1, <3>2, <3>3, OtherCalls
    <3>5. Thaws'
      BY <1>b, <2>2, <3>1, <3>2, <3>3, OtherThaws DEF Busy
    <3> QED
      BY <3>4, <3>5
  <2>4. CASE Set(c, [began EXCEPT !.at = "write", !.goal = Op[c] # "thaw"])
    <3> DEFINE t == [began EXCEPT !.at = "write", !.goal = Op[c] # "thaw"]
    <3>1. t \in Call
      BY <2>4, NewRecord DEF IInv
    <3>2. t.at = "write" /\ t.first = Alive /\ t.goal = (Op[c] # "thaw")
      BY <1>0 DEF Call
    <3>3. Set(c, t)
      BY <2>4
    <3> HIDE DEF t
    <3>4. Reaches'
      BY <2>1, <2>2, <3>1, <3>2, <3>3, OtherCalls
    <3>5. Thaws'
      BY <1>b, <2>2, <3>1, <3>2, <3>3, OtherThaws
    <3> QED
      BY <3>4, <3>5
  <2> QED
    BY <1>1, <2>3, <2>4 DEF Begin
<1>2. CASE WriteState(c)
  <2>1. CASE FreezeFile
    <3> DEFINE t == [r EXCEPT !.at = "read"]
    <3>1. Set(c, t)
      BY <1>2, <2>1 DEF WriteState
    <3>2. t \in Call
      BY <3>1, NewRecord DEF IInv
    <3>3. t.at = "read" /\ t.first = r.first /\ t.goal = r.goal /\ t.err = r.err
      BY <1>0 DEF Call
    <3> HIDE DEF t
    <3>4. UNCHANGED <<proc, home, killed>> /\ r.at = "write"
      BY <1>2 DEF WriteState
    <3>5. Reaches'
      BY <1>a, <3>1, <3>2, <3>3, <3>4, OtherCalls DEF Due
    <3>6. Thaws'
      BY <2>1, <3>1, <3>2, <3>3, OtherThaws
    <3> QED
      BY <3>5, <3>6
  <2>2. CASE ~FreezeFile
    BY <1>2, <1>b, <2>2, FreezeReturned DEF WriteState, kernel
  <2> QED
    BY <2>1, <2>2
<1>3. CASE ReadState(c)
  <2>1. CASE freeze = r.goal
    BY <1>3, <2>1, FreezeReturned DEF ReadState
  <2>2. CASE freeze # r.goal
    <3> DEFINE t == [r EXCEPT !.at = "write"]
    <3>1. Set(c, t)
      BY <1>3, <2>2 DEF ReadState
    <3>2. t \in Call
      BY <3>1, NewRecord DEF IInv
    <3>3. t.at = "write" /\ t.first = r.first /\ t.goal = r.goal /\ t.err = r.err
      BY <1>0 DEF Call
    <3> HIDE DEF t
    <3>4. UNCHANGED <<proc, home, killed, freeze>> /\ r.at = "read"
      BY <1>3 DEF ReadState, kernel
    <3>5. Reaches'
      BY <1>a, <3>1, <3>2, <3>3, <3>4, OtherCalls DEF Due
    <3>6. Thaws'
      BY <1>b, <3>1, <3>2, <3>3, <3>4, OtherThaws
    <3> QED
      BY <3>5, <3>6
  <2> QED
    BY <2>1, <2>2
<1>4. CASE WalkDir(c)
  <2>1. PICK d \in r.todo :
          Set(c, [r EXCEPT !.todo = r.todo \ {d},
                           !.left = r.left \cup {p \in Alive : home[p] = d},
                           !.at = IF r.todo \ {d} = {} THEN "signal" ELSE "walk"])
    BY <1>4 DEF WalkDir
  <2> DEFINE t == [r EXCEPT !.todo = r.todo \ {d},
                            !.left = r.left \cup {p \in Alive : home[p] = d},
                            !.at = IF r.todo \ {d} = {} THEN "signal" ELSE "walk"]
  <2>2. t \in Call /\ Set(c, t)
    BY <2>1, NewRecord DEF IInv
  <2>3. /\ t.first = r.first /\ t.goal = r.goal /\ t.err = r.err
        /\ t.left = r.left \cup {p \in Alive : home[p] = d} /\ t.todo = r.todo \ {d}
        /\ \/ t.at = "walk"
           \/ t.at = "signal" /\ r.todo \ {d} = {}
    BY <1>0 DEF Call
  <2> HIDE DEF t
  <2>4. UNCHANGED <<proc, home, killed, freeze>> /\ r.at = "walk"
    BY <1>4 DEF WalkDir, kernel
  <2>5. Reaches'
    BY <1>0, <1>a, <2>2, <2>3, <2>4, OtherCalls DEF Due
  <2>6. Thaws'
    BY <1>b, <2>2, <2>3, <2>4, OtherThaws
  <2> QED
    BY <2>5, <2>6
<1>5. CASE Signal(c)
  <2>1. PICK p \in r.left :
          /\ killed' = killed \cup ({p} \cap Alive)
          /\ Set(c, [r EXCEPT !.left = r.left \ {p}, !.procs = r.procs \cup {p}])
    BY <1>5 DEF Signal
  <2> DEFINE t == [r EXCEPT !.left = r.left \ {p}, !.procs = r.procs \cup {p}]
  <2>2. t \in Call /\ Set(c, t)
    BY <2>1, NewRecord DEF IInv
  <2>3. UNCHANGED <<proc, home, freeze>> /\ r.at = "signal"
    BY <1>5 DEF Signal
  <2>4. /\ t.first = r.first /\ t.goal = r.goal /\ t.err = r.err
        /\ t.left = r.left \ {p} /\ t.at = "signal"
    BY <1>0, <2>3 DEF Call
  <2> HIDE DEF t
  <2>5. Reaches'
    BY <1>a, <2>1, <2>2, <2>3, <2>4, OtherCalls DEF Due
  <2>6. Thaws'
    BY <1>b, <2>2, <2>3, <2>4, OtherThaws
  <2> QED
    BY <2>5, <2>6
<1>6. CASE Signalled(c)
  <2> DEFINE t == [r EXCEPT !.at = "write", !.goal = FALSE]
  <2>1. Set(c, t)
    BY <1>6 DEF Signalled
  <2>2. t \in Call
    BY <2>1, NewRecord DEF IInv
  <2>3. UNCHANGED <<proc, home, killed, freeze>> /\ r.at = "signal" /\ r.left = {}
    BY <1>6 DEF Signalled, kernel
  <2>4. t.at = "write" /\ ~t.goal /\ t.first = r.first /\ t.err = r.err
    BY <1>0 DEF Call
  <2> HIDE DEF t
  <2>5. Reaches'
    BY <1>a, <2>1, <2>2, <2>3, <2>4, OtherCalls DEF Due
  <2>6. Thaws'
    BY <1>b, <2>1, <2>2, <2>3, <2>4, OtherThaws
  <2> QED
    BY <2>5, <2>6
<1>7. CASE WalkErr(c)
  <2> DEFINE t == [r EXCEPT !.at = "write", !.goal = FALSE, !.err = TRUE]
  <2>1. Set(c, t)
    BY <1>7 DEF WalkErr
  <2>2. t \in Call
    BY <2>1, NewRecord DEF IInv
  <2>3. UNCHANGED <<proc, home, killed, freeze>>
    BY <1>7 DEF WalkErr, kernel
  <2>4. t.at = "write" /\ ~t.goal /\ t.first = r.first /\ t.err
    BY <1>0 DEF Call
  <2> HIDE DEF t
  <2>5. Reaches'
    BY <1>a, <2>1, <2>2, <2>3, <2>4, OtherCalls
  <2>6. Thaws'
    BY <1>b, <2>1, <2>2, <2>3, <2>4, OtherThaws
  <2> QED
    BY <2>5, <2>6
<1>8. CASE Wait(c) \/ Return(c)
  <2>1. PICK t : Set(c, t) /\ (\/ t = [r EXCEPT !.at = "done"]
                              \/ \E p \in r.procs : t = [r EXCEPT !.procs = r.procs \ {p}])
    BY <1>8 DEF Wait, Return
  <2>2. t \in Call
    BY <2>1, NewRecord DEF IInv
  <2>3. UNCHANGED <<proc, home, killed, freeze>> /\ r.at = "wait"
    BY <1>8 DEF Wait, Return, kernel
  <2>4. t.at \in {"wait", "done"} /\ t.goal = r.goal /\ t.first = r.first /\ t.err = r.err
    BY <1>0, <2>1, <2>3 DEF Call
  <2>5. Reaches'
    BY <1>a, <2>1, <2>2, <2>3, <2>4, OtherCalls DEF Due
  <2>6. Thaws'
    BY <1>b, <2>1, <2>2, <2>3, <2>4, OtherThaws DEF Busy
  <2> QED
    BY <2>5, <2>6
<1> QED
  BY <1>1, <1>2, <1>3, <1>4, <1>5, <1>6, <1>7, <1>8 DEF Step

LEMMA KernelInv ==
  ASSUME IInv, Kernel
  PROVE  Reaches' /\ Thaws'
<1>1. UNCHANGED <<killed, freeze, call>>
  BY DEF Kernel, Fork, Stop, Continue, Die
<1>2. Thaws'
  BY <1>1 DEF IInv, Thaws, Busy
<1>3. ASSUME NEW p \in Pid, proc[p] # "none"
      PROVE  proc'[p] # "none" /\ home'[p] = home[p] /\ (p \in Alive' => p \in Alive)
  BY <1>3 DEF IInv, TypeOK, Kernel, Fork, Stop, Continue, Die, Alive
<1>4. \A c \in Caller : call[c].first \subseteq Pid
  BY DEF IInv, TypeOK, Call
<1>5. Reaches'
  BY <1>1, <1>3, <1>4 DEF IInv, Reaches, Due
<1> QED
  BY <1>2, <1>5

LEMMA IInvHolds == Spec => []IInv
<1>1. Init => Reaches /\ Thaws
  <2> SUFFICES ASSUME Init PROVE Reaches /\ Thaws
    OBVIOUS
  <2>1. \A c \in Caller : /\ call[c].at = "start" /\ call[c].goal = TRUE
                          /\ call[c].first = {}
    BY DEF Init
  <2>2. freeze => FreezeFile
    <3>1. freeze = FALSE \/ freeze = FreezeFile
      BY DEF Init
    <3> QED
      BY <3>1, Zenon
  <2>3. Reaches
    BY <2>1 DEF Reaches
  <2> QED
    BY <2>1, <2>2, <2>3 DEF Thaws
<1>2. IInv /\ TypeOK' /\ [Next]_vars => IInv'
  <2> SUFFICES ASSUME IInv, TypeOK', [Next]_vars PROVE IInv'
    OBVIOUS
  <2>1. CASE Kernel
    BY <2>1, KernelInv DEF IInv
  <2>2. ASSUME NEW c \in Caller, Step(c) \/ WalkErr(c) PROVE IInv'
    BY <2>2, StepInv DEF IInv
  <2>3. CASE UNCHANGED vars
    BY <2>3 DEF vars, IInv, Reaches, Thaws, Due, Busy, Alive
  <2> QED
    BY <2>1, <2>2, <2>3 DEF Next
<1> QED
  BY <1>1, <1>2, TypeCorrect, PTL DEF Spec, IInv

-----------------------------------------------------------------------------
(* Kill reaches whoever was in the cgroup when it was called: each such    *)
(* process is in a directory still to walk, found and still to signal, or  *)
(* killed, whatever forks and exits meanwhile.                             *)
THEOREM KillReachesAll == Spec => []KillsWhoWasThere
<1>1. IInv => KillsWhoWasThere
  <2> SUFFICES ASSUME IInv, NEW c \in Caller, Killed(c), NEW p \in call[c].first \cap Alive
               PROVE  p \in killed
    BY DEF KillsWhoWasThere
  <2>1. ~Due(c, p)
    BY DEF Killed, Due
  <2> QED
    BY <2>1 DEF IInv, Reaches, Killed
<1> QED
  BY <1>1, IInvHolds, PTL

(* However Kill returns, and although its Freeze and Thaw write the file   *)
(* other callers write too, a frozen cgroup is one that somebody is still  *)
(* on the way to thawing, or that nobody has begun to thaw.                *)
THEOREM KillThaws == Spec => []LeavesThawed
<1>1. IInv => LeavesThawed
  BY DEF IInv, Thaws, Busy, LeavesThawed
<1> QED
  BY <1>1, IInvHolds, PTL
=============================================================================
