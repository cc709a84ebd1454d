--------------------------- MODULE Cgroup1_proofs ---------------------------
(***************************************************************************)
(* Theorems about Cgroup1 for any number of goroutines, handles,           *)
(* subsystems, cgroups and processes.                                      *)
(***************************************************************************)
EXTENDS Cgroup1, TLAPS

IInv == TypeOK /\ LockInv

(* What the helpers of a step return.                                      *)
LEMMA HelperTypes ==
  ASSUME KernelTypeOK, NEW s \in Subsystem, NEW c \in Cgroup
  PROVE  /\ Ancestors(c) \in SUBSET Cgroup
         /\ Children(s, c) \in SUBSET Cgroup
         /\ ProcsIn(s, c) \in SUBSET Pid
BY DEF KernelTypeOK, Ancestors, Children, ProcsIn

LEMMA ZeroTries == 0 \in 0 .. (WriteTries + RemoveTries)
BY HandleAssumption

LEMMA IdleType ==
  /\ Idle \in Call
  /\ Shape(Idle)
  /\ Held(Idle) = {}
BY TreeAssumption, HandleAssumption DEF Idle, Call, OpNames, Root, Shape, Held

-----------------------------------------------------------------------------
(* The four kinds of step a thread takes, by what they do to the mutexes:  *)
(* none, one lock, all unlocked on return, one unlocked.                   *)
LEMMA LocalStep ==
  ASSUME IInv, KernelTypeOK', NEW t \in Thread, NEW c \in Call, Becomes(t, c),
         Shape(c), Held(c) = Held(call[t]), UNCHANGED hvars
  PROVE  IInv'
BY DEF IInv, TypeOK, LockInv, Becomes, hvars

LEMMA LockStep ==
  ASSUME IInv, KernelTypeOK', NEW t \in Thread, NEW c \in Call, Becomes(t, c),
         NEW g \in Handle, Usable(g), Lock(t, g), UNCHANGED grp,
         Shape(c), Held(c) = Held(call[t]) \cup {g}
  PROVE  IInv'
BY HandleAssumption DEF IInv, TypeOK, LockInv, Becomes, Usable, Lock

LEMMA ReturnStep ==
  ASSUME IInv, KernelTypeOK', NEW t \in Thread, Return(t),
         grp' \in [Handle -> Grp],
         \A g \in Handle : grp[g].err = "nil" =>
            grp'[g].err = "nil" \/ g \in Held(call[t])
  PROVE  IInv'
BY HandleAssumption, IdleType DEF IInv, TypeOK, LockInv, Return, Becomes, UnlockAll

LEMMA ReleaseStep ==
  ASSUME IInv, KernelTypeOK', NEW t \in Thread, NEW c \in Call, Becomes(t, c),
         NEW g \in Held(call[t]), mu' = [mu EXCEPT ![g] = NoThread], UNCHANGED grp,
         Shape(c), Held(c) = Held(call[t]) \ {g}
  PROVE  IInv'
<1>1. g \in Handle /\ mu[g] = t
  BY DEF IInv, LockInv, Held
<1>2. QED
  BY <1>1, HandleAssumption DEF IInv, TypeOK, LockInv, Becomes

LEMMA KernelStep ==
  ASSUME IInv, Kernel
  PROVE  IInv'
<1>1. KernelTypeOK'
  BY DEF IInv, TypeOK, KernelTypeOK, Kernel, KernelNext, Fork, Wake, Exit, ProcState
<1>2. QED
  BY <1>1 DEF IInv, TypeOK, LockInv, Kernel, hvars

-----------------------------------------------------------------------------
LEMMA BeginPreserves ==
  ASSUME IInv, NEW t \in Thread, Begin(t)
  PROVE  IInv'
<1> USE HandleAssumption, IdleType
<1>k. KernelTypeOK'
  BY DEF IInv, TypeOK, KernelTypeOK, Begin, BeginNew, BeginLoad, BeginChild,
         BeginAdd, BeginDelete, State, BeginMoveTo, kvars
<1>1. ASSUME NEW p \in Paths, BeginNew(t, p) PROVE IInv'
  <2> DEFINE c == [Idle EXCEPT !.op = "new", !.path = p, !.todo = Subsystem]
  <2>1. c \in Call /\ Shape(c) /\ Held(c) = {}
    <3>1. c \in Call
      BY DEF Call, OpNames
    <3>2. Shape(c) /\ Held(c) = {}
      BY DEF Shape, Held, Idle
    <3>3. QED BY <3>1, <3>2
  <2>2. QED
    BY <1>k, <1>1, <2>1, LocalStep DEF BeginNew
<1>2. ASSUME NEW p \in Paths, BeginLoad(t, p) PROVE IInv'
  <2> DEFINE c == [Idle EXCEPT !.op = "load", !.path = p, !.todo = Subsystem]
  <2>1. c \in Call /\ Shape(c) /\ Held(c) = {}
    <3>1. c \in Call
      BY DEF Call, OpNames
    <3>2. Shape(c) /\ Held(c) = {}
      BY DEF Shape, Held, Idle
    <3>3. QED BY <3>1, <3>2
  <2>2. QED
    BY <1>k, <1>2, <2>1, LocalStep DEF BeginLoad
<1>3. ASSUME NEW h \in Handle, NEW n \in Names, BeginChild(t, h, n) PROVE IInv'
  <2> DEFINE c == [Idle EXCEPT !.op = "child", !.h = h, !.todo = grp[h].subs,
                               !.path = Append(grp[h].path, n)]
  <2>1. c \in Call
    BY <1>3, ZenonT(60) DEF BeginChild, IInv, TypeOK, Grp, Call, OpNames
  <2>2. Shape(c) /\ Held(c) = {h}
    BY DEF Shape, Held, Idle
  <2>3. QED
    BY <1>k, <1>3, <2>1, <2>2, LockStep DEF BeginChild
<1>4. ASSUME NEW h \in Handle, NEW p \in Pid, NEW f \in Filters, BeginAdd(t, h, p, f)
      PROVE  IInv'
  <2> DEFINE c == [Idle EXCEPT !.op = "add", !.at = "write", !.dst = h, !.pid = p,
                               !.subs = Filtered(h, f), !.wtodo = Filtered(h, f)]
  <2>f. Filtered(h, f) \in SUBSET Subsystem
    BY DEF IInv, TypeOK, Grp, Filtered
  <2>1. c \in Call
    BY <2>f DEF Call, OpNames
  <2>2. Shape(c) /\ Held(c) = {h}
    BY DEF Shape, Held, Idle
  <2>3. QED
    BY <1>k, <1>4, <2>1, <2>2, LockStep DEF BeginAdd
<1>5. ASSUME NEW h \in Handle, BeginDelete(t, h) PROVE IInv'
  <2> DEFINE c == [Idle EXCEPT !.op = "delete", !.at = "next", !.h = h,
                               !.path = grp[h].path, !.todo = grp[h].subs]
  <2>1. c \in Call
    BY DEF IInv, TypeOK, Grp, Call, OpNames
  <2>2. Shape(c) /\ Held(c) = {h}
    BY DEF Shape, Held, Idle
  <2>3. QED
    BY <1>k, <1>5, <2>1, <2>2, LockStep DEF BeginDelete
<1>6. ASSUME NEW h \in Handle, State(t, h) PROVE IInv'
  BY <1>k, <1>6 DEF State, Usable, IInv, TypeOK, LockInv, Grp
<1>7. ASSUME NEW h \in Handle, NEW d \in Handle, BeginMoveTo(t, h, d) PROVE IInv'
  <2> DEFINE c == [Idle EXCEPT !.op = "moveto", !.at = "next", !.h = h, !.dst = d,
                               !.path = grp[h].path, !.todo = grp[h].subs]
  <2>1. c \in Call
    BY DEF IInv, TypeOK, Grp, Call, OpNames
  <2>2. Shape(c) /\ Held(c) = {h}
    BY <1>7 DEF BeginMoveTo, Shape, Held, Idle
  <2>3. QED
    BY <1>k, <1>7, <2>1, <2>2, LockStep DEF BeginMoveTo
<1>8. QED
  BY <1>1, <1>2, <1>3, <1>4, <1>5, <1>6, <1>7 DEF Begin

-----------------------------------------------------------------------------
(* Creating and loading.                                                   *)
LEMMA CreatePreserves ==
  ASSUME IInv, NEW t \in Thread,
         \/ SkipInactive(t) \/ InitSubsystem(t) \/ InitFails(t) \/ LoadSubsystem(t)
         \/ \E h \in Handle : FinishNew(t, h) \/ FinishLoad(t, h)
  PROVE  IInv'
<1> USE HandleAssumption
<1>c. /\ call[t] \in Call /\ Shape(call[t]) /\ KernelTypeOK
      /\ grp \in [Handle -> Grp]
      /\ call[t].path \in Cgroup
  BY DEF IInv, TypeOK, LockInv, Call
<1>k. KernelTypeOK'
  <2>1. CASE UNCHANGED kvars
    BY <1>c, <2>1 DEF KernelTypeOK, kvars
  <2>2. CASE (\E s \in Subsystem : MkdirAll(s, call[t].path)) /\ UNCHANGED <<member, proc>>
    BY <1>c, <2>2, HelperTypes DEF KernelTypeOK, MkdirAll
  <2>3. QED
    BY <2>1, <2>2 DEF SkipInactive, InitSubsystem, InitFails, LoadSubsystem,
           FinishNew, FinishLoad, kvars
<1>1. CASE SkipInactive(t)
  <2>1. PICK s \in Inactive :
          IF s \in Required
          THEN Return(t)
          ELSE Becomes(t, [call[t] EXCEPT !.todo = @ \ {s}]) /\ UNCHANGED mu
    BY <1>1 DEF SkipInactive
  <2> DEFINE c == [call[t] EXCEPT !.todo = @ \ {s}]
  <2>2. c \in Call /\ Shape(c) /\ Held(c) = Held(call[t])
    BY <1>c DEF Call, Shape, Held
  <2>3. CASE s \in Required
    BY <1>c, <1>k, <1>1, <2>1, <2>3, ReturnStep DEF SkipInactive
  <2>4. CASE s \notin Required
    BY <1>k, <1>1, <2>1, <2>2, <2>4, LocalStep DEF SkipInactive, hvars
  <2>5. QED BY <2>3, <2>4
<1>2. CASE InitSubsystem(t)
  <2>1. PICK s \in Subsystem :
          Becomes(t, [call[t] EXCEPT !.todo = @ \ {s}, !.subs = @ \cup {s}])
    BY <1>2 DEF InitSubsystem
  <2> DEFINE c == [call[t] EXCEPT !.todo = @ \ {s}, !.subs = @ \cup {s}]
  <2>2. c \in Call /\ Shape(c) /\ Held(c) = Held(call[t])
    <3>1. c \in Call
      BY ZeroTries, <1>c DEF Call
    <3>2. Shape(c)
      BY <1>c DEF Shape, Call
    <3>3. Held(c) = Held(call[t])
      BY <1>c DEF Held, Call
    <3>4. QED BY <3>1, <3>2, <3>3
  <2>3. QED
    BY <1>k, <1>2, <2>1, <2>2, LocalStep DEF InitSubsystem
<1>3. CASE InitFails(t)
  BY <1>c, <1>k, <1>3, ReturnStep DEF InitFails
<1>4. CASE LoadSubsystem(t)
  <2>1. PICK s \in Subsystem :
          Becomes(t, [call[t] EXCEPT
                !.todo = @ \ {s},
                !.subs = IF call[t].path \in dirs[s] THEN @ \cup {s} ELSE @])
    BY <1>4 DEF LoadSubsystem
  <2> DEFINE c == [call[t] EXCEPT
                !.todo = @ \ {s},
                !.subs = IF call[t].path \in dirs[s] THEN @ \cup {s} ELSE @]
  <2>2. c \in Call /\ Shape(c) /\ Held(c) = Held(call[t])
    <3>1. c \in Call
      BY ZeroTries, <1>c DEF Call
    <3>2. Shape(c)
      BY <1>c DEF Shape, Call
    <3>3. Held(c) = Held(call[t])
      BY <1>c DEF Held, Call
    <3>4. QED BY <3>1, <3>2, <3>3
  <2>3. QED
    BY <1>k, <1>4, <2>1, <2>2, LocalStep DEF LoadSubsystem
<1>5. ASSUME NEW h \in Handle, FinishNew(t, h) PROVE IInv'
  <2>1. /\ grp' \in [Handle -> Grp]
        /\ \A g \in Handle : grp[g].err = "nil" => grp'[g].err = "nil"
    BY <1>c, <1>5 DEF FinishNew, Create, Grp, Call
  <2>2. QED
    BY <1>k, <1>5, <2>1, ReturnStep DEF FinishNew
<1>6. ASSUME NEW h \in Handle, FinishLoad(t, h) PROVE IInv'
  <2>1. /\ grp' \in [Handle -> Grp]
        /\ \A g \in Handle : grp[g].err = "nil" => grp'[g].err = "nil"
    <3>1. CASE call[t].subs = {}
      BY <1>c, <1>6, <3>1, SMTT(60) DEF FinishLoad
    <3>2. CASE call[t].subs # {}
      BY <1>c, <1>6, <3>2, SMTT(60) DEF FinishLoad, Create, Grp, Call
    <3>3. QED BY <3>1, <3>2
  <2>2. QED
    BY <1>k, <1>6, <2>1, ReturnStep DEF FinishLoad
<1>7. QED
  BY <1>1, <1>2, <1>3, <1>4, <1>5, <1>6

(* Writing pids, for Add and for the Add calls of MoveTo.                  *)
LEMMA WritePreserves ==
  ASSUME IInv, NEW t \in Thread,
         \/ WriteProcs(t) \/ RetryWrite(t) \/ ProcessGone(t) \/ WriteFails(t)
         \/ FinishAdd(t) \/ FinishOne(t)
  PROVE  IInv'
<1> USE HandleAssumption
<1>c. /\ call[t] \in Call /\ Shape(call[t]) /\ KernelTypeOK
      /\ grp \in [Handle -> Grp]
  BY DEF IInv, TypeOK, LockInv
<1>w. /\ call[t].op \in {"add", "moveto"} /\ call[t].at = "write"
      /\ call[t].pid \in Pid /\ call[t].dst \in Handle
      /\ Target(t) \in Cgroup
  <2>1. call[t].op \in {"add", "moveto"} /\ call[t].at = "write"
    BY DEF WriteProcs, RetryWrite, ProcessGone, WriteFails, FinishAdd, FinishOne,
           Writing, Added
  <2>2. QED
    BY <1>c, <2>1 DEF Shape, Target, Grp
<1>k. KernelTypeOK'
  <2>1. CASE UNCHANGED kvars
    BY <1>c, <2>1 DEF KernelTypeOK, kvars
  <2>2. CASE /\ \E s \in Subsystem : WritePid(call[t].pid, s, Target(t))
             /\ UNCHANGED <<dirs, proc>>
    BY <1>c, <1>w, <2>2 DEF KernelTypeOK, WritePid
  <2>3. QED
    BY <2>1, <2>2 DEF WriteProcs, RetryWrite, ProcessGone, WriteFails, FinishAdd,
           FinishOne
<1>1. CASE WriteProcs(t)
  <2>1. PICK s \in Subsystem :
          Becomes(t, [call[t] EXCEPT !.wtodo = @ \ {s}, !.tries = 0])
    BY <1>1 DEF WriteProcs
  <2> DEFINE c == [call[t] EXCEPT !.wtodo = @ \ {s}, !.tries = 0]
  <2>2. c \in Call /\ Shape(c) /\ Held(c) = Held(call[t])
    <3>1. c \in Call
      BY ZeroTries, <1>c DEF Call
    <3>2. Shape(c)
      BY <1>c DEF Shape, Call
    <3>3. Held(c) = Held(call[t])
      BY <1>c DEF Held, Call
    <3>4. QED BY <3>1, <3>2, <3>3
  <2>3. QED
    BY <1>k, <1>1, <2>1, <2>2, LocalStep DEF WriteProcs
<1>2. CASE RetryWrite(t)
  <2> DEFINE c == [call[t] EXCEPT !.tries = @ + 1]
  <2>1. c \in Call /\ Shape(c) /\ Held(c) = Held(call[t])
    BY <1>c, <1>2 DEF RetryWrite, Call, Shape, Held
  <2>2. QED
    BY <1>k, <1>2, <2>1, LocalStep DEF RetryWrite
<1>3. CASE ProcessGone(t)
  <2> DEFINE c == [call[t] EXCEPT !.at = "move", !.wtodo = {}, !.tries = 0,
                                  !.pid = 0, !.found = @ \ {call[t].pid}]
  <2>1. CASE call[t].op = "add"
    BY <1>c, <1>k, <1>3, <2>1, ReturnStep DEF ProcessGone
  <2>2. CASE call[t].op = "moveto"
    <3>1. c \in Call /\ Shape(c) /\ Held(c) = Held(call[t]) \ {call[t].dst}
          /\ call[t].dst \in Held(call[t])
      <4>1. c \in Call
        BY ZeroTries, <1>c DEF Call
      <4>2. Shape(c)
        BY <1>c, <1>w, <2>2 DEF Shape, Call
      <4>3. Held(c) = Held(call[t]) \ {call[t].dst} /\ call[t].dst \in Held(call[t])
        BY <1>c, <1>w, <2>2 DEF Held, Shape, Call
      <4>4. QED BY <4>1, <4>2, <4>3
    <3>2. QED
      BY <1>k, <1>3, <2>2, <3>1, ReleaseStep DEF ProcessGone
  <2>3. QED BY <1>w, <2>1, <2>2
<1>4. CASE WriteFails(t)
  BY <1>c, <1>k, <1>4, ReturnStep DEF WriteFails
<1>5. CASE FinishAdd(t)
  BY <1>c, <1>k, <1>5, ReturnStep DEF FinishAdd
<1>6. CASE FinishOne(t)
  <2> DEFINE c == [call[t] EXCEPT !.at = "move", !.pid = 0,
                                  !.found = @ \ {call[t].pid}]
  <2>1. c \in Call /\ Shape(c) /\ Held(c) = Held(call[t]) \ {call[t].dst}
        /\ call[t].dst \in Held(call[t])
    BY <1>c, <1>w, <1>6 DEF FinishOne, Call, Shape, Held
  <2>2. QED
    BY <1>k, <1>6, <2>1, ReleaseStep DEF FinishOne
<1>7. QED
  BY <1>1, <1>2, <1>3, <1>4, <1>5, <1>6

(* Walking a tree, and removing it.                                        *)
LEMMA DeletePreserves ==
  ASSUME IInv, NEW t \in Thread,
         \/ BeginWalk(t) \/ VisitDir(t) \/ DirVanished(t)
         \/ SkipBusy(t) \/ BeginRemove(t) \/ TryRemove(t) \/ FinishDelete(t)
  PROVE  IInv'
<1> USE HandleAssumption
<1>c. /\ call[t] \in Call /\ Shape(call[t]) /\ KernelTypeOK
      /\ grp \in [Handle -> Grp]
  BY DEF IInv, TypeOK, LockInv
<1>w. call[t].op \in {"delete", "moveto"} /\ call[t].at \in {"next", "walk", "remove"}
  BY DEF BeginWalk, VisitDir, DirVanished, SkipBusy, BeginRemove, TryRemove,
         FinishDelete, Walking, Walked, Doing
<1>k. KernelTypeOK'
  <2>1. CASE UNCHANGED kvars
    BY <1>c, <2>1 DEF KernelTypeOK, kvars
  <2>2. CASE /\ \E s \in Subsystem : RemoveAll(s, call[t].path)
             /\ UNCHANGED <<member, proc>>
    BY <1>c, <2>2 DEF KernelTypeOK, RemoveAll
  <2>3. QED
    BY <2>1, <2>2 DEF BeginWalk, VisitDir, DirVanished, SkipBusy, BeginRemove,
           TryRemove, FinishDelete
<1>1. CASE BeginWalk(t)
  <2> DEFINE c == [call[t] EXCEPT !.at = "walk", !.pend = {call[t].path}]
  <2>1. c \in Call /\ Shape(c) /\ Held(c) = Held(call[t])
    BY <1>c, <1>w, ZenonT(60) DEF Call, Shape, Held
  <2>2. QED
    BY <1>k, <1>1, <2>1, LocalStep DEF BeginWalk
<1>2. CASE VisitDir(t)
  <2>1. PICK s \in Subsystem, d \in call[t].pend :
          Becomes(t, [call[t] EXCEPT !.pend = (@ \ {d}) \cup Children(s, d),
                                     !.found = @ \cup ProcsIn(s, d)])
    BY <1>2 DEF VisitDir
  <2> DEFINE c == [call[t] EXCEPT !.pend = (@ \ {d}) \cup Children(s, d),
                                  !.found = @ \cup ProcsIn(s, d)]
  <2>2. d \in Cgroup
    BY <1>c DEF Call
  <2>v. /\ (call[t].pend \ {d}) \cup Children(s, d) \in SUBSET Cgroup
        /\ call[t].found \cup ProcsIn(s, d) \in SUBSET Pid
    BY <1>c, <2>2, HelperTypes DEF Call
  <2>3. c \in Call /\ Shape(c) /\ Held(c) = Held(call[t])
    <3>1. c \in Call
      BY <1>c, <2>v DEF Call
    <3>2. Shape(c)
      BY <1>c, <1>w DEF Shape, Call
    <3>3. Held(c) = Held(call[t])
      BY <1>c DEF Held, Call
    <3>4. QED BY <3>1, <3>2, <3>3
  <2>4. QED
    BY <1>k, <1>2, <2>1, <2>3, LocalStep DEF VisitDir
<1>3. CASE DirVanished(t)
  <2>1. PICK s \in Subsystem :
          IF call[t].op = "delete"
          THEN /\ Becomes(t, NextSubsystem([call[t] EXCEPT !.todo = @ \ {s}]))
               /\ UNCHANGED mu
          ELSE Return(t)
    BY <1>3 DEF DirVanished
  <2> DEFINE c == NextSubsystem([call[t] EXCEPT !.todo = @ \ {s}])
  <2>2. c \in Call /\ Shape(c) /\ Held(c) = Held(call[t])
    <3>1. c \in Call
      BY <1>c, <1>w DEF NextSubsystem, Call
    <3>2. Shape(c)
      BY <1>c, <1>w DEF NextSubsystem, Call, Shape
    <3>3. Held(c) = Held(call[t])
      BY <1>c, <1>w DEF NextSubsystem, Call, Held
    <3>4. QED BY <3>1, <3>2, <3>3
  <2>3. CASE call[t].op = "delete"
    BY <1>k, <1>3, <2>1, <2>2, <2>3, LocalStep DEF DirVanished, hvars
  <2>4. CASE call[t].op # "delete"
    BY <1>c, <1>k, <1>3, <2>1, <2>4, ReturnStep DEF DirVanished
  <2>5. QED BY <2>3, <2>4
<1>4. CASE SkipBusy(t)
  <2>1. PICK s \in Subsystem :
          Becomes(t, NextSubsystem([call[t] EXCEPT !.todo = @ \ {s}, !.errs = TRUE]))
    BY <1>4 DEF SkipBusy
  <2> DEFINE c == NextSubsystem([call[t] EXCEPT !.todo = @ \ {s}, !.errs = TRUE])
  <2>2. c \in Call /\ Shape(c) /\ Held(c) = Held(call[t])
    <3>1. c \in Call
      BY <1>c, <1>w DEF NextSubsystem, Call
    <3>2. Shape(c)
      BY <1>c, <1>w DEF NextSubsystem, Call, Shape
    <3>3. Held(c) = Held(call[t])
      BY <1>c, <1>w DEF NextSubsystem, Call, Held
    <3>4. QED BY <3>1, <3>2, <3>3
  <2>3. QED
    BY <1>k, <1>4, <2>1, <2>2, LocalStep DEF SkipBusy
<1>5. CASE BeginRemove(t)
  <2> DEFINE c == [call[t] EXCEPT !.at = "remove", !.tries = 0]
  <2>1. c \in Call /\ Shape(c) /\ Held(c) = Held(call[t])
    <3>1. c \in Call
      BY ZeroTries, <1>c, <1>w, <1>5 DEF BeginRemove, Call
    <3>2. Shape(c)
      BY <1>c, <1>w, <1>5 DEF BeginRemove, Shape, Call
    <3>3. Held(c) = Held(call[t])
      BY <1>c, <1>w, <1>5 DEF BeginRemove, Held, Call
    <3>4. QED BY <3>1, <3>2, <3>3
  <2>2. QED
    BY <1>k, <1>5, <2>1, LocalStep DEF BeginRemove
<1>6. CASE TryRemove(t)
  <2> DEFINE done(s) == call[t].path \notin dirs[s] \ Removable(s, call[t].path)
             last == call[t].tries + 1 >= RemoveTries
             next(s) == NextSubsystem([call[t] EXCEPT
                           !.todo = @ \ {s}, !.tries = 0, !.errs = @ \/ ~done(s)])
             again == [call[t] EXCEPT !.tries = @ + 1]
  <2> HIDE DEF done
  <2>1. PICK s \in Subsystem :
          Becomes(t, IF done(s) \/ last THEN next(s) ELSE again)
    BY <1>6 DEF TryRemove, done
  <2>2. next(s) \in Call /\ Shape(next(s)) /\ Held(next(s)) = Held(call[t])
    <3>1. (call[t].errs \/ ~done(s)) \in BOOLEAN
      OBVIOUS
    <3>2. next(s) \in Call
      BY ZeroTries, <1>c, <3>1, ZenonT(60) DEF NextSubsystem, Call
    <3>3. Shape(next(s)) /\ Held(next(s)) = Held(call[t])
      BY <1>c, <1>w DEF NextSubsystem, Call, Shape, Held
    <3>4. QED BY <3>2, <3>3
  <2>3. ~last => again \in Call /\ Shape(again) /\ Held(again) = Held(call[t])
    BY <1>c, <1>w DEF Call, Shape, Held
  <2>4. QED
    BY <1>k, <1>6, <2>1, <2>2, <2>3, LocalStep DEF TryRemove
<1>7. CASE FinishDelete(t)
  <2>1. call[t].h \in Held(call[t]) /\ call[t].h \in Handle
    BY <1>c, <1>7 DEF FinishDelete, Doing, Shape, Held
  <2>2. /\ grp' \in [Handle -> Grp]
        /\ \A g \in Handle : grp[g].err = "nil" =>
              grp'[g].err = "nil" \/ g = call[t].h
    BY <1>c, <1>7, <2>1 DEF FinishDelete, Grp
  <2>3. QED
    BY <1>k, <1>7, <2>1, <2>2, ReturnStep DEF FinishDelete
<1>8. QED
  BY <1>1, <1>2, <1>3, <1>4, <1>5, <1>6, <1>7

(* Moving the processes of a cgroup.                                       *)
LEMMA MovePreserves ==
  ASSUME IInv, NEW t \in Thread,
         \/ BeginMoving(t) \/ NextProcess(t) \/ LockDestination(t)
         \/ FinishSubsystem(t) \/ FinishMoveTo(t)
  PROVE  IInv'
<1> USE HandleAssumption
<1>c. /\ call[t] \in Call /\ Shape(call[t]) /\ KernelTypeOK
      /\ grp \in [Handle -> Grp]
  BY DEF IInv, TypeOK, LockInv
<1>w. call[t].op = "moveto" /\ call[t].dst \in Handle
  BY <1>c DEF BeginMoving, NextProcess, LockDestination, FinishSubsystem,
         FinishMoveTo, Doing, Shape
<1>k. KernelTypeOK'
  BY <1>c DEF KernelTypeOK, BeginMoving, NextProcess, LockDestination,
         FinishSubsystem, FinishMoveTo, kvars
<1>1. CASE BeginMoving(t)
  <2> DEFINE c == [call[t] EXCEPT !.at = "move"]
  <2>1. call[t].at = "walk"
    BY <1>1 DEF BeginMoving, Walked, Walking
  <2>2. c \in Call /\ Shape(c) /\ Held(c) = Held(call[t])
    BY <1>c, <1>w, <2>1 DEF Call, Shape, Held
  <2>3. QED
    BY <1>k, <1>1, <2>2, LocalStep DEF BeginMoving
<1>2. CASE NextProcess(t)
  <2>1. PICK p \in call[t].found : Becomes(t, [call[t] EXCEPT !.at = "lock", !.pid = p])
    BY <1>2 DEF NextProcess
  <2> DEFINE c == [call[t] EXCEPT !.at = "lock", !.pid = p]
  <2>2. p \in Pid /\ call[t].at = "move"
    BY <1>c, <1>2 DEF NextProcess, Doing, Call
  <2>3. c \in Call /\ Shape(c) /\ Held(c) = Held(call[t])
    BY <1>c, <1>w, <2>2, ZenonT(60) DEF Call, Shape, Held
  <2>4. QED
    BY <1>k, <1>2, <2>1, <2>3, LocalStep DEF NextProcess
<1>3. CASE LockDestination(t)
  <2> DEFINE d == call[t].dst
             c == [call[t] EXCEPT !.at = "write", !.tries = 0, !.wtodo = grp[d].subs]
  <2>1. call[t].at = "lock" /\ mu[d] = NoThread
    BY <1>3 DEF LockDestination, Doing
  <2>2. CASE grp[d].err = "nil"
    <3>1. c \in Call
      <4>1. grp[d].subs \in SUBSET Subsystem
        BY <1>c, <1>w DEF Grp
      <4>2. QED BY <4>1, ZeroTries, <1>c DEF Call
    <3>2. call[t].h \in Held(call[t]) /\ call[t].h # d
      BY <1>c, <1>w, <2>1 DEF Held, Shape, IInv, LockInv
    <3>3. Shape(c) /\ Held(c) = Held(call[t]) \cup {d}
      BY <1>c, <1>w, <2>1, <3>2 DEF Call, Shape, Held
    <3>4. QED
      BY <1>k, <1>w, <1>3, <2>1, <2>2, <3>1, <3>3, LockStep DEF LockDestination, Usable
  <2>3. CASE grp[d].err # "nil"
    BY <1>c, <1>k, <1>3, <2>3, ReturnStep DEF LockDestination
  <2>4. QED BY <2>2, <2>3
<1>4. CASE FinishSubsystem(t)
  <2>1. PICK s \in Subsystem :
          Becomes(t, NextSubsystem([call[t] EXCEPT !.todo = @ \ {s}]))
    BY <1>4 DEF FinishSubsystem
  <2> DEFINE c == NextSubsystem([call[t] EXCEPT !.todo = @ \ {s}])
  <2>2. call[t].at = "move"
    BY <1>4 DEF FinishSubsystem, Doing
  <2>3. c \in Call /\ Shape(c) /\ Held(c) = Held(call[t])
    BY <1>c, <1>w, <2>2 DEF NextSubsystem, Call, Shape, Held
  <2>4. QED
    BY <1>k, <1>4, <2>1, <2>3, LocalStep DEF FinishSubsystem
<1>5. CASE FinishMoveTo(t)
  BY <1>c, <1>k, <1>5, ReturnStep DEF FinishMoveTo
<1>6. QED
  BY <1>1, <1>2, <1>3, <1>4, <1>5

-----------------------------------------------------------------------------
LEMMA InitIInv == Init => IInv
<1> SUFFICES ASSUME Init PROVE IInv
  OBVIOUS
<1>1. KernelTypeOK
  BY TreeAssumption DEF Init, KernelInit, KernelTypeOK, ProcState
<1>2. grp \in [Handle -> Grp]
  BY TreeAssumption DEF Init, FreeGrp, Grp
<1>3. QED
  BY <1>1, <1>2, IdleType, HandleAssumption DEF Init, IInv, TypeOK, LockInv

LEMMA StepIInv == IInv /\ [Next]_vars => IInv'
<1> SUFFICES ASSUME IInv, [Next]_vars PROVE IInv'
  OBVIOUS
<1>1. CASE Kernel
  BY <1>1, KernelStep
<1>2. ASSUME NEW t \in Thread, Begin(t) PROVE IInv'
  BY <1>2, BeginPreserves
<1>3. ASSUME NEW t \in Thread, Step(t) PROVE IInv'
  BY <1>3, CreatePreserves, WritePreserves, DeletePreserves, MovePreserves DEF Step
<1>4. ASSUME NEW t \in Thread, LockDestination(t) PROVE IInv'
  BY <1>4, MovePreserves
<1>5. CASE UNCHANGED vars
  BY <1>5 DEF vars, IInv, TypeOK, KernelTypeOK, LockInv
<1>6. QED
  BY <1>1, <1>2, <1>3, <1>4, <1>5 DEF Next

LEMMA Invariance == Spec => []IInv
BY InitIInv, StepIInv, PTL DEF Spec

(* Every variable keeps its type, and no retry loop runs past its limit.   *)
THEOREM TypeCorrect == Spec => []TypeOK
<1>1. IInv => TypeOK
  BY DEF IInv
<1>2. QED
  BY <1>1, Invariance, PTL

(* No call is inside a handle that says deleted: whoever holds c.mu of a   *)
(* handle found its c.err nil, and only the holder sets it.                *)
THEOREM DeletedHandlesAreIdle == Spec => []DeletedHandleIdle
<1>1. IInv => DeletedHandleIdle
  BY DEF IInv, LockInv, DeletedHandleIdle
<1>2. QED
  BY <1>1, Invariance, PTL

(* When the MoveTo calls of the program form no cycle of handles, no set   *)
(* of goroutines is deadlocked on the handles' mutexes.                    *)
THEOREM NoDeadlock ==
  ASSUME MovesAcyclic
  PROVE  Spec => []NoDeadlockedSet
<1>1. IInv => NoDeadlockedSet
  <2> SUFFICES ASSUME IInv,
                      NEW S \in SUBSET Thread, S # {},
                      \A t \in S : Waiting(t) /\ mu[call[t].dst] \in S
               PROVE  FALSE
    BY DEF NoDeadlockedSet
  <2> DEFINE H == {call[t].h : t \in S}
  <2>1. \A t \in S : /\ call[t].op = "moveto" /\ call[t].at = "lock"
                     /\ call[t].h \in Handle /\ call[t].dst \in Handle
                     /\ <<call[t].h, call[t].dst>> \in Moves
    BY DEF Waiting, Doing, IInv, LockInv, Shape
  <2>2. H \in (SUBSET Handle) \ {{}}
    BY <2>1
  <2>3. PICK h \in H : \A d \in H : <<h, d>> \notin Moves
    BY <2>2 DEF MovesAcyclic
  <2>4. PICK t \in S : h = call[t].h
    OBVIOUS
  <2>5. PICK u \in S : mu[call[t].dst] = u
    OBVIOUS
  <2>6. call[t].dst = call[u].h
    <3>1. u \in Thread /\ call[t].dst \in Handle
      BY <2>1
    <3>2. call[t].dst \in Held(call[u])
      BY <3>1, <2>5 DEF IInv, LockInv
    <3>3. QED
      BY <2>1, <3>2 DEF Held
  <2>7. QED
    BY <2>1, <2>3, <2>4, <2>6
<1>2. QED
  BY <1>1, Invariance, PTL

-----------------------------------------------------------------------------
(* Delete.  While nobody creates cgroups the trees only shrink, so what a  *)
(* Delete has found absent or removed stays absent until it returns.       *)
GoneCall(t) ==
    /\ call[t].op \notin {"new", "child"}
    /\ call[t].op = "load" => call[t].path \in Paths
    /\ call[t].op = "delete" =>
          /\ call[t].path = grp[call[t].h].path
          /\ call[t].pend \subseteq {call[t].path}
          /\ ~call[t].errs => \A s \in grp[call[t].h].subs \ call[t].todo :
                                 call[t].path \notin dirs[s]

GoneInv ==
    /\ \A h \in Handle : grp[h].err # "free" => grp[h].path \in Paths
    /\ \A t \in Thread : GoneCall(t)
    /\ DeletedIsGone

DirsShrink == \A s \in Subsystem : dirs'[s] \subseteq dirs[s]

GrpStable ==
    \A h \in Handle : grp[h].err # "free" =>
        grp'[h].err # "free" /\ grp'[h].path = grp[h].path /\ grp'[h].subs = grp[h].subs

LEMMA DeleteOwns ==
  ASSUME IInv, NEW t \in Thread, call[t].op = "delete"
  PROVE  /\ call[t].h \in Handle /\ call[t].h \in Held(call[t])
         /\ grp[call[t].h].err = "nil"
         /\ grp[call[t].h].subs \subseteq Subsystem
<1>1. call[t].h \in Handle
  BY DEF IInv, LockInv, Shape
<1>2. call[t].h \in Held(call[t])
  BY <1>1 DEF Held
<1>3. mu[call[t].h] = t
  BY <1>1, <1>2 DEF IInv, LockInv
<1>4. QED
  BY <1>1, <1>2, <1>3, HandleAssumption DEF IInv, LockInv, TypeOK, Grp

(* The calls of the other threads keep what they know.                     *)
LEMMA OthersGone ==
  ASSUME IInv, GoneInv, DirsShrink, GrpStable,
         NEW u \in Thread, call'[u] = call[u]
  PROVE  GoneCall(u)'
<1>1. call[u].op = "delete" =>
        /\ call[u].h \in Handle /\ grp[call[u].h].err # "free"
        /\ grp[call[u].h].subs \subseteq Subsystem
  BY DeleteOwns
<1>2. QED
  BY <1>1 DEF GoneInv, GoneCall, DirsShrink, GrpStable

(* What a step leaves to show: the call of its own thread, and the handles *)
(* it marks deleted.                                                       *)
LEMMA GoneStep ==
  ASSUME IInv, GoneInv, DirsShrink, GrpStable, NEW t \in Thread, NEW c \in Call,
         Becomes(t, c), GoneCall(t)',
         \A h \in Handle : grp[h].err = "free" /\ grp'[h].err # "free" =>
            grp'[h].err = "nil" /\ grp'[h].path \in Paths,
         \A h \in Handle : grp'[h].err = "deleted" /\ grp[h].err = "nil" =>
            \A s \in grp[h].subs : grp[h].path \notin dirs[s]
  PROVE  GoneInv'
<1>1. \A u \in Thread : GoneCall(u)'
  BY OthersGone DEF Becomes, IInv, TypeOK
<1>2. \A h \in Handle : grp'[h].err # "free" => grp'[h].path \in Paths
  BY DEF GoneInv, GrpStable
<1>3. ASSUME NEW h \in Handle, grp'[h].err = "deleted", NEW s \in grp'[h].subs
      PROVE  grp'[h].path \notin dirs'[s]
  <2>1. grp[h] \in Grp /\ grp[h].err \in {"nil", "deleted"}
    BY <1>3 DEF IInv, TypeOK, Grp
  <2>2. grp'[h].path = grp[h].path /\ grp'[h].subs = grp[h].subs
    BY <2>1 DEF GrpStable
  <2>3. s \in grp[h].subs /\ s \in Subsystem
    BY <1>3, <2>1, <2>2 DEF Grp
  <2>4. grp[h].path \notin dirs[s]
    BY <1>3, <2>1, <2>3 DEF GoneInv, DeletedIsGone
  <2>5. QED
    BY <2>2, <2>3, <2>4 DEF DirsShrink
<1>4. QED
  BY <1>1, <1>2, <1>3 DEF GoneInv, DeletedIsGone

LEMMA SameGrp == UNCHANGED grp => GrpStable
BY DEF GrpStable

LEMMA SameDirs == UNCHANGED dirs => DirsShrink
BY DEF DirsShrink

(* A thread leaving Delete, or never in it.                                *)
LEMMA IdleGone ==
  ASSUME NEW t \in Thread, IInv, Return(t)
  PROVE  GoneCall(t)'
BY DEF GoneCall, Return, Becomes, Idle, IInv, TypeOK

LEMMA BeginGone ==
  ASSUME NoRecreation, IInv, GoneInv, NEW t \in Thread, Begin(t)
  PROVE  GoneInv'
<1> USE HandleAssumption, IdleType DEF NoRecreation
<1>1. ASSUME NEW p \in Paths, BeginLoad(t, p) PROVE GoneInv'
  <2> DEFINE c == [Idle EXCEPT !.op = "load", !.path = p, !.todo = Subsystem]
  <2>1. c \in Call
    BY DEF Call, OpNames
  <2>2. GoneCall(t)'
    BY <1>1 DEF BeginLoad, Becomes, GoneCall, IInv, TypeOK, Idle
  <2>3. UNCHANGED <<dirs, grp>>
    BY <1>1 DEF BeginLoad, kvars, hvars
  <2>4. QED
    BY <1>1, <2>1, <2>2, <2>3, GoneStep, SameGrp, SameDirs DEF BeginLoad
<1>2. ASSUME NEW h \in Handle, NEW p \in Pid, NEW f \in Filters, BeginAdd(t, h, p, f)
      PROVE  GoneInv'
  <2> DEFINE c == [Idle EXCEPT !.op = "add", !.at = "write", !.dst = h, !.pid = p,
                               !.subs = Filtered(h, f), !.wtodo = Filtered(h, f)]
  <2>f. Filtered(h, f) \in SUBSET Subsystem
    BY DEF IInv, TypeOK, Grp, Filtered
  <2>1. c \in Call
    BY <2>f DEF Call, OpNames
  <2>2. GoneCall(t)'
    BY <1>2 DEF BeginAdd, Becomes, GoneCall, IInv, TypeOK, Idle
  <2>3. UNCHANGED <<dirs, grp>>
    BY <1>2 DEF BeginAdd, kvars
  <2>4. QED
    BY <1>2, <2>1, <2>2, <2>3, GoneStep, SameGrp, SameDirs DEF BeginAdd
<1>3. ASSUME NEW h \in Handle, BeginDelete(t, h) PROVE GoneInv'
  <2> DEFINE c == [Idle EXCEPT !.op = "delete", !.at = "next", !.h = h,
                               !.path = grp[h].path, !.todo = grp[h].subs]
  <2>1. c \in Call
    BY DEF IInv, TypeOK, Grp, Call, OpNames
  <2>2. UNCHANGED <<dirs, grp>> /\ call'[t] = c
    BY <1>3 DEF BeginDelete, kvars, Becomes, IInv, TypeOK
  <2>3. GoneCall(t)'
    BY <2>2 DEF GoneCall, Idle
  <2>4. QED
    BY <1>3, <2>1, <2>2, <2>3, GoneStep, SameGrp, SameDirs DEF BeginDelete
<1>4. ASSUME NEW h \in Handle, NEW d \in Handle, BeginMoveTo(t, h, d) PROVE GoneInv'
  <2> DEFINE c == [Idle EXCEPT !.op = "moveto", !.at = "next", !.h = h, !.dst = d,
                               !.path = grp[h].path, !.todo = grp[h].subs]
  <2>1. c \in Call
    BY DEF IInv, TypeOK, Grp, Call, OpNames
  <2>2. GoneCall(t)'
    BY <1>4 DEF BeginMoveTo, Becomes, GoneCall, IInv, TypeOK, Idle
  <2>3. UNCHANGED <<dirs, grp>>
    BY <1>4 DEF BeginMoveTo, kvars
  <2>4. QED
    BY <1>4, <2>1, <2>2, <2>3, GoneStep, SameGrp, SameDirs DEF BeginMoveTo
<1>5. QED
  BY <1>1, <1>2, <1>3, <1>4 DEF Begin, BeginNew, BeginChild, State

(* A step inside a Delete that leaves the handles alone.                   *)
LEMMA DeleteStepGone ==
  ASSUME IInv, GoneInv, IInv', DirsShrink, UNCHANGED grp,
         NEW t \in Thread, call[t].op = "delete", NEW c \in Call, Becomes(t, c),
         c.op = "delete", c.h = call[t].h, c.path = call[t].path,
         c.pend \subseteq {c.path},
         ~c.errs => \A s \in grp[c.h].subs \ c.todo : c.path \notin dirs'[s]
  PROVE  GoneInv'
<1>1. call'[t] = c
  BY DEF Becomes, IInv, TypeOK
<1>2. GoneCall(t)'
  BY <1>1 DEF GoneCall, GoneInv
<1>3. QED
  BY <1>2, GoneStep, SameGrp

(* A step of any other call that creates nothing.                          *)
LEMMA OtherStepGone ==
  ASSUME IInv, GoneInv, NEW t \in Thread, UNCHANGED <<dirs, grp>>,
         NEW c \in Call, Becomes(t, c), c.op \notin {"new", "child", "delete"},
         c.op = "load" => c.path = call[t].path /\ call[t].op = "load"
  PROVE  GoneInv'
<1>1. call'[t] = c
  BY DEF Becomes, IInv, TypeOK
<1>2. GoneCall(t)'
  BY <1>1 DEF GoneCall, GoneInv
<1>3. QED
  BY <1>2, GoneStep, SameGrp, SameDirs

LEMMA ReturnGone ==
  ASSUME IInv, GoneInv, NEW t \in Thread, UNCHANGED <<dirs, grp>>, Return(t)
  PROVE  GoneInv'
BY IdleType, OtherStepGone DEF Return, Idle

LEMMA LoadGone ==
  ASSUME IInv, GoneInv, NEW t \in Thread,
         \/ SkipInactive(t) \/ InitSubsystem(t) \/ InitFails(t) \/ LoadSubsystem(t)
         \/ \E h \in Handle : FinishNew(t, h) \/ FinishLoad(t, h)
  PROVE  GoneInv'
<1>c. call[t] \in Call /\ call[t].op \notin {"new", "child"}
  BY DEF IInv, TypeOK, GoneInv, GoneCall
<1>1. CASE SkipInactive(t)
  <2>1. PICK s \in Inactive :
          IF s \in Required
          THEN Return(t)
          ELSE Becomes(t, [call[t] EXCEPT !.todo = @ \ {s}]) /\ UNCHANGED mu
    BY <1>1 DEF SkipInactive
  <2> DEFINE c == [call[t] EXCEPT !.todo = @ \ {s}]
  <2>2. c \in Call /\ c.op = call[t].op /\ c.path = call[t].path
    BY <1>c DEF Call
  <2>3. UNCHANGED <<dirs, grp>> /\ call[t].op = "load"
    BY <1>c, <1>1 DEF SkipInactive, kvars
  <2>4. QED
    BY <2>1, <2>2, <2>3, ReturnGone, OtherStepGone
<1>2. CASE LoadSubsystem(t)
  <2>1. PICK s \in Subsystem :
          Becomes(t, [call[t] EXCEPT
                !.todo = @ \ {s},
                !.subs = IF call[t].path \in dirs[s] THEN @ \cup {s} ELSE @])
    BY <1>2 DEF LoadSubsystem
  <2> DEFINE c == [call[t] EXCEPT
                !.todo = @ \ {s},
                !.subs = IF call[t].path \in dirs[s] THEN @ \cup {s} ELSE @]
  <2>2. c \in Call
    BY <1>c DEF Call
  <2>3. c.op = call[t].op /\ c.path = call[t].path
    BY <1>c DEF Call
  <2>4. UNCHANGED <<dirs, grp>> /\ call[t].op = "load"
    BY <1>2 DEF LoadSubsystem, kvars, hvars
  <2>5. QED
    BY <2>1, <2>2, <2>3, <2>4, OtherStepGone
<1>3. ASSUME NEW h \in Handle, FinishLoad(t, h) PROVE GoneInv'
  <2>1. UNCHANGED dirs /\ call[t].op = "load" /\ Return(t)
    BY <1>3 DEF FinishLoad, kvars
  <2>2. call[t].path \in Paths
    BY <2>1 DEF GoneInv, GoneCall
  <2>3. /\ GrpStable
        /\ \A g \in Handle : grp'[g] # grp[g] =>
              grp[g].err = "free" /\ grp'[g].err = "nil" /\ grp'[g].path = call[t].path
    BY <1>3 DEF FinishLoad, Create, GrpStable, IInv, TypeOK
  <2>4. \A g \in Handle : grp[g].err = "free" /\ grp'[g].err # "free" =>
            grp'[g].err = "nil" /\ grp'[g].path \in Paths
    BY <2>2, <2>3
  <2>5. \A g \in Handle : ~(grp'[g].err = "deleted" /\ grp[g].err = "nil")
    BY <2>3
  <2>6. QED
    BY <2>1, <2>3, <2>4, <2>5, IdleType, IdleGone, SameDirs, GoneStep DEF Return
<1>4. QED
  BY <1>c, <1>1, <1>2, <1>3 DEF InitSubsystem, InitFails, FinishNew, Creating

LEMMA WriteGone ==
  ASSUME IInv, IInv', GoneInv, NEW t \in Thread,
         \/ WriteProcs(t) \/ RetryWrite(t) \/ ProcessGone(t) \/ WriteFails(t)
         \/ FinishAdd(t) \/ FinishOne(t)
         \/ BeginMoving(t) \/ NextProcess(t) \/ LockDestination(t)
         \/ FinishSubsystem(t) \/ FinishMoveTo(t)
  PROVE  GoneInv'
<1>c. call[t] \in Call /\ call'[t] \in Call
  BY DEF IInv, TypeOK
<1>1. UNCHANGED <<dirs, grp>>
  BY DEF WriteProcs, RetryWrite, ProcessGone, WriteFails, FinishAdd, FinishOne,
         BeginMoving, NextProcess, LockDestination, FinishSubsystem, FinishMoveTo,
         kvars, hvars
<1>2. call[t].op \in {"add", "moveto"}
  BY DEF WriteProcs, RetryWrite, ProcessGone, WriteFails, FinishAdd, FinishOne,
         BeginMoving, NextProcess, LockDestination, FinishSubsystem, FinishMoveTo,
         Writing, Doing
<1>s. t \in DOMAIN call
  BY DEF IInv, TypeOK
<1>3. Return(t) \/ \E c : Becomes(t, c) /\ c.op = call[t].op
  <2> USE <1>c DEF Call
  <2>1. CASE WriteProcs(t)
    <3>1. PICK s \in Subsystem : Becomes(t, [call[t] EXCEPT !.wtodo = @ \ {s}, !.tries = 0])
      BY <2>1 DEF WriteProcs
    <3>2. [call[t] EXCEPT !.wtodo = @ \ {s}, !.tries = 0].op = call[t].op
      OBVIOUS
    <3>3. QED BY <3>1, <3>2
  <2>2. CASE RetryWrite(t)
    <3>1. [call[t] EXCEPT !.tries = @ + 1].op = call[t].op
      OBVIOUS
    <3>2. QED BY <2>2, <3>1 DEF RetryWrite
  <2>3. CASE ProcessGone(t)
    <3>1. [call[t] EXCEPT !.at = "move", !.wtodo = {}, !.tries = 0, !.pid = 0,
                          !.found = @ \ {call[t].pid}].op = call[t].op
      OBVIOUS
    <3>2. QED BY <2>3, <3>1 DEF ProcessGone
  <2>4. CASE WriteFails(t) \/ FinishAdd(t) \/ FinishMoveTo(t)
    BY <2>4 DEF WriteFails, FinishAdd, FinishMoveTo
  <2>5. CASE BeginMoving(t)
    <3>1. [call[t] EXCEPT !.at = "move"].op = call[t].op
      OBVIOUS
    <3>2. QED BY <2>5, <3>1 DEF BeginMoving
  <2>6. CASE NextProcess(t)
    <3>1. \A q : [call[t] EXCEPT !.at = "lock", !.pid = q].op = call[t].op
      OBVIOUS
    <3>2. QED BY <2>6, <3>1 DEF NextProcess
  <2>7. CASE FinishOne(t)
    <3>1. [call[t] EXCEPT !.at = "move", !.pid = 0, !.found = @ \ {call[t].pid}].op
            = call[t].op
      OBVIOUS
    <3>2. QED BY <2>7, <3>1 DEF FinishOne
  <2>8. CASE LockDestination(t)
    <3>1. [call[t] EXCEPT !.at = "write", !.tries = 0,
                          !.wtodo = grp[call[t].dst].subs].op = call[t].op
      OBVIOUS
    <3>2. QED BY <2>8, <3>1 DEF LockDestination
  <2>9. CASE FinishSubsystem(t)
    <3>1. \A s : NextSubsystem([call[t] EXCEPT !.todo = @ \ {s}]).op = call[t].op
      BY DEF NextSubsystem
    <3>2. QED BY <2>9, <3>1 DEF FinishSubsystem
  <2>10. QED
    BY <2>1, <2>2, <2>3, <2>4, <2>5, <2>6, <2>7, <2>8, <2>9
<1>4. \A c : Becomes(t, c) => c \in Call
  BY <1>c, <1>s DEF Becomes
<1>5. QED
  BY <1>1, <1>2, <1>3, <1>4, ReturnGone, OtherStepGone

(* The steps of Delete: a subsystem leaves todo, with errs still FALSE,    *)
(* only when the walk began at a missing directory or the removal took it. *)
LEMMA DeleteGone ==
  ASSUME LeafPaths, IInv, IInv', GoneInv, NEW t \in Thread,
         \/ BeginWalk(t) \/ VisitDir(t) \/ DirVanished(t)
         \/ SkipBusy(t) \/ BeginRemove(t) \/ TryRemove(t) \/ FinishDelete(t)
  PROVE  GoneInv'
<1>c. /\ call[t] \in Call /\ call'[t] \in Call
      /\ t \in DOMAIN call /\ dirs \in [Subsystem -> SUBSET Cgroup]
  BY DEF IInv, TypeOK, KernelTypeOK
<1>g. call[t].op = "delete" =>
        /\ call[t].path = grp[call[t].h].path
        /\ call[t].pend \subseteq {call[t].path}
        /\ ~call[t].errs => \A s \in grp[call[t].h].subs \ call[t].todo :
                               call[t].path \notin dirs[s]
        /\ call[t].path \in Paths
        /\ grp[call[t].h].subs \subseteq Subsystem
  BY DeleteOwns DEF GoneInv, GoneCall
<1>m. CASE call[t].op # "delete"
  <2>1. call[t].op = "moveto" /\ UNCHANGED <<dirs, grp>>
    BY <1>m DEF BeginWalk, VisitDir, DirVanished, SkipBusy, BeginRemove, TryRemove,
           FinishDelete, Walking, Walked, Doing, kvars, hvars
  <2>2. Return(t) \/ (call'[t].op = "moveto" /\ Becomes(t, call'[t]))
    BY <1>c, <2>1 DEF BeginWalk, VisitDir, DirVanished, SkipBusy, BeginRemove,
           TryRemove, FinishDelete, Doing, Becomes, Call
  <2>3. QED
    BY <1>c, <2>1, <2>2, ReturnGone, OtherStepGone
<1>d. CASE call[t].op = "delete"
  <2>1. CASE BeginWalk(t)
    <3> DEFINE c == [call[t] EXCEPT !.at = "walk", !.pend = {call[t].path}]
    <3>1. UNCHANGED <<dirs, grp>> /\ Becomes(t, c) /\ c \in Call
      BY <1>c, <2>1 DEF BeginWalk, kvars, hvars, Becomes
    <3>2. QED
      BY <1>c, <1>d, <1>g, <3>1, SameDirs, DeleteStepGone DEF Call
  <2>2. CASE VisitDir(t)
    <3>1. PICK s \in Subsystem, d \in call[t].pend :
            Becomes(t, [call[t] EXCEPT !.pend = (@ \ {d}) \cup Children(s, d),
                                       !.found = @ \cup ProcsIn(s, d)])
      BY <2>2 DEF VisitDir
    <3> DEFINE c == [call[t] EXCEPT !.pend = (@ \ {d}) \cup Children(s, d),
                                    !.found = @ \cup ProcsIn(s, d)]
    <3>2. UNCHANGED <<dirs, grp>> /\ c \in Call
      BY <1>c, <2>2, <3>1 DEF VisitDir, kvars, hvars, Becomes
    <3>3. d = call[t].path /\ d \in Cgroup
      BY <1>c, <1>d, <1>g DEF Call
    <3>4. Children(s, d) \subseteq {d}
      BY <1>c, <1>d, <1>g, <3>3 DEF Children, LeafPaths, Subtree
    <3>5. c.pend \subseteq {c.path}
      BY <1>c, <1>d, <1>g, <3>3, <3>4 DEF Call
    <3>6. c.op = "delete" /\ c.h = call[t].h /\ c.path = call[t].path
          /\ c.errs = call[t].errs /\ c.todo = call[t].todo
      BY <1>c, <1>d DEF Call
    <3>7. QED
      BY <1>d, <1>g, <3>1, <3>2, <3>5, <3>6, SameDirs, DeleteStepGone
  <2>3. CASE DirVanished(t)
    <3>1. PICK s \in Subsystem, d \in call[t].pend :
            /\ d \notin dirs[s]
            /\ Becomes(t, NextSubsystem([call[t] EXCEPT !.todo = @ \ {s}]))
      BY <1>d, <2>3 DEF DirVanished
    <3> DEFINE c == NextSubsystem([call[t] EXCEPT !.todo = @ \ {s}])
    <3>2. UNCHANGED <<dirs, grp>> /\ c \in Call
      BY <1>c, <2>3, <3>1 DEF DirVanished, kvars, Becomes
    <3>3. call[t].path \notin dirs[s]
      BY <1>d, <1>g, <3>1
    <3>4. c.op = "delete" /\ c.h = call[t].h /\ c.path = call[t].path
          /\ c.errs = call[t].errs /\ c.todo = call[t].todo \ {s} /\ c.pend = {}
      BY <1>c, <1>d DEF Call, NextSubsystem
    <3>5. QED
      BY <1>d, <1>g, <3>1, <3>2, <3>3, <3>4, SameDirs, DeleteStepGone
  <2>4. CASE SkipBusy(t)
    <3>1. PICK s \in Subsystem :
            Becomes(t, NextSubsystem([call[t] EXCEPT !.todo = @ \ {s}, !.errs = TRUE]))
      BY <2>4 DEF SkipBusy
    <3> DEFINE c == NextSubsystem([call[t] EXCEPT !.todo = @ \ {s}, !.errs = TRUE])
    <3>2. UNCHANGED <<dirs, grp>> /\ c \in Call
      BY <1>c, <2>4, <3>1 DEF SkipBusy, kvars, hvars, Becomes
    <3>3. c.op = "delete" /\ c.h = call[t].h /\ c.path = call[t].path
          /\ c.errs /\ c.pend = {}
      BY <1>c, <1>d DEF Call, NextSubsystem
    <3>4. QED
      BY <1>d, <3>1, <3>2, <3>3, SameDirs, DeleteStepGone
  <2>5. CASE BeginRemove(t)
    <3> DEFINE c == [call[t] EXCEPT !.at = "remove", !.tries = 0]
    <3>1. UNCHANGED <<dirs, grp>> /\ Becomes(t, c) /\ c \in Call
      BY <1>c, <2>5 DEF BeginRemove, kvars, hvars, Becomes
    <3>2. c.op = "delete" /\ c.h = call[t].h /\ c.path = call[t].path
          /\ c.errs = call[t].errs /\ c.todo = call[t].todo /\ c.pend = call[t].pend
      BY <1>c, <1>d DEF Call
    <3>3. QED
      BY <1>d, <1>g, <3>1, <3>2, SameDirs, DeleteStepGone
  <2>6. CASE TryRemove(t)
    <3> DEFINE done(s) == call[t].path \notin dirs[s] \ Removable(s, call[t].path)
               last == call[t].tries + 1 >= RemoveTries
               next(s) == NextSubsystem([call[t] EXCEPT
                             !.todo = @ \ {s}, !.tries = 0, !.errs = @ \/ ~done(s)])
               again == [call[t] EXCEPT !.tries = @ + 1]
    <3>1. PICK s \in Subsystem :
            /\ RemoveAll(s, call[t].path)
            /\ Becomes(t, IF done(s) \/ last THEN next(s) ELSE again)
      BY <2>6 DEF TryRemove
    <3>2. UNCHANGED grp
      BY <2>6 DEF TryRemove, hvars
    <3>3. /\ DirsShrink
          /\ dirs'[s] = dirs[s] \ Removable(s, call[t].path)
      BY <1>c, <3>1 DEF RemoveAll, DirsShrink
    <3> HIDE DEF done
    <3>4. CASE done(s) \/ last
      <4>1. Becomes(t, next(s)) /\ next(s) \in Call
        BY <1>c, <3>1, <3>4 DEF Becomes
      <4>2. /\ next(s).op = "delete" /\ next(s).h = call[t].h
            /\ next(s).path = call[t].path /\ next(s).pend = {}
            /\ next(s).todo = call[t].todo \ {s}
            /\ ~next(s).errs => ~call[t].errs /\ done(s)
        BY <1>c, <1>d DEF Call, NextSubsystem
      <4>3. done(s) => call[t].path \notin dirs'[s]
        BY <3>3 DEF done
      <4>4. ~next(s).errs => \A u \in grp[next(s).h].subs \ next(s).todo :
                                next(s).path \notin dirs'[u]
        BY <1>d, <1>g, <3>3, <4>2, <4>3 DEF DirsShrink
      <4>5. QED
        BY <1>d, <3>2, <3>3, <4>1, <4>2, <4>4, DeleteStepGone
    <3>5. CASE ~(done(s) \/ last)
      <4>1. Becomes(t, again) /\ again \in Call
        BY <1>c, <3>1, <3>5 DEF Becomes
      <4>2. again.op = "delete" /\ again.h = call[t].h /\ again.path = call[t].path
            /\ again.errs = call[t].errs /\ again.todo = call[t].todo
            /\ again.pend = call[t].pend
        BY <1>c, <1>d DEF Call
      <4>3. ~again.errs => \A u \in grp[again.h].subs \ again.todo :
                              again.path \notin dirs'[u]
        BY <1>d, <1>g, <3>3, <4>2 DEF DirsShrink
      <4>4. QED
        BY <1>d, <1>g, <3>2, <3>3, <4>1, <4>2, <4>3, DeleteStepGone
    <3>6. QED BY <3>4, <3>5
  <2>7. CASE FinishDelete(t)
    <3>1. UNCHANGED dirs /\ Return(t) /\ call[t].todo = {}
      BY <2>7 DEF FinishDelete, kvars
    <3>2. /\ GrpStable
          /\ \A g \in Handle : grp[g].err = "free" => grp'[g].err \in {"free", "deleted"}
          /\ \A g \in Handle : grp'[g].err = "deleted" /\ grp[g].err = "nil" =>
                g = call[t].h /\ ~call[t].errs
          /\ \A g \in Handle : grp[g].err = "free" => grp'[g] = grp[g]
      BY <1>d, <2>7, DeleteOwns DEF FinishDelete, GrpStable, IInv, TypeOK, Grp
    <3>3. \A g \in Handle : grp'[g].err = "deleted" /\ grp[g].err = "nil" =>
             \A s \in grp[g].subs : grp[g].path \notin dirs[s]
      BY <1>d, <1>g, <3>1, <3>2
    <3>4. QED
      BY <3>1, <3>2, <3>3, IdleType, IdleGone, SameDirs, GoneStep DEF Return
  <2>8. QED
    BY <2>1, <2>2, <2>3, <2>4, <2>5, <2>6, <2>7
<1>9. QED
  BY <1>m, <1>d

LEMMA StepGone ==
  ASSUME NoRecreation, LeafPaths
  PROVE  IInv /\ IInv' /\ GoneInv /\ [Next]_vars => GoneInv'
<1> SUFFICES ASSUME IInv, IInv', GoneInv, [Next]_vars PROVE GoneInv'
  OBVIOUS
<1>1. ASSUME NEW t \in Thread, Begin(t) PROVE GoneInv'
  BY <1>1, BeginGone
<1>2. ASSUME NEW t \in Thread, Step(t) PROVE GoneInv'
  BY <1>2, LoadGone, WriteGone, DeleteGone DEF Step
<1>3. ASSUME NEW t \in Thread, LockDestination(t) PROVE GoneInv'
  BY <1>3, WriteGone
<1>4. CASE Kernel \/ UNCHANGED vars
  <2>1. UNCHANGED <<dirs, grp, call>>
    BY <1>4 DEF Kernel, KernelNext, Fork, Wake, Exit, vars, hvars
  <2>2. QED
    BY <2>1 DEF GoneInv, GoneCall, DeletedIsGone
<1>5. QED
  BY <1>1, <1>2, <1>3, <1>4 DEF Next

(* While nobody creates cgroups or calls State, and the cgroups in use     *)
(* have none beneath them, a handle that says deleted has lost its         *)
(* directory in every one of its subsystems, whatever other handles of the *)
(* same cgroup, forks and Adds do between the steps of the Delete.         *)
THEOREM DeleteIsComplete ==
  ASSUME NoRecreation, LeafPaths
  PROVE  Spec => []DeletedIsGone
<1>1. Init => GoneInv
  BY DEF Init, FreeGrp, Idle, GoneInv, GoneCall, DeletedIsGone
<1>2. IInv /\ IInv' /\ GoneInv /\ [Next]_vars => GoneInv'
  BY StepGone
<1>3. GoneInv => DeletedIsGone
  BY DEF GoneInv
<1>4. QED
  BY <1>1, <1>2, <1>3, Invariance, PTL DEF Spec

-----------------------------------------------------------------------------
(* Of a call that adds: it is one of the Adders, what it has written so    *)
(* far is there, and a process that has been written to is no longer one   *)
(* that a fork could bring into being.                                     *)
LandCall(t) ==
    /\ call[t].op # "moveto"
    /\ call[t].op = "add" =>
          /\ <<t, call[t].pid>> \in Adders
          /\ \A s \in call[t].subs \ call[t].wtodo :
                /\ member[call[t].pid][s] = Target(t)
                /\ proc[call[t].pid] # "none"

LandInv == \A t \in Thread : LandCall(t)

(* The handle of an Add is locked, so it is neither free nor deleted.      *)
LEMMA AddOwns ==
  ASSUME IInv, NEW t \in Thread, call[t].op = "add"
  PROVE  /\ call[t] \in Call /\ call[t].dst \in Handle /\ call[t].pid \in Pid
         /\ grp[call[t].dst].err = "nil" /\ call[t].at = "write"
         /\ call[t].subs \subseteq Subsystem
<1>1. /\ call[t] \in Call /\ call[t].dst \in Handle /\ call[t].pid \in Pid
      /\ call[t].at = "write"
  BY DEF IInv, TypeOK, LockInv, Shape
<1>2. call[t].dst \in Held(call[t])
  BY <1>1 DEF Held
<1>3. mu[call[t].dst] = t /\ t # NoThread
  BY <1>1, <1>2, HandleAssumption DEF IInv, LockInv
<1> QED
  BY <1>1, <1>3 DEF IInv, LockInv, Call

(* No step changes the path or the subsystems of a handle in use.          *)
LEMMA GrpIsStable ==
  ASSUME IInv, [Next]_vars
  PROVE  GrpStable
<1>t. grp \in [Handle -> Grp]
  BY DEF IInv, TypeOK
<1>1. ASSUME NEW h \in Handle, NEW p, NEW ss, Create(h, p, ss) PROVE GrpStable
  BY <1>t, <1>1 DEF Create, GrpStable
<1>2. ASSUME NEW h \in Handle, grp[h].err = "nil", grp' = [grp EXCEPT ![h].err = "deleted"]
      PROVE  GrpStable
  BY <1>t, <1>2 DEF GrpStable, Grp
<1>3. ASSUME NEW t \in Thread, FinishDelete(t) PROVE GrpStable
  <2>1. call[t].h \in Handle /\ grp[call[t].h].err = "nil"
    BY <1>3, DeleteOwns DEF FinishDelete, Doing
  <2> QED
    BY <1>2, <1>3, <2>1, SameGrp DEF FinishDelete
<1>4. ASSUME NEW t \in Thread, Begin(t) PROVE GrpStable
  BY <1>2, <1>4, SameGrp
     DEF Begin, BeginNew, BeginLoad, BeginChild, BeginAdd, BeginDelete, State, BeginMoveTo,
         Usable, hvars
<1>5. ASSUME NEW t \in Thread, Step(t) PROVE GrpStable
  <2>1. CASE \E h \in Handle : FinishNew(t, h) \/ FinishLoad(t, h)
    BY <1>1, <2>1, SameGrp DEF FinishNew, FinishLoad
  <2>2. CASE SkipInactive(t) \/ InitSubsystem(t) \/ InitFails(t) \/ LoadSubsystem(t)
    BY <2>2, SameGrp DEF SkipInactive, InitSubsystem, InitFails, LoadSubsystem, hvars
  <2>3. CASE \/ WriteProcs(t) \/ RetryWrite(t) \/ ProcessGone(t) \/ WriteFails(t)
             \/ FinishAdd(t)
    BY <2>3, SameGrp DEF WriteProcs, RetryWrite, ProcessGone, WriteFails, FinishAdd, hvars
  <2>4. CASE \/ BeginWalk(t) \/ VisitDir(t) \/ DirVanished(t)
             \/ SkipBusy(t) \/ BeginRemove(t) \/ TryRemove(t)
    BY <2>4, SameGrp DEF BeginWalk, VisitDir, DirVanished, SkipBusy, BeginRemove,
       TryRemove, hvars
  <2>5. CASE \/ BeginMoving(t) \/ NextProcess(t) \/ FinishOne(t)
             \/ FinishSubsystem(t) \/ FinishMoveTo(t)
    BY <2>5, SameGrp DEF BeginMoving, NextProcess, FinishOne, FinishSubsystem,
       FinishMoveTo, hvars
  <2> QED
    BY <1>3, <1>5, <2>1, <2>2, <2>3, <2>4, <2>5 DEF Step
<1>6. ASSUME NEW t \in Thread, LockDestination(t) PROVE GrpStable
  BY <1>6, SameGrp DEF LockDestination
<1>7. CASE Kernel \/ UNCHANGED vars
  BY <1>7, SameGrp DEF Kernel, hvars, vars
<1> QED
  BY <1>4, <1>5, <1>6, <1>7 DEF Next

(* A call that is not the one that steps: its process stays where it is.   *)
LEMMA OtherLands ==
  ASSUME IInv, LandInv, GrpStable, NEW u \in Thread, call'[u] = call[u],
         \A q \in Pid : <<u, q>> \in Adders /\ proc[q] # "none"
                          => member'[q] = member[q] /\ proc'[q] # "none"
  PROVE  LandCall(u)'
<1>1. CASE call[u].op # "add"
  BY <1>1 DEF LandInv, LandCall
<1>2. CASE call[u].op = "add"
  <2>1. /\ call[u].pid \in Pid /\ call[u].dst \in Handle /\ grp[call[u].dst].err = "nil"
    BY <1>2, AddOwns
  <2>2. grp'[call[u].dst].path = grp[call[u].dst].path
    BY <2>1 DEF GrpStable
  <2> QED
    BY <1>2, <2>1, <2>2 DEF LandInv, LandCall, Target
<1> QED
  BY <1>1, <1>2

LEMMA LandStep ==
  ASSUME OneMover, IInv, LandInv, [Next]_vars, NEW t \in Thread, LandCall(t)',
         \A u \in Thread \ {t} : call'[u] = call[u],
         UNCHANGED proc,
         \/ UNCHANGED member
         \/ \E q \in Pid : /\ <<t, q>> \in Adders
                            /\ \E m : member' = [member EXCEPT ![q] = m]
  PROVE  LandInv'
<1>1. ASSUME NEW u \in Thread, u # t PROVE LandCall(u)'
  <2>1. ASSUME NEW q \in Pid, <<u, q>> \in Adders PROVE member'[q] = member[q]
    BY <1>1, <2>1 DEF OneMover, IInv, TypeOK, KernelTypeOK
  <2> QED
    BY <1>1, <2>1, GrpIsStable, OtherLands
<1> QED
  BY <1>1 DEF LandInv

(* Steps after which the call is no Add.                                   *)
LEMMA NoAddStep ==
  ASSUME OneMover, IInv, LandInv, [Next]_vars, NEW t \in Thread, NEW c,
         Becomes(t, c), c.op \notin {"add", "moveto"}, UNCHANGED <<member, proc>>
  PROVE  LandInv'
<1>1. call'[t] = c /\ \A u \in Thread \ {t} : call'[u] = call[u]
  BY DEF Becomes, IInv, TypeOK
<1>2. LandCall(t)'
  BY <1>1 DEF LandCall
<1> QED
  BY <1>1, <1>2, LandStep

LEMMA ReturnLands ==
  ASSUME OneMover, IInv, LandInv, [Next]_vars, NEW t \in Thread, Return(t),
         UNCHANGED <<member, proc>>
  PROVE  LandInv'
<1>1. Idle.op = "idle"
  BY DEF Idle
<1> QED
  BY <1>1, NoAddStep DEF Return

LEMMA BeginLands ==
  ASSUME OneMover, IInv, LandInv, [Next]_vars, NEW t \in Thread, Begin(t)
  PROVE  LandInv'
<1>1. ASSUME NEW p \in Paths, BeginNew(t, p) \/ BeginLoad(t, p) PROVE LandInv'
  <2> DEFINE c == [Idle EXCEPT !.op = "new", !.path = p, !.todo = Subsystem]
             d == [Idle EXCEPT !.op = "load", !.path = p, !.todo = Subsystem]
  <2>1. c.op = "new" /\ d.op = "load"
    BY DEF Idle
  <2>2. (Becomes(t, c) \/ Becomes(t, d)) /\ UNCHANGED <<member, proc>>
    BY <1>1 DEF BeginNew, BeginLoad, kvars
  <2> HIDE DEF c, d
  <2> QED
    BY <2>1, <2>2, NoAddStep
<1>2. ASSUME NEW h \in Handle, NEW n \in Names, BeginChild(t, h, n) PROVE LandInv'
  <2> DEFINE c == [Idle EXCEPT !.op = "child", !.h = h, !.todo = grp[h].subs,
                               !.path = Append(grp[h].path, n)]
  <2>1. c.op = "child" /\ Becomes(t, c) /\ UNCHANGED <<member, proc>>
    BY <1>2 DEF BeginChild, kvars, Idle
  <2> HIDE DEF c
  <2> QED
    BY <2>1, NoAddStep
<1>3. ASSUME NEW h \in Handle, NEW p \in Pid, NEW f \in Filters, BeginAdd(t, h, p, f)
      PROVE  LandInv'
  <2> DEFINE c == [Idle EXCEPT !.op = "add", !.at = "write", !.dst = h,
                               !.pid = p, !.subs = Filtered(h, f),
                               !.wtodo = Filtered(h, f)]
  <2>1. /\ c.op = "add" /\ c.pid = p /\ c.subs = c.wtodo /\ <<t, p>> \in Adders
        /\ Becomes(t, c) /\ UNCHANGED <<member, proc>>
    BY <1>3 DEF BeginAdd, kvars, Idle
  <2> HIDE DEF c
  <2>2. call'[t] = c /\ \A u \in Thread \ {t} : call'[u] = call[u]
    BY <2>1 DEF Becomes, IInv, TypeOK
  <2>3. LandCall(t)'
    BY <2>1, <2>2 DEF LandCall
  <2> QED
    BY <2>1, <2>2, <2>3, LandStep
<1>4. ASSUME NEW h \in Handle, BeginDelete(t, h) PROVE LandInv'
  <2> DEFINE c == [Idle EXCEPT !.op = "delete", !.at = "next", !.h = h,
                               !.path = grp[h].path, !.todo = grp[h].subs]
  <2>1. c.op = "delete" /\ Becomes(t, c) /\ UNCHANGED <<member, proc>>
    BY <1>4 DEF BeginDelete, kvars, Idle
  <2> HIDE DEF c
  <2> QED
    BY <2>1, NoAddStep
<1>5. ASSUME NEW h \in Handle, State(t, h) PROVE LandInv'
  <2>1. UNCHANGED <<member, proc, call>>
    BY <1>5 DEF State, kvars
  <2> QED
    BY <2>1, GrpIsStable, OtherLands DEF LandInv
<1>6. ~\E h, d \in Handle : BeginMoveTo(t, h, d)
  BY DEF OneMover, BeginMoveTo
<1> QED
  BY <1>1, <1>2, <1>3, <1>4, <1>5, <1>6 DEF Begin

LEMMA CreateLands ==
  ASSUME OneMover, IInv, LandInv, [Next]_vars, NEW t \in Thread,
         \/ SkipInactive(t) \/ InitSubsystem(t) \/ InitFails(t) \/ LoadSubsystem(t)
         \/ \E h \in Handle : FinishNew(t, h) \/ FinishLoad(t, h)
  PROVE  LandInv'
<1>c. call[t] \in Call
  BY DEF IInv, TypeOK
<1>1. CASE SkipInactive(t)
  <2>1. UNCHANGED <<member, proc>> /\ call[t].op \in {"new", "load"}
    BY <1>1 DEF SkipInactive, kvars
  <2>2. PICK s \in Inactive : Return(t) \/ Becomes(t, [call[t] EXCEPT !.todo = @ \ {s}])
    BY <1>1 DEF SkipInactive
  <2> DEFINE c == [call[t] EXCEPT !.todo = @ \ {s}]
  <2>3. c.op = call[t].op
    BY <1>c DEF Call
  <2>4. Return(t) \/ Becomes(t, c)
    BY <2>2
  <2> HIDE DEF c
  <2> QED
    BY <2>1, <2>3, <2>4, NoAddStep, ReturnLands
<1>2. CASE InitSubsystem(t)
  <2>1. UNCHANGED <<member, proc>> /\ call[t].op \in {"new", "child"}
    BY <1>2 DEF InitSubsystem, Creating
  <2>2. PICK s \in Subsystem :
            Becomes(t, [call[t] EXCEPT !.todo = @ \ {s}, !.subs = @ \cup {s}])
    BY <1>2 DEF InitSubsystem
  <2> DEFINE c == [call[t] EXCEPT !.todo = @ \ {s}, !.subs = @ \cup {s}]
  <2>3. c.op = call[t].op /\ Becomes(t, c)
    BY <1>c, <2>2 DEF Call
  <2> HIDE DEF c
  <2> QED
    BY <2>1, <2>3, NoAddStep
<1>3. CASE InitFails(t) \/ \E h \in Handle : FinishNew(t, h) \/ FinishLoad(t, h)
  BY <1>3, ReturnLands DEF InitFails, FinishNew, FinishLoad, kvars
<1>4. CASE LoadSubsystem(t)
  <2>1. UNCHANGED <<member, proc>> /\ call[t].op = "load"
    BY <1>4 DEF LoadSubsystem, kvars
  <2>2. PICK s \in Subsystem \ Inactive : Becomes(t, [call[t] EXCEPT
                !.todo = @ \ {s},
                !.subs = IF call[t].path \in dirs[s] THEN @ \cup {s} ELSE @])
    BY <1>4 DEF LoadSubsystem
  <2> DEFINE c == [call[t] EXCEPT
                !.todo = @ \ {s},
                !.subs = IF call[t].path \in dirs[s] THEN @ \cup {s} ELSE @]
  <2>3. c.op = call[t].op /\ Becomes(t, c)
    BY <1>c, <2>2 DEF Call
  <2> HIDE DEF c
  <2> QED
    BY <2>1, <2>3, NoAddStep
<1> QED
  BY <1>1, <1>2, <1>3, <1>4

(* The two steps with which an Add goes on, and those that end it.         *)
LEMMA WriteLands ==
  ASSUME OneMover, IInv, LandInv, [Next]_vars, NEW t \in Thread,
         \/ WriteProcs(t) \/ RetryWrite(t) \/ ProcessGone(t) \/ WriteFails(t)
         \/ FinishAdd(t) \/ FinishOne(t)
  PROVE  LandInv'
<1>c. call[t] \in Call /\ call[t].op # "moveto"
  BY DEF IInv, TypeOK, LandInv, LandCall
<1>1. CASE WriteProcs(t)
  <2>1. call[t].op = "add" /\ UNCHANGED <<dirs, proc, hvars>>
    BY <1>1, <1>c DEF WriteProcs, Writing
  <2>2. PICK s \in Subsystem :
          /\ s \in call[t].wtodo /\ proc[call[t].pid] = "run"
          /\ WritePid(call[t].pid, s, Target(t))
          /\ Becomes(t, [call[t] EXCEPT !.wtodo = @ \ {s}, !.tries = 0])
    BY <1>1 DEF WriteProcs, Writing, IsFirst
  <2> DEFINE c == [call[t] EXCEPT !.wtodo = @ \ {s}, !.tries = 0]
             p == call[t].pid
  <2>3. /\ c.op = "add" /\ c.pid = p /\ c.subs = call[t].subs /\ c.dst = call[t].dst
        /\ c.wtodo = call[t].wtodo \ {s}
    BY <1>c, <2>1 DEF Call
  <2>4. Becomes(t, c)
    BY <2>2
  <2> HIDE DEF c
  <2>5. call'[t] = c /\ \A u \in Thread \ {t} : call'[u] = call[u]
    BY <2>4 DEF Becomes, IInv, TypeOK
  <2>6. /\ p \in Pid /\ <<t, p>> \in Adders /\ call[t].subs \subseteq Subsystem
        /\ member \in [Pid -> [Subsystem -> Cgroup]]
    BY <2>1, AddOwns DEF LandInv, LandCall, IInv, TypeOK, KernelTypeOK
  <2>7. /\ member' = [member EXCEPT ![p] = [member[p] EXCEPT ![s] = Target(t)]]
        /\ member'[p] = [member[p] EXCEPT ![s] = Target(t)]
    BY <2>2, <2>6 DEF WritePid
  <2>8. Target(t)' = Target(t)
    BY <2>1, <2>3, <2>5 DEF Target, hvars
  <2>9. ASSUME NEW x \in c.subs \ c.wtodo
        PROVE  member'[p][x] = Target(t)
    BY <2>1, <2>3, <2>6, <2>7 DEF LandInv, LandCall
  <2>10. LandCall(t)'
    BY <2>1, <2>2, <2>3, <2>5, <2>6, <2>8, <2>9 DEF LandCall
  <2> QED
    BY <2>1, <2>5, <2>6, <2>7, <2>10, LandStep
<1>2. CASE RetryWrite(t)
  <2>1. call[t].op = "add" /\ UNCHANGED <<dirs, member, proc, hvars>>
    BY <1>2, <1>c DEF RetryWrite, Writing, kvars
  <2> DEFINE c == [call[t] EXCEPT !.tries = @ + 1]
  <2>2. /\ c.op = "add" /\ c.pid = call[t].pid /\ c.subs = call[t].subs
        /\ c.dst = call[t].dst /\ c.wtodo = call[t].wtodo /\ Becomes(t, c)
    BY <1>2, <1>c, <2>1 DEF Call, RetryWrite
  <2> HIDE DEF c
  <2>3. call'[t] = c /\ \A u \in Thread \ {t} : call'[u] = call[u]
    BY <2>2 DEF Becomes, IInv, TypeOK
  <2>4. LandCall(t)'
    BY <2>1, <2>2, <2>3 DEF LandInv, LandCall, Target, hvars
  <2> QED
    BY <2>1, <2>3, <2>4, LandStep
<1>3. CASE ProcessGone(t)
  <2>1. call[t].op = "add" /\ UNCHANGED <<member, proc>>
    BY <1>3, <1>c DEF ProcessGone, Writing, kvars
  <2> QED
    BY <1>3, <2>1, ReturnLands DEF ProcessGone
<1>4. CASE WriteFails(t) \/ FinishAdd(t)
  BY <1>4, ReturnLands DEF WriteFails, FinishAdd, kvars
<1>5. CASE FinishOne(t)
  BY <1>5, <1>c DEF FinishOne
<1> QED
  BY <1>1, <1>2, <1>3, <1>4, <1>5

(* A Delete goes on as a Delete until it returns.                          *)
LEMMA DeleteGoesOn ==
  ASSUME IInv, NEW t \in Thread, call[t].op = "delete",
         \/ BeginWalk(t) \/ VisitDir(t) \/ DirVanished(t)
         \/ SkipBusy(t) \/ BeginRemove(t) \/ TryRemove(t) \/ FinishDelete(t)
  PROVE  /\ UNCHANGED <<member, proc>>
         /\ Return(t) \/ \E c : Becomes(t, c) /\ c.op = "delete"
<1>1. call[t] \in Call
  BY DEF IInv, TypeOK
<1>2. UNCHANGED <<member, proc>>
  BY DEF BeginWalk, VisitDir, DirVanished, SkipBusy, BeginRemove, TryRemove, FinishDelete,
         kvars
<1>3. CASE BeginWalk(t) \/ VisitDir(t)
  <2>1. \/ Becomes(t, [call[t] EXCEPT !.at = "walk", !.pend = {call[t].path}])
        \/ \E s \in Subsystem, d \in call[t].pend :
             Becomes(t, [call[t] EXCEPT !.pend = (@ \ {d}) \cup Children(s, d),
                                        !.found = @ \cup ProcsIn(s, d)])
    BY <1>3 DEF BeginWalk, VisitDir
  <2>2. [call[t] EXCEPT !.at = "walk", !.pend = {call[t].path}].op = "delete"
    BY <1>1 DEF Call
  <2>3. \A s, d : [call[t] EXCEPT !.pend = (@ \ {d}) \cup Children(s, d),
                                  !.found = @ \cup ProcsIn(s, d)].op = "delete"
    BY <1>1 DEF Call
  <2> QED
    BY <1>2, <2>1, <2>2, <2>3
<1>4. CASE DirVanished(t) \/ SkipBusy(t) \/ BeginRemove(t)
  <2>1. \/ Return(t)
        \/ \E s \in Subsystem : Becomes(t, NextSubsystem([call[t] EXCEPT !.todo = @ \ {s}]))
        \/ \E s \in Subsystem :
             Becomes(t, NextSubsystem([call[t] EXCEPT !.todo = @ \ {s}, !.errs = TRUE]))
        \/ Becomes(t, [call[t] EXCEPT !.at = "remove", !.tries = 0])
    BY <1>4 DEF DirVanished, SkipBusy, BeginRemove
  <2>2. ASSUME NEW s \in Subsystem
        PROVE  /\ NextSubsystem([call[t] EXCEPT !.todo = @ \ {s}]).op = "delete"
               /\ NextSubsystem([call[t] EXCEPT !.todo = @ \ {s}, !.errs = TRUE]).op = "delete"
    BY <1>1 DEF Call, NextSubsystem
  <2>3. [call[t] EXCEPT !.at = "remove", !.tries = 0].op = "delete"
    BY <1>1 DEF Call
  <2> QED
    BY <1>2, <2>1, <2>2, <2>3
<1>5. CASE TryRemove(t)
  <2>1. PICK s \in Subsystem :
          LET done == call[t].path \notin dirs[s] \ Removable(s, call[t].path)
              last == call[t].tries + 1 >= RemoveTries
          IN  Becomes(t,
                  IF done \/ last
                  THEN NextSubsystem([call[t] EXCEPT
                           !.todo = @ \ {s}, !.tries = 0, !.errs = @ \/ ~done])
                  ELSE [call[t] EXCEPT !.tries = @ + 1])
    BY <1>5 DEF TryRemove
  <2> DEFINE done == call[t].path \notin dirs[s] \ Removable(s, call[t].path)
             c == NextSubsystem([call[t] EXCEPT
                           !.todo = @ \ {s}, !.tries = 0, !.errs = @ \/ ~done])
             d == [call[t] EXCEPT !.tries = @ + 1]
  <2>2. c.op = "delete" /\ d.op = "delete"
    BY <1>1 DEF Call, NextSubsystem
  <2>3. Becomes(t, c) \/ Becomes(t, d)
    BY <2>1
  <2> HIDE DEF c, d
  <2> QED
    BY <1>2, <2>2, <2>3
<1>6. CASE FinishDelete(t)
  BY <1>2, <1>6 DEF FinishDelete
<1> QED
  BY <1>3, <1>4, <1>5, <1>6

LEMMA DeleteLands ==
  ASSUME OneMover, IInv, LandInv, [Next]_vars, NEW t \in Thread,
         \/ BeginWalk(t) \/ VisitDir(t) \/ DirVanished(t)
         \/ SkipBusy(t) \/ BeginRemove(t) \/ TryRemove(t) \/ FinishDelete(t)
  PROVE  LandInv'
<1>1. call[t].op = "delete"
  BY DEF LandInv, LandCall, BeginWalk, VisitDir, DirVanished, SkipBusy, BeginRemove,
         TryRemove, FinishDelete, Walking, Doing
<1>2. UNCHANGED <<member, proc>> /\ (Return(t) \/ \E c : Becomes(t, c) /\ c.op = "delete")
  BY <1>1, DeleteGoesOn
<1> QED
  BY <1>2, NoAddStep, ReturnLands

(* Processes are born only from the state "none", and nobody else moves.   *)
LEMMA KernelLands ==
  ASSUME IInv, LandInv, [Next]_vars, Kernel
  PROVE  LandInv'
<1>1. ASSUME NEW q \in Pid, proc[q] # "none"
      PROVE  member'[q] = member[q] /\ proc'[q] # "none"
  <2>1. proc \in [Pid -> ProcState] /\ member \in [Pid -> [Subsystem -> Cgroup]]
    BY DEF IInv, TypeOK, KernelTypeOK
  <2>2. ASSUME NEW p \in Pid, NEW r \in Pid, Fork(p, r)
        PROVE  member'[q] = member[q] /\ proc'[q] # "none"
    BY <1>1, <2>1, <2>2 DEF Fork
  <2>3. ASSUME NEW p \in Pid, Wake(p) \/ Exit(p)
        PROVE  member'[q] = member[q] /\ proc'[q] # "none"
    BY <1>1, <2>1, <2>3 DEF Wake, Exit
  <2> QED
    BY <2>2, <2>3 DEF Kernel, KernelNext
<1>2. UNCHANGED call
  BY DEF Kernel
<1> QED
  BY <1>1, <1>2, GrpIsStable, OtherLands DEF LandInv

LEMMA StepLands ==
  ASSUME OneMover
  PROVE  IInv /\ LandInv /\ [Next]_vars => LandInv'
<1> SUFFICES ASSUME IInv, LandInv, [Next]_vars PROVE LandInv'
  OBVIOUS
<1>1. ASSUME NEW t \in Thread, Begin(t) PROVE LandInv'
  BY <1>1, BeginLands
<1>2. ASSUME NEW t \in Thread, call[t].op = "moveto" PROVE FALSE
  BY <1>2 DEF LandInv, LandCall
<1>3. ASSUME NEW t \in Thread, Step(t) \/ LockDestination(t) PROVE LandInv'
  <2>1. ~(\/ BeginMoving(t) \/ NextProcess(t) \/ FinishSubsystem(t) \/ FinishMoveTo(t)
          \/ LockDestination(t))
    BY <1>2 DEF BeginMoving, NextProcess, FinishSubsystem, FinishMoveTo, LockDestination,
       Doing
  <2> QED
    BY <1>3, <2>1, CreateLands, WriteLands, DeleteLands DEF Step
<1>4. CASE Kernel
  BY <1>4, KernelLands
<1>5. CASE UNCHANGED vars
  BY <1>5, GrpIsStable, OtherLands DEF LandInv, vars
<1> QED
  BY <1>1, <1>3, <1>4, <1>5 DEF Next

(* When no process is two callers' business, an Add has moved its process  *)
(* in every subsystem it has passed, whatever deletes, forks and the Adds  *)
(* of other processes do in between.                                       *)
THEOREM AddIsComplete ==
  ASSUME OneMover
  PROVE  Spec => []AddLandsEverywhere
<1>1. Init => LandInv
  BY DEF Init, Idle, LandInv, LandCall
<1>2. IInv /\ LandInv /\ [Next]_vars => LandInv'
  BY StepLands
<1>3. LandInv => AddLandsEverywhere
  BY DEF LandInv, LandCall, AddLandsEverywhere
<1> QED
  BY <1>1, <1>2, <1>3, Invariance, PTL DEF Spec

-----------------------------------------------------------------------------
(* MoveTo.  Directories have their ancestors and no living process is      *)
(* without its own; every handle has the same subsystems; and of a MoveTo  *)
(* out of whose way the destination lies: the subsystems done are clear,   *)
(* of the present one the walk has found every process or has still to     *)
(* visit a directory above it, and the process being moved is where it has *)
(* been written to.                                                        *)
Alive(p) == proc[p] \in {"new", "run"}

HomesInv ==
    \A s \in Subsystem :
        /\ \A d \in dirs[s] : Ancestors(d) \subseteq dirs[s]
        /\ \A p \in Pid : Alive(p) => member[p][s] \in dirs[s]

Active == Subsystem \ Inactive

AlikeCall(c) ==
    /\ c.op \notin {"add", "load"}
    /\ c.op \in {"new", "child"} => c.subs \cup (c.todo \ Inactive) = Active
    /\ c.op = "child" => c.todo \subseteq Active

AlikeInv ==
    /\ \A h \in Handle : grp[h].err # "free" => grp[h].subs = Active
    /\ \A t \in Thread : AlikeCall(call[t])

(* p is still in the way of a MoveTo out of the tree of c, in s.           *)
InTree(p, s, c) == Alive(p) /\ member[p][s] \in Subtree(c)

DrainCall(c) ==
    c.op = "moveto" =>
        /\ grp[c.h].err # "free" /\ grp[c.dst].err # "free" /\ c.todo \subseteq Active
        /\ ~Under(c.path, grp[c.dst].path) =>
              /\ \A s \in Active \ c.todo, p \in Pid : ~InTree(p, s, c.path)
              /\ \A s \in Subsystem, p \in Pid :
                    IsFirst(s, c.todo) /\ InTree(p, s, c.path) =>
                       /\ c.at = "walk" => \/ p \in c.found
                                           \/ \E d \in c.pend : member[p][s] \in Subtree(d)
                       /\ c.at \in {"move", "lock", "write"} => p \in c.found
              /\ c.at = "write" =>
                    \A s \in Active \ c.wtodo :
                        Alive(c.pid) => member[c.pid][s] = grp[c.dst].path

DrainInv == HomesInv /\ AlikeInv /\ \A t \in Thread : DrainCall(call[t])

(* Lying beneath is a preorder, and below a directory one goes through one *)
(* of its children.                                                        *)
LEMMA UnderReflexive == ASSUME NEW c \in Cgroup PROVE Under(c, c)
<1>1. c \in Seq(STRING)
  BY TreeAssumption
<1>2. Len(c) \in Nat /\ SubSeq(c, 1, Len(c)) = c
  BY <1>1
<1> QED
  BY <1>2 DEF Under

LEMMA UnderTransitive ==
  ASSUME NEW c \in Cgroup, NEW d \in Cgroup, NEW e \in Cgroup, Under(c, d), Under(d, e)
  PROVE  Under(c, e)
<1>1. c \in Seq(STRING) /\ d \in Seq(STRING) /\ e \in Seq(STRING)
  BY TreeAssumption
<1>2. /\ Len(c) \in Nat /\ Len(d) \in Nat /\ Len(e) \in Nat
      /\ Len(c) <= Len(d) /\ Len(d) <= Len(e)
      /\ SubSeq(d, 1, Len(c)) = c /\ SubSeq(e, 1, Len(d)) = d
  BY <1>1 DEF Under
<1>3. \A i \in 1 .. Len(d) : d[i] = e[i]
  BY <1>1, <1>2
<1>4. \A i \in 1 .. Len(c) : c[i] = d[i]
  BY <1>1, <1>2
<1>5. SubSeq(e, 1, Len(c)) = SubSeq(d, 1, Len(c))
  BY <1>1, <1>2, <1>3, <1>4
<1> QED
  BY <1>2, <1>5 DEF Under

LEMMA ThroughChild ==
  ASSUME NEW d \in Cgroup, NEW m \in Cgroup, Under(d, m), m # d
  PROVE  \E k \in Cgroup : Len(k) = Len(d) + 1 /\ Under(d, k) /\ Under(k, m)
<1>1. d \in Seq(STRING) /\ m \in Seq(STRING) /\ Len(d) \in Nat /\ Len(m) \in Nat
  BY TreeAssumption
<1>2. Len(d) <= Len(m) /\ SubSeq(m, 1, Len(d)) = d
  BY DEF Under
<1>3. Len(d) # Len(m)
  BY <1>1, <1>2
<1> DEFINE n == Len(d) + 1
           k == SubSeq(m, 1, n)
<1>4. n \in 0 .. Len(m)
  BY <1>1, <1>2, <1>3
<1>5. k \in Cgroup
  BY <1>4, ClosedAssumption
<1>6. Len(k) = n
  BY <1>1, <1>4
<1>7. Under(k, m)
  BY <1>1, <1>4, <1>6 DEF Under
<1>8. SubSeq(k, 1, Len(d)) = SubSeq(m, 1, Len(d))
  BY <1>1, <1>2, <1>4, <1>6
<1>9. Under(d, k)
  BY <1>1, <1>2, <1>6, <1>8 DEF Under
<1> QED
  BY <1>5, <1>6, <1>7, <1>9

(* What the steps of the kernel and the file system do to the trees.       *)
LEMMA SameHomes ==
  ASSUME IInv, HomesInv, UNCHANGED dirs, \A p \in Pid : Alive(p)' => Alive(p),
         \A p \in Pid : Alive(p)' => \A s \in Subsystem : \/ member'[p][s] = member[p][s]
                                                     \/ member'[p][s] \in dirs[s]
  PROVE  HomesInv'
  BY DEF HomesInv

LEMMA MkdirHomes ==
  ASSUME IInv, HomesInv, NEW s \in Subsystem, NEW c \in Cgroup, MkdirAll(s, c),
         UNCHANGED <<member, proc>>
  PROVE  HomesInv'
<1>1. dirs \in [Subsystem -> SUBSET Cgroup]
  BY DEF IInv, TypeOK, KernelTypeOK
<1>2. \A a \in Ancestors(c) : Ancestors(a) \subseteq Ancestors(c)
  BY UnderTransitive DEF Ancestors
<1>3. ASSUME NEW r \in Subsystem, NEW d \in dirs'[r] PROVE Ancestors(d) \subseteq dirs'[r]
  BY <1>1, <1>2, <1>3 DEF HomesInv, MkdirAll
<1> QED
  BY <1>1, <1>3 DEF HomesInv, MkdirAll, Alive

LEMMA RmdirHomes ==
  ASSUME IInv, HomesInv, NEW s \in Subsystem, NEW c \in Cgroup, RemoveAll(s, c),
         UNCHANGED <<member, proc>>
  PROVE  HomesInv'
<1> DEFINE gone == Removable(s, c)
<1>1. /\ dirs \in [Subsystem -> SUBSET Cgroup] /\ dirs' = [dirs EXCEPT ![s] = @ \ gone]
      /\ member \in [Pid -> [Subsystem -> Cgroup]]
  BY DEF IInv, TypeOK, KernelTypeOK, RemoveAll
<1>2. ASSUME NEW d \in dirs[s], NEW a \in Ancestors(d), a \in gone PROVE d \in gone
  <2>1. /\ d \in Cgroup /\ a \in Cgroup /\ Under(a, d) /\ Under(c, a)
        /\ \A e \in dirs[s] \cap Subtree(a) : ProcsIn(s, e) = {}
    BY <1>1, <1>2 DEF Ancestors, Removable, Subtree
  <2>2. d \in Subtree(c) /\ Subtree(d) \subseteq Subtree(a)
    BY <2>1, UnderTransitive DEF Subtree
  <2> QED
    BY <2>1, <2>2 DEF Removable
<1>3. ASSUME NEW p \in Pid, Alive(p) PROVE member[p][s] \notin gone
  <2>1. member[p][s] \in Cgroup /\ p \in ProcsIn(s, member[p][s])
    BY <1>1, <1>3 DEF ProcsIn, Alive
  <2>2. member[p][s] \in Subtree(member[p][s])
    BY <2>1, UnderReflexive DEF Subtree
  <2> QED
    BY <2>1, <2>2 DEF Removable
<1> HIDE DEF gone
<1>4. ASSUME NEW r \in Subsystem, NEW d \in dirs'[r] PROVE Ancestors(d) \subseteq dirs'[r]
  BY <1>1, <1>2, <1>4 DEF HomesInv
<1> QED
  BY <1>1, <1>3, <1>4 DEF HomesInv, Alive

(* Nobody comes to life, and who moves goes to the one destination.        *)
OnlyMoves ==
    \A p \in Pid, s \in Subsystem :
        Alive(p)' =>
           /\ Alive(p)
           /\ \/ member'[p][s] = member[p][s]
              \/ \E h, d \in Handle : <<h, d>> \in Moves /\ member'[p][s] = grp[d].path

LEMMA MoveFacts ==
  ASSUME IInv, DrainInv, NEW t \in Thread, call[t].op = "moveto"
  PROVE  /\ call[t] \in Call /\ Shape(call[t]) /\ DrainCall(call[t])
         /\ call[t].h \in Handle /\ call[t].dst \in Handle
         /\ <<call[t].h, call[t].dst>> \in Moves /\ call[t].path \in Cgroup
         /\ grp[call[t].dst].path \in Cgroup
         /\ grp[call[t].h].subs = Active /\ grp[call[t].dst].subs = Active
<1>1. call[t] \in Call /\ Shape(call[t]) /\ DrainCall(call[t])
  BY DEF IInv, TypeOK, LockInv, DrainInv
<1>2. /\ call[t].h \in Handle /\ call[t].dst \in Handle
      /\ <<call[t].h, call[t].dst>> \in Moves
  BY <1>1 DEF Shape
<1> QED
  BY <1>1, <1>2 DEF DrainInv, AlikeInv, DrainCall, Call, Grp, IInv, TypeOK

LEMMA OtherDrains ==
  ASSUME QuietMoves, IInv, DrainInv, GrpStable, OnlyMoves,
         NEW u \in Thread, call'[u] = call[u]
  PROVE  DrainCall(call[u])'
<1>1. CASE call[u].op # "moveto"
  BY <1>1 DEF DrainCall
<1>2. CASE call[u].op = "moveto"
  <2> DEFINE c == call[u]
  <2>1. /\ c \in Call /\ Shape(c) /\ DrainCall(c) /\ c.h \in Handle /\ c.dst \in Handle
        /\ <<c.h, c.dst>> \in Moves /\ c.path \in Cgroup /\ grp[c.dst].path \in Cgroup
    BY <1>2, MoveFacts
  <2>2. /\ grp[c.h].err # "free" /\ grp[c.dst].err # "free" /\ c.todo \subseteq Active
    BY <1>2, <2>1 DEF DrainCall
  <2>3. /\ grp'[c.h].err # "free" /\ grp'[c.dst].err # "free"
        /\ grp'[c.dst].path = grp[c.dst].path
    BY <2>1, <2>2 DEF GrpStable
  <2>4. ASSUME NEW p \in Pid, NEW s \in Subsystem, Alive(p)'
        PROVE  /\ Alive(p)
               /\ member'[p][s] \in {member[p][s], grp[c.dst].path}
    <3>1. /\ Alive(p)
          /\ \/ member'[p][s] = member[p][s]
             \/ \E h, d \in Handle : <<h, d>> \in Moves /\ member'[p][s] = grp[d].path
      BY <2>4 DEF OnlyMoves
    <3>2. \A h, d \in Handle : <<h, d>> \in Moves => d = c.dst
      BY <2>1 DEF QuietMoves
    <3> QED
      BY <3>1, <3>2
  <2>5. ASSUME ~Under(c.path, grp[c.dst].path), NEW p \in Pid, NEW s \in Subsystem,
               InTree(p, s, c.path)'
        PROVE  InTree(p, s, c.path) /\ member'[p][s] = member[p][s]
    <3>1. Alive(p)' /\ member'[p][s] \in Subtree(c.path)
      BY <1>2, <2>5 DEF InTree
    <3>2. grp[c.dst].path \notin Subtree(c.path)
      BY <2>1, <2>5 DEF Subtree
    <3> QED
      BY <2>4, <3>1, <3>2 DEF InTree
  <2>6. c.at = "write" => c.pid \in Pid
    BY <1>2, <2>1 DEF Shape
  <2>7. ASSUME ~Under(c.path, grp[c.dst].path)
        PROVE  /\ \A s \in Active \ c.todo, p \in Pid : ~InTree(p, s, c.path)'
               /\ \A s \in Subsystem, p \in Pid :
                    IsFirst(s, c.todo) /\ InTree(p, s, c.path)' =>
                       /\ c.at = "walk" => \/ p \in c.found
                                           \/ \E d \in c.pend : member'[p][s] \in Subtree(d)
                       /\ c.at \in {"move", "lock", "write"} => p \in c.found
               /\ c.at = "write" =>
                    \A s \in Active \ c.wtodo :
                        Alive(c.pid)' => member'[c.pid][s] = grp[c.dst].path
    BY <1>2, <2>1, <2>4, <2>5, <2>6, <2>7 DEF DrainCall, Active
  <2> QED
    BY <1>2, <2>2, <2>3, <2>7 DEF DrainCall, InTree
<1> QED
  BY <1>1, <1>2

LEMMA DrainStep ==
  ASSUME QuietMoves, IInv, DrainInv, [Next]_vars, HomesInv', OnlyMoves,
         NEW t \in Thread, \A u \in Thread \ {t} : call'[u] = call[u],
         DrainCall(call[t])', AlikeCall(call'[t]),
         \A h \in Handle : grp[h].err = "free" /\ grp'[h].err # "free" =>
            grp'[h].subs = Active
  PROVE  DrainInv'
<1>1. \A u \in Thread : DrainCall(call[u])'
  BY GrpIsStable, OtherDrains
<1>2. \A u \in Thread : AlikeCall(call'[u])
  BY DEF DrainInv, AlikeInv
<1>3. \A h \in Handle : grp'[h].err # "free" => grp'[h].subs = Active
  BY GrpIsStable DEF DrainInv, AlikeInv, GrpStable
<1>4. AlikeInv'
  BY <1>2, <1>3 DEF AlikeInv, AlikeCall, Active
<1> QED
  BY <1>1, <1>4 DEF DrainInv

LEMMA StayPut == UNCHANGED <<member, proc>> => OnlyMoves
  BY DEF OnlyMoves, Alive

(* Steps after which the call is no MoveTo, and that leave the trees and   *)
(* the handles in use alone.                                               *)
LEMMA NoMoveStep ==
  ASSUME QuietMoves, IInv, DrainInv, [Next]_vars, NEW t \in Thread, NEW c,
         Becomes(t, c), c.op # "moveto", AlikeCall(c), UNCHANGED <<member, proc>>, HomesInv',
         \A h \in Handle : grp[h].err = "free" /\ grp'[h].err # "free" =>
            grp'[h].subs = Active
  PROVE  DrainInv'
<1>1. call'[t] = c /\ \A u \in Thread \ {t} : call'[u] = call[u]
  BY DEF Becomes, IInv, TypeOK
<1>2. DrainCall(call[t])'
  BY <1>1 DEF DrainCall
<1> QED
  BY <1>1, <1>2, StayPut, DrainStep

LEMMA ReturnDrains ==
  ASSUME QuietMoves, IInv, DrainInv, [Next]_vars, NEW t \in Thread, Return(t),
         UNCHANGED <<member, proc>>, HomesInv',
         \A h \in Handle : grp[h].err = "free" /\ grp'[h].err # "free" =>
            grp'[h].subs = Active
  PROVE  DrainInv'
<1>1. Idle.op = "idle" /\ AlikeCall(Idle)
  BY DEF Idle, AlikeCall
<1> QED
  BY <1>1, NoMoveStep DEF Return

(* A step within a MoveTo that only the call itself notices.               *)
LEMMA MoveStep ==
  ASSUME QuietMoves, IInv, DrainInv, [Next]_vars, NEW t \in Thread, NEW c,
         Becomes(t, c), c.op = "moveto", DrainCall(c), UNCHANGED <<dirs, member, proc, grp>>
  PROVE  DrainInv'
<1>1. call'[t] = c /\ \A u \in Thread \ {t} : call'[u] = call[u]
  BY DEF Becomes, IInv, TypeOK
<1>2. DrainCall(call[t])'
  BY <1>1 DEF DrainCall, InTree, Alive
<1>3. HomesInv'
  BY SameHomes DEF DrainInv, Alive
<1>4. AlikeCall(c)
  BY DEF AlikeCall
<1> QED
  BY <1>1, <1>2, <1>3, <1>4, StayPut, DrainStep

LEMMA BeginDrains ==
  ASSUME QuietMoves, IInv, DrainInv, [Next]_vars, NEW t \in Thread, Begin(t)
  PROVE  DrainInv'
<1> USE DEF QuietMoves
<1>1. UNCHANGED <<dirs, member, proc>> /\ HomesInv'
  <2>1. UNCHANGED <<dirs, member, proc>>
    BY DEF Begin, BeginNew, BeginLoad, BeginChild, BeginAdd, BeginDelete, State,
           BeginMoveTo, kvars
  <2> QED
    BY <2>1, SameHomes DEF DrainInv, Alive
<1>2. ASSUME NEW p \in Paths, BeginNew(t, p) PROVE DrainInv'
  <2> DEFINE c == [Idle EXCEPT !.op = "new", !.path = p, !.todo = Subsystem]
  <2>1. c.op = "new" /\ c.subs = {} /\ c.todo = Subsystem /\ Becomes(t, c) /\ UNCHANGED grp
    BY <1>2 DEF BeginNew, hvars, Idle
  <2> HIDE DEF c
  <2>2. AlikeCall(c)
    BY <2>1 DEF AlikeCall, Active
  <2> QED
    BY <1>1, <2>1, <2>2, NoMoveStep
<1>3. ASSUME NEW h \in Handle, NEW n \in Names, BeginChild(t, h, n) PROVE DrainInv'
  <2> DEFINE c == [Idle EXCEPT !.op = "child", !.h = h, !.todo = grp[h].subs,
                               !.path = Append(grp[h].path, n)]
  <2>1. /\ c.op = "child" /\ c.subs = {} /\ c.todo = grp[h].subs /\ Becomes(t, c)
        /\ UNCHANGED grp /\ grp[h].err = "nil"
    BY <1>3 DEF BeginChild, Usable, Idle
  <2> HIDE DEF c
  <2>2. AlikeCall(c)
    BY <2>1 DEF AlikeCall, Active, DrainInv, AlikeInv
  <2> QED
    BY <1>1, <2>1, <2>2, NoMoveStep
<1>4. ASSUME NEW h \in Handle, BeginDelete(t, h) PROVE DrainInv'
  <2> DEFINE c == [Idle EXCEPT !.op = "delete", !.at = "next", !.h = h,
                               !.path = grp[h].path, !.todo = grp[h].subs]
  <2>1. c.op = "delete" /\ Becomes(t, c) /\ UNCHANGED grp
    BY <1>4 DEF BeginDelete, Idle
  <2> HIDE DEF c
  <2>2. AlikeCall(c)
    BY <2>1 DEF AlikeCall
  <2> QED
    BY <1>1, <2>1, <2>2, NoMoveStep
<1>5. ASSUME NEW h \in Handle, State(t, h) PROVE DrainInv'
  <2>1. UNCHANGED call /\ grp' = [grp EXCEPT ![h].err = "deleted"] /\ grp[h].err = "nil"
    BY <1>5 DEF State, Usable
  <2>2. \A g \in Handle : grp[g].err = "free" => grp'[g].err = "free"
    BY <2>1 DEF IInv, TypeOK
  <2>3. DrainCall(call[t])'
    BY <1>1, <2>1, GrpIsStable, StayPut, OtherDrains
  <2> QED
    BY <1>1, <2>1, <2>2, <2>3, StayPut, DrainStep DEF DrainInv, AlikeInv
<1>6. ASSUME NEW h \in Handle, NEW d \in Handle, BeginMoveTo(t, h, d) PROVE DrainInv'
  <2> DEFINE c == [Idle EXCEPT !.op = "moveto", !.at = "next", !.h = h, !.dst = d,
                               !.path = grp[h].path, !.todo = grp[h].subs]
  <2>1. /\ c.op = "moveto" /\ c.at = "next" /\ c.h = h /\ c.dst = d /\ c.todo = grp[h].subs
        /\ Becomes(t, c) /\ UNCHANGED grp /\ grp[h].err = "nil" /\ grp[d].err # "free"
    BY <1>6 DEF BeginMoveTo, Usable, Idle
  <2> HIDE DEF c
  <2>2. c.todo = Active
    BY <2>1 DEF DrainInv, AlikeInv
  <2>3. DrainCall(c)
    BY <2>1, <2>2 DEF DrainCall
  <2> QED
    BY <1>1, <2>1, <2>3, MoveStep
<1>7. /\ ~\E p \in Paths : BeginLoad(t, p)
      /\ ~\E h \in Handle, p \in Pid, f \in Filters : BeginAdd(t, h, p, f)
  BY DEF BeginLoad, BeginAdd
<1> QED
  BY <1>2, <1>3, <1>4, <1>5, <1>6, <1>7 DEF Begin

LEMMA CreateDrains ==
  ASSUME QuietMoves, IInv, DrainInv, [Next]_vars, NEW t \in Thread,
         \/ SkipInactive(t) \/ InitSubsystem(t) \/ InitFails(t) \/ LoadSubsystem(t)
         \/ \E h \in Handle : FinishNew(t, h) \/ FinishLoad(t, h)
  PROVE  DrainInv'
<1>c. /\ call[t] \in Call /\ AlikeCall(call[t]) /\ UNCHANGED <<member, proc>>
      /\ grp \in [Handle -> Grp] /\ call[t].path \in Cgroup
  BY DEF IInv, TypeOK, DrainInv, AlikeInv, SkipInactive, InitSubsystem, InitFails,
         LoadSubsystem, FinishNew, FinishLoad, kvars, Call
<1>0. UNCHANGED dirs => HomesInv'
  BY <1>c, SameHomes DEF DrainInv, Alive
<1>1. CASE SkipInactive(t)
  <2>1. PICK s \in Inactive : Return(t) \/ Becomes(t, [call[t] EXCEPT !.todo = @ \ {s}])
    BY <1>1 DEF SkipInactive
  <2> DEFINE c == [call[t] EXCEPT !.todo = @ \ {s}]
  <2>2. /\ c.op = call[t].op /\ c.todo = call[t].todo \ {s} /\ c.subs = call[t].subs
        /\ call[t].op = "new"
    BY <1>1, <1>c DEF Call, SkipInactive, AlikeCall
  <2>3. (Return(t) \/ Becomes(t, c)) /\ UNCHANGED <<dirs, grp>>
    BY <1>1, <2>1 DEF SkipInactive, kvars
  <2> HIDE DEF c
  <2>4. AlikeCall(c)
    BY <1>c, <2>2 DEF AlikeCall
  <2> QED
    BY <1>c, <1>0, <2>2, <2>3, <2>4, NoMoveStep, ReturnDrains
<1>2. CASE InitSubsystem(t)
  <2>1. PICK s \in Subsystem \ Inactive :
            /\ s \in call[t].todo /\ MkdirAll(s, call[t].path)
            /\ Becomes(t, [call[t] EXCEPT !.todo = @ \ {s}, !.subs = @ \cup {s}])
    BY <1>2 DEF InitSubsystem, IsFirst
  <2> DEFINE c == [call[t] EXCEPT !.todo = @ \ {s}, !.subs = @ \cup {s}]
  <2>2. /\ c.op = call[t].op /\ c.todo = call[t].todo \ {s} /\ c.subs = call[t].subs \cup {s}
        /\ call[t].op \in {"new", "child"} /\ Becomes(t, c) /\ UNCHANGED grp
    BY <1>2, <1>c, <2>1 DEF Call, InitSubsystem, Creating, hvars
  <2> HIDE DEF c
  <2>3. AlikeCall(c)
    BY <1>c, <2>1, <2>2 DEF AlikeCall, Active
  <2>4. HomesInv'
    BY <1>c, <2>1, MkdirHomes DEF DrainInv
  <2> QED
    BY <1>c, <2>2, <2>3, <2>4, NoMoveStep
<1>3. CASE InitFails(t)
  <2>1. PICK s \in Subsystem : MkdirAll(s, call[t].path) \/ UNCHANGED dirs
    BY <1>3 DEF InitFails
  <2>2. HomesInv'
    BY <1>c, <1>0, <2>1, MkdirHomes DEF DrainInv
  <2> QED
    BY <1>3, <1>c, <2>2, ReturnDrains DEF InitFails
<1>4. ASSUME NEW h \in Handle, FinishNew(t, h) PROVE DrainInv'
  <2>1. /\ call[t].op \in {"new", "child"} /\ call[t].todo = {} /\ Return(t)
        /\ UNCHANGED dirs
        /\ grp' = [grp EXCEPT ![h] = [path |-> call[t].path, subs |-> call[t].subs,
                                      err |-> "nil"]]
    BY <1>4 DEF FinishNew, Creating, Create, kvars
  <2>2. call[t].subs = Active
    BY <1>c, <2>1 DEF AlikeCall
  <2>3. \A g \in Handle : grp[g].err = "free" /\ grp'[g].err # "free" => grp'[g].subs = Active
    BY <1>c, <2>1, <2>2
  <2> QED
    BY <1>c, <1>0, <2>1, <2>3, ReturnDrains
<1>5. ~LoadSubsystem(t) /\ ~\E h \in Handle : FinishLoad(t, h)
  BY <1>c DEF AlikeCall, LoadSubsystem, FinishLoad
<1> QED
  BY <1>1, <1>2, <1>3, <1>4, <1>5

LEMMA KernelDrains ==
  ASSUME QuietMoves, IInv, DrainInv, [Next]_vars, Kernel
  PROVE  DrainInv'
<1>1. UNCHANGED <<dirs, member, grp, call>> /\ \A p \in Pid : Alive(p)' => Alive(p)
  <2>1. ASSUME NEW q \in Pid, Wake(q) \/ Exit(q)
        PROVE  UNCHANGED <<dirs, member>> /\ \A p \in Pid : Alive(p)' => Alive(p)
    BY <2>1 DEF Wake, Exit, Alive, IInv, TypeOK, KernelTypeOK
  <2>2. ~\E p, q \in Pid : Fork(p, q)
    BY DEF QuietMoves, Fork
  <2> QED
    BY <2>1, <2>2 DEF Kernel, KernelNext, hvars
<1>2. HomesInv'
  BY <1>1, SameHomes DEF DrainInv
<1>3. OnlyMoves
  BY <1>1 DEF OnlyMoves
<1>4. \A u \in Thread : DrainCall(call[u])'
  BY <1>1, <1>3, SameGrp, OtherDrains
<1>5. AlikeInv'
  BY <1>1 DEF DrainInv, AlikeInv
<1> QED
  BY <1>2, <1>4, <1>5 DEF DrainInv

(* Delete: its steps take away directories nobody lives under.             *)
LEMMA DeleteDrains ==
  ASSUME QuietMoves, IInv, DrainInv, [Next]_vars, NEW t \in Thread, call[t].op = "delete",
         \/ BeginWalk(t) \/ VisitDir(t) \/ DirVanished(t)
         \/ SkipBusy(t) \/ BeginRemove(t) \/ TryRemove(t) \/ FinishDelete(t)
  PROVE  DrainInv'
<1>1. UNCHANGED <<member, proc>> /\ (Return(t) \/ \E c : Becomes(t, c) /\ c.op = "delete")
  BY DeleteGoesOn
<1>2. UNCHANGED dirs => HomesInv'
  BY <1>1, SameHomes DEF DrainInv, Alive
<1>3. HomesInv'
  <2>1. CASE TryRemove(t)
    <3>1. PICK s \in Subsystem : RemoveAll(s, call[t].path)
      BY <2>1 DEF TryRemove
    <3>2. call[t].path \in Cgroup
      BY DEF IInv, TypeOK, Call
    <3> QED
      BY <1>1, <3>1, <3>2, RmdirHomes DEF DrainInv
  <2>2. CASE ~TryRemove(t)
    BY <1>2, <2>2 DEF BeginWalk, VisitDir, DirVanished, SkipBusy, BeginRemove, FinishDelete,
       kvars
  <2> QED
    BY <2>1, <2>2
<1>4. \A h \in Handle : grp[h].err = "free" /\ grp'[h].err # "free" => grp'[h].subs = Active
  <2>1. CASE FinishDelete(t)
    <3>1. call[t].h \in Handle /\ grp[call[t].h].err = "nil"
      BY DeleteOwns
    <3> QED
      BY <2>1, <3>1 DEF FinishDelete, IInv, TypeOK
  <2>2. CASE ~FinishDelete(t)
    BY <2>2 DEF BeginWalk, VisitDir, DirVanished, SkipBusy, BeginRemove, TryRemove, hvars
  <2> QED
    BY <2>1, <2>2
<1>5. \A c : c.op = "delete" => AlikeCall(c)
  BY DEF AlikeCall
<1> QED
  BY <1>1, <1>3, <1>4, <1>5, NoMoveStep, ReturnDrains

(* The walk of a MoveTo.                                                   *)
LEMMA VisitDrains ==
  ASSUME QuietMoves, IInv, DrainInv, [Next]_vars, NEW t \in Thread, call[t].op = "moveto",
         VisitDir(t)
  PROVE  DrainInv'
<1> DEFINE c == call[t]
<1>1. PICK s \in Subsystem, d \in c.pend :
          /\ IsFirst(s, c.todo) /\ d \in dirs[s] /\ c.at = "walk"
          /\ Becomes(t, [c EXCEPT !.pend = (@ \ {d}) \cup Children(s, d),
                                  !.found = @ \cup ProcsIn(s, d)])
  BY DEF VisitDir, Walking
<1> DEFINE e == [c EXCEPT !.pend = (@ \ {d}) \cup Children(s, d),
                          !.found = @ \cup ProcsIn(s, d)]
<1>2. /\ c \in Call /\ DrainCall(c) /\ UNCHANGED <<dirs, member, proc, grp>>
      /\ member \in [Pid -> [Subsystem -> Cgroup]] /\ dirs \in [Subsystem -> SUBSET Cgroup]
  BY MoveFacts DEF VisitDir, kvars, hvars, IInv, TypeOK, KernelTypeOK
<1>3. /\ e.op = "moveto" /\ e.at = "walk" /\ e.h = c.h /\ e.dst = c.dst /\ e.todo = c.todo
      /\ e.path = c.path /\ e.pend = (c.pend \ {d}) \cup Children(s, d)
      /\ e.found = c.found \cup ProcsIn(s, d) /\ Becomes(t, e)
  BY <1>1, <1>2 DEF Call
<1> HIDE DEF e
<1>4. ASSUME NEW p \in Pid, Alive(p), member[p][s] \in Subtree(d)
      PROVE  p \in e.found \/ \E k \in e.pend : member[p][s] \in Subtree(k)
  <2> DEFINE m == member[p][s]
  <2>1. m \in dirs[s] /\ m \in Cgroup /\ d \in Cgroup /\ Under(d, m)
    BY <1>1, <1>2, <1>4 DEF DrainInv, HomesInv, Subtree
  <2>2. CASE m = d
    BY <1>3, <1>4, <2>2 DEF ProcsIn, Alive
  <2>3. CASE m # d
    <3>1. PICK k \in Cgroup : Len(k) = Len(d) + 1 /\ Under(d, k) /\ Under(k, m)
      BY <2>1, <2>3, ThroughChild
    <3>2. k \in dirs[s]
      BY <2>1, <3>1 DEF DrainInv, HomesInv, Ancestors
    <3>3. k \in e.pend /\ m \in Subtree(k)
      BY <1>3, <2>1, <3>1, <3>2 DEF Children, Subtree
    <3> QED
      BY <3>3
  <2> QED
    BY <2>2, <2>3
<1>5. \A r \in Subsystem : IsFirst(r, c.todo) => r = s
  <2>1. \A r \in Subsystem : Order[r] \in Nat
    BY HandleAssumption
  <2> QED
    BY <1>1, <2>1, OrderAssumption DEF IsFirst
<1>6. ASSUME ~Under(c.path, grp[c.dst].path), NEW p \in Pid, InTree(p, s, c.path)
      PROVE  p \in e.found \/ \E k \in e.pend : member[p][s] \in Subtree(k)
  <2>1. p \in c.found \/ \E k \in c.pend : member[p][s] \in Subtree(k)
    BY <1>1, <1>2, <1>6 DEF DrainCall
  <2>2. CASE p \in c.found
    BY <1>3, <2>2
  <2>3. ASSUME NEW k \in c.pend, member[p][s] \in Subtree(k), k # d
        PROVE  \E i \in e.pend : member[p][s] \in Subtree(i)
    BY <1>3, <2>3
  <2>4. CASE member[p][s] \in Subtree(d)
    BY <1>4, <1>6, <2>4 DEF InTree
  <2> QED
    BY <2>1, <2>2, <2>3, <2>4
<1>7. DrainCall(e)
  BY <1>2, <1>3, <1>5, <1>6 DEF DrainCall
<1> QED
  BY <1>2, <1>3, <1>7, MoveStep

LEMMA WalkDrains ==
  ASSUME QuietMoves, IInv, DrainInv, [Next]_vars, NEW t \in Thread, call[t].op = "moveto",
         BeginWalk(t) \/ DirVanished(t) \/ BeginMoving(t) \/ NextProcess(t)
         \/ FinishSubsystem(t) \/ FinishMoveTo(t)
  PROVE  DrainInv'
<1> DEFINE c == call[t]
<1>1. /\ c \in Call /\ DrainCall(c) /\ UNCHANGED <<dirs, member, proc, grp>>
      /\ c.path \in Cgroup
  BY MoveFacts DEF BeginWalk, DirVanished, BeginMoving, NextProcess, FinishSubsystem,
                   FinishMoveTo, kvars, hvars
<1>2. HomesInv'
  BY <1>1, SameHomes DEF DrainInv, Alive
<1>3. CASE BeginWalk(t)
  <2> DEFINE e == [c EXCEPT !.at = "walk", !.pend = {c.path}]
  <2>1. /\ e.op = "moveto" /\ e.at = "walk" /\ e.h = c.h /\ e.dst = c.dst /\ e.todo = c.todo
        /\ e.path = c.path /\ e.pend = {c.path} /\ Becomes(t, e)
    BY <1>1, <1>3 DEF Call, BeginWalk
  <2> HIDE DEF e
  <2>2. DrainCall(e)
    BY <1>1, <2>1 DEF DrainCall, InTree
  <2> QED
    BY <1>1, <2>1, <2>2, MoveStep
<1>4. CASE DirVanished(t) \/ FinishMoveTo(t)
  BY <1>1, <1>2, <1>4, ReturnDrains DEF DirVanished, FinishMoveTo
<1>5. CASE BeginMoving(t)
  <2> DEFINE e == [c EXCEPT !.at = "move"]
  <2>1. /\ e.op = "moveto" /\ e.at = "move" /\ e.h = c.h /\ e.dst = c.dst /\ e.todo = c.todo
        /\ e.path = c.path /\ e.found = c.found /\ Becomes(t, e)
    BY <1>1, <1>5 DEF Call, BeginMoving
  <2>2. c.at = "walk" /\ c.pend = {}
    BY <1>5 DEF BeginMoving, Walked, Walking
  <2> HIDE DEF e
  <2>3. DrainCall(e)
    BY <1>1, <2>1, <2>2 DEF DrainCall
  <2> QED
    BY <1>1, <2>1, <2>3, MoveStep
<1>6. CASE NextProcess(t)
  <2>1. PICK p \in c.found : Becomes(t, [c EXCEPT !.at = "lock", !.pid = p])
    BY <1>6 DEF NextProcess
  <2> DEFINE e == [c EXCEPT !.at = "lock", !.pid = p]
  <2>2. /\ e.op = "moveto" /\ e.at = "lock" /\ e.h = c.h /\ e.dst = c.dst /\ e.todo = c.todo
        /\ e.path = c.path /\ e.found = c.found /\ Becomes(t, e) /\ c.at = "move"
    BY <1>1, <1>6, <2>1 DEF Call, NextProcess, Doing
  <2> HIDE DEF e
  <2>3. DrainCall(e)
    BY <1>1, <2>2 DEF DrainCall
  <2> QED
    BY <1>1, <2>2, <2>3, MoveStep
<1>7. CASE FinishSubsystem(t)
  <2>1. PICK s \in Subsystem :
          /\ IsFirst(s, c.todo) /\ c.at = "move" /\ c.found = {}
          /\ Becomes(t, NextSubsystem([c EXCEPT !.todo = @ \ {s}]))
    BY <1>7 DEF FinishSubsystem, Doing
  <2> DEFINE e == NextSubsystem([c EXCEPT !.todo = @ \ {s}])
  <2>2. /\ e.op = "moveto" /\ e.at = "next" /\ e.h = c.h /\ e.dst = c.dst
        /\ e.todo = c.todo \ {s} /\ e.path = c.path /\ Becomes(t, e)
    BY <1>1, <2>1 DEF Call, NextSubsystem
  <2> HIDE DEF e
  <2>3. ~Under(c.path, grp[c.dst].path) => \A p \in Pid : ~InTree(p, s, c.path)
    BY <1>1, <2>1 DEF DrainCall
  <2>4. DrainCall(e)
    BY <1>1, <2>2, <2>3 DEF DrainCall
  <2> QED
    BY <1>1, <2>2, <2>4, MoveStep
<1> QED
  BY <1>3, <1>4, <1>5, <1>6, <1>7

(* One process of a MoveTo, from the lock of the destination on.           *)
LEMMA OneDrains ==
  ASSUME QuietMoves, IInv, DrainInv, [Next]_vars, NEW t \in Thread, call[t].op = "moveto",
         LockDestination(t) \/ RetryWrite(t) \/ ProcessGone(t) \/ WriteFails(t) \/ FinishOne(t)
  PROVE  DrainInv'
<1> DEFINE c == call[t]
<1>1. /\ c \in Call /\ DrainCall(c) /\ UNCHANGED <<dirs, member, proc, grp>>
      /\ grp[c.dst].subs = Active /\ c.todo \subseteq Active
  BY MoveFacts DEF LockDestination, RetryWrite, ProcessGone, WriteFails, FinishOne, DrainCall,
                   kvars, hvars
<1>2. HomesInv'
  BY <1>1, SameHomes DEF DrainInv, Alive
<1>3. CASE Return(t)
  BY <1>1, <1>2, <1>3, ReturnDrains
<1>4. CASE LockDestination(t) /\ ~Return(t)
  <2> DEFINE e == [c EXCEPT !.at = "write", !.tries = 0, !.wtodo = grp[c.dst].subs]
  <2>1. /\ e.op = "moveto" /\ e.at = "write" /\ e.h = c.h /\ e.dst = c.dst /\ e.todo = c.todo
        /\ e.path = c.path /\ e.found = c.found /\ e.wtodo = Active /\ c.at = "lock"
        /\ Becomes(t, e)
    BY <1>1, <1>4 DEF Call, LockDestination, Doing
  <2> HIDE DEF e
  <2>2. DrainCall(e)
    BY <1>1, <2>1 DEF DrainCall
  <2> QED
    BY <1>1, <2>1, <2>2, MoveStep
<1>5. CASE RetryWrite(t)
  <2> DEFINE e == [c EXCEPT !.tries = @ + 1]
  <2>1. /\ e.op = "moveto" /\ e.at = c.at /\ e.h = c.h /\ e.dst = c.dst /\ e.todo = c.todo
        /\ e.path = c.path /\ e.found = c.found /\ e.pend = c.pend /\ e.wtodo = c.wtodo
        /\ e.pid = c.pid /\ Becomes(t, e)
    BY <1>1, <1>5 DEF Call, RetryWrite
  <2> HIDE DEF e
  <2>2. DrainCall(e)
    BY <1>1, <2>1 DEF DrainCall
  <2> QED
    BY <1>1, <2>1, <2>2, MoveStep
<1>6. ASSUME NEW e, Becomes(t, e), c.at = "write", e.op = "moveto", e.at = "move",
             e.h = c.h, e.dst = c.dst, e.todo = c.todo, e.path = c.path,
             e.found = c.found \ {c.pid},
             c.wtodo = {} \/ ~Alive(c.pid)
      PROVE  DrainInv'
  <2>1. c.pid \in Pid /\ grp[c.dst].path \in Cgroup
    BY <1>6, MoveFacts DEF Shape
  <2>2. ASSUME ~Under(c.path, grp[c.dst].path), NEW s \in Active
        PROVE  ~InTree(c.pid, s, c.path)
    <3>1. \A r \in Active \ c.wtodo : Alive(c.pid) => member[c.pid][r] = grp[c.dst].path
      BY <1>1, <1>6, <2>2 DEF DrainCall
    <3>2. Alive(c.pid) => member[c.pid][s] = grp[c.dst].path
      BY <1>6, <3>1
    <3>3. grp[c.dst].path \notin Subtree(c.path)
      BY <2>2 DEF Subtree
    <3> QED
      BY <3>2, <3>3 DEF InTree
  <2>3. ASSUME ~Under(c.path, grp[c.dst].path), NEW s \in Subsystem, NEW p \in Pid,
               IsFirst(s, c.todo), InTree(p, s, c.path)
        PROVE  p \in e.found
    <3>1. s \in Active
      BY <1>1, <2>3 DEF IsFirst
    <3>2. p # c.pid
      BY <2>2, <2>3, <3>1
    <3>3. p \in c.found
      BY <1>1, <1>6, <2>3 DEF DrainCall
    <3> QED
      BY <1>6, <3>2, <3>3
  <2>4. DrainCall(e)
    BY <1>1, <1>6, <2>3 DEF DrainCall
  <2> QED
    BY <1>1, <1>6, <2>4, MoveStep
<1>7. CASE ProcessGone(t)
  <2> DEFINE e == [c EXCEPT !.at = "move", !.wtodo = {}, !.tries = 0,
                            !.pid = 0, !.found = @ \ {c.pid}]
  <2>1. /\ Becomes(t, e) /\ c.at = "write" /\ e.op = "moveto" /\ e.at = "move"
        /\ e.h = c.h /\ e.dst = c.dst /\ e.todo = c.todo /\ e.path = c.path
        /\ e.found = c.found \ {c.pid} /\ ~Alive(c.pid)
    BY <1>1, <1>7 DEF Call, ProcessGone, Writing, Alive
  <2> HIDE DEF e
  <2> QED
    BY <1>6, <2>1
<1>8. CASE FinishOne(t)
  <2> DEFINE e == [c EXCEPT !.at = "move", !.pid = 0, !.found = @ \ {c.pid}]
  <2>1. /\ Becomes(t, e) /\ c.at = "write" /\ e.op = "moveto" /\ e.at = "move"
        /\ e.h = c.h /\ e.dst = c.dst /\ e.todo = c.todo /\ e.path = c.path
        /\ e.found = c.found \ {c.pid} /\ c.wtodo = {}
    BY <1>1, <1>8 DEF Call, FinishOne, Added
  <2> HIDE DEF e
  <2> QED
    BY <1>6, <2>1
<1>9. CASE WriteFails(t)
  BY <1>3, <1>9 DEF WriteFails
<1> QED
  BY <1>3, <1>4, <1>5, <1>7, <1>8, <1>9

LEMMA WriteDrains ==
  ASSUME QuietMoves, IInv, DrainInv, [Next]_vars, NEW t \in Thread, WriteProcs(t)
  PROVE  DrainInv'
<1> DEFINE c == call[t]
<1>0. c.op = "moveto"
  BY DEF WriteProcs, Writing, DrainInv, AlikeInv, AlikeCall
<1>1. PICK s \in Subsystem :
          /\ s \in c.wtodo /\ c.at = "write" /\ proc[c.pid] = "run"
          /\ Target(t) \in dirs[s] /\ WritePid(c.pid, s, Target(t))
          /\ Becomes(t, [c EXCEPT !.wtodo = @ \ {s}, !.tries = 0])
  BY DEF WriteProcs, Writing, IsFirst
<1>2. UNCHANGED <<dirs, proc, grp>>
  BY DEF WriteProcs, hvars
<1>3. /\ c \in Call /\ Shape(c) /\ DrainCall(c) /\ c.dst \in Handle /\ c.h \in Handle
      /\ <<c.h, c.dst>> \in Moves /\ c.path \in Cgroup /\ Target(t) \in Cgroup
      /\ Target(t) = grp[c.dst].path
  BY <1>0, MoveFacts DEF Target
<1>4. c.pid \in Pid /\ member \in [Pid -> [Subsystem -> Cgroup]]
  BY <1>0, <1>1, <1>3 DEF Shape, IInv, TypeOK, KernelTypeOK
<1>5. /\ member'[c.pid][s] = Target(t)
      /\ \A p \in Pid, r \in Subsystem :
            (p # c.pid \/ r # s) => member'[p][r] = member[p][r]
  BY <1>1, <1>4 DEF WritePid
<1>6. OnlyMoves
  BY <1>2, <1>3, <1>5 DEF OnlyMoves, Alive
<1>7. HomesInv'
  BY <1>1, <1>2, <1>5, SameHomes DEF DrainInv, Alive
<1> DEFINE e == [c EXCEPT !.wtodo = @ \ {s}, !.tries = 0]
<1>8. /\ e.op = "moveto" /\ e.at = "write" /\ e.h = c.h /\ e.dst = c.dst /\ e.todo = c.todo
      /\ e.path = c.path /\ e.found = c.found /\ e.pend = c.pend
      /\ e.wtodo = c.wtodo \ {s} /\ e.pid = c.pid
  BY <1>0, <1>1, <1>3 DEF Call
<1>9. call'[t] = e /\ \A u \in Thread \ {t} : call'[u] = call[u]
  BY <1>1 DEF Becomes, IInv, TypeOK
<1> HIDE DEF e
<1>10. AlikeCall(call'[t])
  BY <1>8, <1>9 DEF AlikeCall
<1>11. ASSUME ~Under(c.path, grp[c.dst].path), NEW p \in Pid, NEW r \in Subsystem,
              Alive(p)', member'[p][r] \in Subtree(c.path)
       PROVE  InTree(p, r, c.path)
  <2>1. Alive(p)
    BY <1>2, <1>11 DEF Alive
  <2>2. Target(t) \notin Subtree(c.path)
    BY <1>3, <1>11 DEF Subtree
  <2>3. member'[p][r] = member[p][r]
    BY <1>5, <1>11, <2>2
  <2> QED
    BY <1>11, <2>1, <2>3 DEF InTree
<1>12. ASSUME ~Under(c.path, grp[c.dst].path)
       PROVE  /\ \A r \in Active \ c.todo, p \in Pid :
                    ~(Alive(p)' /\ member'[p][r] \in Subtree(c.path))
              /\ \A r \in Subsystem, p \in Pid :
                    IsFirst(r, c.todo) /\ Alive(p)' /\ member'[p][r] \in Subtree(c.path)
                       => p \in c.found
              /\ \A r \in Active \ (c.wtodo \ {s}) :
                    Alive(c.pid) => member'[c.pid][r] = grp[c.dst].path
  <2>1. /\ \A r \in Active \ c.todo, p \in Pid : ~InTree(p, r, c.path)
        /\ \A r \in Subsystem, p \in Pid :
              IsFirst(r, c.todo) /\ InTree(p, r, c.path) => p \in c.found
        /\ \A r \in Active \ c.wtodo : Alive(c.pid) => member[c.pid][r] = grp[c.dst].path
    BY <1>0, <1>1, <1>3, <1>12 DEF DrainCall
  <2>2. \A r \in Subsystem, p \in Pid :
           Alive(p)' /\ member'[p][r] \in Subtree(c.path) => InTree(p, r, c.path)
    BY <1>11, <1>12
  <2>3. ASSUME NEW r \in Active \ (c.wtodo \ {s}), Alive(c.pid)
        PROVE  member'[c.pid][r] = grp[c.dst].path
    BY <1>3, <1>4, <1>5, <2>1, <2>3 DEF Active
  <2>4. \A r \in Active : r \in Subsystem
    BY DEF Active
  <2> QED
    BY <2>1, <2>2, <2>3, <2>4
<1>13. DrainCall(call[t])'
  <2>1. grp[c.h].err # "free" /\ grp[c.dst].err # "free" /\ c.todo \subseteq Active
    BY <1>0, <1>3 DEF DrainCall
  <2>2. /\ call'[t].op = "moveto" /\ call'[t].at = "write" /\ call'[t].h = c.h
        /\ call'[t].dst = c.dst /\ call'[t].todo = c.todo /\ call'[t].path = c.path
        /\ call'[t].found = c.found /\ call'[t].pid = c.pid
        /\ call'[t].wtodo = c.wtodo \ {s}
    BY <1>8, <1>9
  <2>3. \A r \in Subsystem, p \in Pid :
           InTree(p, r, call[t].path)' <=> Alive(p)' /\ member'[p][r] \in Subtree(c.path)
    BY <2>2 DEF InTree
  <2>4. Alive(call[t].pid)' <=> Alive(c.pid)
    BY <1>2, <2>2 DEF Alive
  <2>5. \A r \in Active : r \in Subsystem
    BY DEF Active
  <2> QED
    BY <1>2, <1>12, <2>1, <2>2, <2>3, <2>4, <2>5 DEF DrainCall
<1> QED
  BY <1>2, <1>6, <1>7, <1>9, <1>10, <1>13, DrainStep

LEMMA StepDrains ==
  ASSUME QuietMoves
  PROVE  IInv /\ DrainInv /\ [Next]_vars => DrainInv'
<1> SUFFICES ASSUME IInv, DrainInv, [Next]_vars PROVE DrainInv'
  OBVIOUS
<1>1. \A t \in Thread : call[t].op \notin {"add", "load"}
  BY DEF DrainInv, AlikeInv, AlikeCall
<1>2. ASSUME NEW t \in Thread, Begin(t) PROVE DrainInv'
  BY <1>2, BeginDrains
<1>3. ASSUME NEW t \in Thread, Step(t) \/ LockDestination(t) PROVE DrainInv'
  <2>1. CASE \/ SkipInactive(t) \/ InitSubsystem(t) \/ InitFails(t) \/ LoadSubsystem(t)
             \/ \E h \in Handle : FinishNew(t, h) \/ FinishLoad(t, h)
    BY <2>1, CreateDrains
  <2>2. CASE \/ WriteProcs(t) \/ RetryWrite(t) \/ ProcessGone(t) \/ WriteFails(t)
             \/ LockDestination(t) \/ FinishOne(t)
    <3>1. call[t].op = "moveto"
      BY <1>1, <2>2 DEF WriteProcs, RetryWrite, ProcessGone, WriteFails, LockDestination,
         FinishOne, Writing, Doing
    <3> QED
      BY <2>2, <3>1, WriteDrains, OneDrains
  <2>3. ~FinishAdd(t)
    BY <1>1 DEF FinishAdd
  <2>4. CASE BeginWalk(t) \/ VisitDir(t) \/ DirVanished(t)
    <3>1. call[t].op \in {"delete", "moveto"}
      BY <2>4 DEF BeginWalk, VisitDir, DirVanished, Walking
    <3> QED
      BY <2>4, <3>1, DeleteDrains, VisitDrains, WalkDrains
  <2>5. CASE SkipBusy(t) \/ BeginRemove(t) \/ TryRemove(t) \/ FinishDelete(t)
    <3>1. call[t].op = "delete"
      BY <2>5 DEF SkipBusy, BeginRemove, TryRemove, FinishDelete, Doing
    <3> QED
      BY <2>5, <3>1, DeleteDrains
  <2>6. CASE BeginMoving(t) \/ NextProcess(t) \/ FinishSubsystem(t) \/ FinishMoveTo(t)
    <3>1. call[t].op = "moveto"
      BY <2>6 DEF BeginMoving, NextProcess, FinishSubsystem, FinishMoveTo, Doing
    <3> QED
      BY <2>6, <3>1, WalkDrains
  <2> QED
    BY <1>3, <2>1, <2>2, <2>3, <2>4, <2>5, <2>6 DEF Step
<1>4. CASE Kernel
  BY <1>4, KernelDrains
<1>5. CASE UNCHANGED vars
  <2>1. UNCHANGED <<dirs, member, proc, grp, call>>
    BY <1>5 DEF vars
  <2>2. HomesInv'
    BY <2>1, SameHomes DEF DrainInv, Alive
  <2>3. \A u \in Thread : DrainCall(call[u])'
    BY <2>1, SameGrp, StayPut, OtherDrains
  <2>4. AlikeInv'
    BY <2>1 DEF DrainInv, AlikeInv
  <2> QED
    BY <2>2, <2>3, <2>4 DEF DrainInv
<1> QED
  BY <1>2, <1>3, <1>4, <1>5 DEF Next

LEMMA InitDrains == Init => DrainInv
<1> SUFFICES ASSUME Init PROVE DrainInv
  OBVIOUS
<1>1. /\ dirs \in [Subsystem -> InitDirs] /\ proc \in [Pid -> {"none", "run"}]
      /\ \A p \in Pid, s \in Subsystem : member[p][s] \in dirs[s]
  BY DEF Init, KernelInit
<1>2. HomesInv
  BY <1>1, ClosedAssumption DEF HomesInv
<1>3. /\ \A h \in Handle : grp[h].err = "free"
      /\ \A t \in Thread : call[t].op = "idle"
  BY DEF Init, FreeGrp, Idle
<1> QED
  BY <1>2, <1>3 DEF DrainInv, AlikeInv, AlikeCall, DrainCall

(* When the calls are those of QuietMoves, a MoveTo that returns nil has   *)
(* left no process in the cgroup or beneath it, in any subsystem.          *)
THEOREM MoveToDrains ==
  ASSUME QuietMoves
  PROVE  Spec => MoveDrains
<1>1. Init => DrainInv
  BY InitDrains
<1>2. IInv /\ DrainInv /\ [Next]_vars => DrainInv'
  BY StepDrains
<1>3. ASSUME IInv, DrainInv, NEW t \in Thread, MoveToOk(t),
             ~Under(call[t].path, Target(t)),
             NEW s \in grp[call[t].h].subs, NEW d \in Subtree(call[t].path)
      PROVE  ProcsIn(s, d) = {}
  <2> DEFINE c == call[t]
  <2>1. c.op = "moveto" /\ c.todo = {}
    BY <1>3 DEF MoveToOk, Doing
  <2>2. DrainCall(c) /\ s \in Active
    BY <1>3, <2>1, MoveFacts
  <2>3. \A p \in Pid : ~InTree(p, s, c.path)
    BY <1>3, <2>1, <2>2 DEF DrainCall, Target
  <2> QED
    BY <1>3, <2>3 DEF InTree, ProcsIn, Alive
<1>4. IInv /\ DrainInv /\ [Next]_vars =>
        [\A t \in Thread :
           MoveToOk(t) /\ ~Under(call[t].path, Target(t)) =>
              \A s \in grp[call[t].h].subs, d \in Subtree(call[t].path) :
                  ProcsIn(s, d) = {}]_vars
  BY <1>3
<1> QED
  BY <1>1, <1>2, <1>4, Invariance, PTL DEF Spec, MoveDrains
=============================================================================
