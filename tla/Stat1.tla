-------------------------------- MODULE Stat1 --------------------------------
(***************************************************************************)
(* Stat of the v1 cgroup object (cgroup1/cgroup.go): under the mutex of    *)
(* the handle it starts one goroutine per subsystem that has statistics;   *)
(* they fill one Metrics together, pass every error to every handler, and  *)
(* report on a channel as long as the list of subsystems what the handlers *)
(* return.  Any number of callers share the handle.                        *)
(***************************************************************************)
EXTENDS Naturals, FiniteSets

CONSTANTS Caller, NoCaller,
          Subsystem,  \* c.subsystems
          Stater,     \* those that implement stater
          BadPath,    \* those of them whose path() may be an error
          Handlers    \* how many error handlers each call has (none means one)

ASSUME StatAssumption ==
    /\ NoCaller \notin Caller
    /\ IsFiniteSet(Subsystem) /\ Stater \subseteq Subsystem
    /\ BadPath \subseteq Stater
    /\ Handlers \in Nat \ {0}

VARIABLES mu,   \* who holds c.mu
          at,   \* what each caller is doing
          todo, \* the subsystems its loop has not reached
          gor,  \* its goroutines
          errs  \* what is in its channel: who sent it, from which handler

vars == <<mu, at, todo, gor, errs>>

NotStarted == [at |-> "none", next |-> 1]

TypeOK ==
    /\ mu \in Caller \cup {NoCaller}
    /\ at \in [Caller -> {"idle", "launch", "wait", "ok", "err"}]
    /\ todo \in [Caller -> SUBSET Subsystem]
    /\ gor \in [Caller -> [Stater -> [at : {"none", "stat", "handle", "send", "done"},
                                      next : 1 .. Handlers + 1]]]
    /\ errs \in [Caller -> SUBSET (Stater \X (1 .. Handlers))]
    /\ \A c \in Caller : at[c] \in {"launch", "wait"} <=> mu = c

Init ==
    /\ mu = NoCaller
    /\ at = [c \in Caller |-> "idle"]
    /\ todo = [c \in Caller |-> {}]
    /\ gor = [c \in Caller |-> [s \in Stater |-> NotStarted]]
    /\ errs = [c \in Caller |-> {}]

(* Slip: room for one error only.                                          *)
RoomForOne(c) == errs[c] = {}

(* errs = make(chan error, len(c.subsystems))                              *)
Room(c) == Cardinality(errs[c]) < Cardinality(Subsystem)

Lock(c) ==
    /\ at[c] = "idle" /\ mu = NoCaller
    /\ mu' = c
    /\ at' = [at EXCEPT ![c] = "launch"]
    /\ todo' = [todo EXCEPT ![c] = Subsystem]
    /\ UNCHANGED <<gor, errs>>

Skip(c) ==
    /\ at[c] = "launch"
    /\ \E s \in todo[c] \ Stater : todo' = [todo EXCEPT ![c] = @ \ {s}]
    /\ UNCHANGED <<mu, at, gor, errs>>

Launch(c) ==
    /\ at[c] = "launch"
    /\ \E s \in todo[c] \cap Stater :
          /\ todo' = [todo EXCEPT ![c] = @ \ {s}]
          /\ gor' = [gor EXCEPT ![c][s].at = "stat"]
    /\ UNCHANGED <<mu, at, errs>>

(* Slip: the mutex stays locked on the error path.                         *)
LaunchFailsLocked(c) ==
    /\ at[c] = "launch" /\ todo[c] \cap BadPath # {}
    /\ at' = [at EXCEPT ![c] = "err"]
    /\ UNCHANGED <<mu, todo, gor, errs>>

(* An error of path() is returned at once: the goroutines started so far   *)
(* go on by themselves.                                                    *)
LaunchFails(c) ==
    /\ at[c] = "launch" /\ todo[c] \cap BadPath # {}
    /\ at' = [at EXCEPT ![c] = "err"] /\ mu' = NoCaller
    /\ UNCHANGED <<todo, gor, errs>>

Launched(c) ==
    /\ at[c] = "launch" /\ todo[c] = {}
    /\ at' = [at EXCEPT ![c] = "wait"]
    /\ UNCHANGED <<mu, todo, gor, errs>>

(* The goroutine of subsystem s: Stat, then every handler in turn.         *)
Collect(c, s) ==
    /\ gor[c][s].at = "stat"
    /\ \E result \in {"done", "handle"} : gor' = [gor EXCEPT ![c][s].at = result]
    /\ UNCHANGED <<mu, at, todo, errs>>

Handle(c, s) ==
    /\ gor[c][s].at = "handle" /\ gor[c][s].next <= Handlers
    /\ \/ gor' = [gor EXCEPT ![c][s].next = @ + 1]
       \/ gor' = [gor EXCEPT ![c][s].at = "send"]
    /\ UNCHANGED <<mu, at, todo, errs>>

(* What the handler returned is sent when there is room.                   *)
Send(c, s) ==
    /\ gor[c][s].at = "send" /\ Room(c)
    /\ errs' = [errs EXCEPT ![c] = @ \cup {<<s, gor[c][s].next>>}]
    /\ gor' = [gor EXCEPT ![c][s] = [at |-> "handle", next |-> @.next + 1]]
    /\ UNCHANGED <<mu, at, todo>>

Handled(c, s) ==
    /\ gor[c][s].at = "handle" /\ gor[c][s].next > Handlers
    /\ gor' = [gor EXCEPT ![c][s].at = "done"]
    /\ UNCHANGED <<mu, at, todo, errs>>

(* Slip: the counter of the wait group goes up in the goroutine, so Wait   *)
(* does not see those that have not begun.                                 *)
ReturnEarly(c) ==
    /\ at[c] = "wait"
    /\ \A s \in Stater : gor[c][s].at # "handle"
    /\ at' = [at EXCEPT ![c] = IF errs[c] = {} THEN "ok" ELSE "err"]
    /\ mu' = NoCaller
    /\ UNCHANGED <<todo, gor, errs>>

(* wg.Wait; the first error in the channel is returned.                    *)
Return(c) ==
    /\ at[c] = "wait"
    /\ \A s \in Stater : gor[c][s].at \in {"none", "done"}
    /\ at' = [at EXCEPT ![c] = IF errs[c] = {} THEN "ok" ELSE "err"]
    /\ mu' = NoCaller
    /\ UNCHANGED <<todo, gor, errs>>

Collector(c, s) == Collect(c, s) \/ Handle(c, s) \/ Send(c, s) \/ Handled(c, s)

Loop(c) == Skip(c) \/ Launch(c) \/ LaunchFails(c) \/ Launched(c) \/ Return(c)

Next == \E c \in Caller : Lock(c) \/ Loop(c) \/ \E s \in Stater : Collector(c, s)

Spec == Init /\ [][Next]_vars

-----------------------------------------------------------------------------
(* A goroutine that has an error to report never waits for room: wg.Wait,  *)
(* with the mutex locked, comes before the channel is read.                *)
NeverBlocks ==
    \A c \in Caller, s \in Stater : gor[c][s].at = "send" => Room(c)

(* Metrics returned without an error are final and complete: nobody writes *)
(* to them any more, every subsystem has been asked, and no handler has    *)
(* reported an error.                                                      *)
MetricsFinal ==
    \A c \in Caller :
        at[c] = "ok" => errs[c] = {} /\ \A s \in Stater : gor[c][s].at = "done"

(* Every caller gets an answer ("Stat returns the current metrics").       *)
StatReturns == \A c \in Caller : <>(at[c] \in {"ok", "err"})
=============================================================================
