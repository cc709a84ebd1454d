------------------------------ MODULE Systemd ------------------------------
(***************************************************************************)
(* Calls that ask systemd to start or stop the unit of a cgroup and wait   *)
(* for its job: NewSystemd with startUnit and attemptFailedUnitReset, and  *)
(* DeleteSystemd (cgroup2/manager.go), and Create and Delete of the        *)
(* controller of cgroup1/systemd.go.  All the calls are for one unit and   *)
(* come from one process, each with a connection of its own.               *)
(*                                                                         *)
(* systemd and its client library are external.  A job is registered with  *)
(* the connection in the call that starts it; its completion arrives as a  *)
(* signal, which the connection's goroutine sends to the channel of the    *)
(* call.  A send to a closed channel is a panic of the process.            *)
(***************************************************************************)
EXTENDS Naturals, FiniteSets

CONSTANTS Caller,
          Menu,   \* the calls: [op, pid], pid is FALSE for a pid of -1
          Losses  \* bound: how many signals are lost

Op      == {"new", "delete", "create1", "delete1"}
Request == [op : Op, pid : BOOLEAN]
Result  == {"done", "failed"} \* failed stands for canceled and timeout, too

SystemdAssumption ==
    Menu \subseteq Request /\ Menu # {} /\ Losses \in Nat

VARIABLES unit,   \* the state of the unit
          owner,  \* the callers whose start made the unit there is, one at most
          joined, \* for the properties: whose process was put into their unit
          job,    \* [Caller -> the job registered with its connection]
          sig,    \* [Caller -> the signal that is under way]
          buf,    \* [Caller -> what its channel holds]
          closed, \* the callers whose channel is closed
          missed, \* those whose signal was lost
          late,   \* those that have given up waiting
          panic,  \* a send to a closed channel
          canDelegate,
          call    \* [Caller -> [at, req, retry, res]]

daemon  == <<unit, owner, joined>>
library == <<job, sig, buf, missed, panic>>
vars    == <<daemon, library, closed, late, canDelegate, call>>

Place == {"idle", "check", "start", "reset", "wait", "clear", "close"}

(* No call: the request says nothing.                                      *)
NoCall == [at |-> "idle", req |-> CHOOSE r \in Menu : TRUE, retry |-> TRUE, res |-> "none"]

TypeOK ==
    /\ unit \in {"absent", "starting", "active", "stopping", "failed"}
    /\ owner \in {{}} \cup {{c} : c \in Caller}
    /\ joined \subseteq Caller /\ closed \subseteq Caller
    /\ missed \subseteq Caller /\ late \subseteq Caller
    /\ job \in [Caller -> {"none", "start", "stop"}]
    /\ sig \in [Caller -> Result \cup {"none"}]
    /\ buf \in [Caller -> Result \cup {"none"}]
    /\ panic \in BOOLEAN
    /\ canDelegate \in {"unasked", "yes", "no"}
    /\ call \in [Caller -> [at : Place, req : Request, retry : BOOLEAN,
                            res : {"none", "nil", "err"}]]
    /\ \A c \in Caller : sig[c] # "none" => buf[c] = "none"

(* The unit may be left over from earlier, also as one that has failed.    *)
Init ==
    /\ unit \in {"absent", "active", "failed"} /\ owner = {}
    /\ joined = {} /\ closed = {} /\ missed = {} /\ late = {}
    /\ job = [c \in Caller |-> "none"]
    /\ sig = [c \in Caller |-> "none"] /\ buf = [c \in Caller |-> "none"]
    /\ panic = FALSE
    /\ canDelegate = "unasked"
    /\ call = [c \in Caller |-> NoCall]

-----------------------------------------------------------------------------
(* systemd.                                                                *)
(* Every connection that waits for a job of this kind is sent its result.  *)
Announce(kind, result) ==
    /\ sig' = [c \in Caller |-> IF job[c] = kind THEN result ELSE sig[c]]
    /\ job' = [c \in Caller |-> IF job[c] = kind THEN "none" ELSE job[c]]

StartDone ==
    /\ unit = "starting" /\ unit' = "active"
    /\ joined' = joined \cup {c \in owner : call[c].req.pid}
    /\ Announce("start", "done")
    /\ UNCHANGED <<owner, buf, missed, panic, closed, late, canDelegate, call>>

StartFails ==
    /\ unit = "starting" /\ unit' = "failed"
    /\ Announce("start", "failed")
    /\ UNCHANGED <<owner, joined, buf, missed, panic, closed, late, canDelegate, call>>

StopEnds ==
    /\ unit = "stopping"
    /\ \/ unit' = "absent" /\ owner' = {} /\ Announce("stop", "done")
       \/ unit' = "failed" /\ owner' = owner /\ Announce("stop", "failed")
    /\ UNCHANGED <<joined, buf, missed, panic, closed, late, canDelegate, call>>

(* The processes of the unit exit, or somebody else stops it: systemd      *)
(* forgets it, or has it failed.                                           *)
Exit ==
    /\ unit = "active"
    /\ \/ unit' = "absent" /\ owner' = {}
       \/ unit' = "failed" /\ owner' = owner
    /\ UNCHANGED <<joined, library, closed, late, canDelegate, call>>

Lose(c) ==
    /\ sig[c] # "none" /\ Cardinality(missed) < Losses
    /\ sig' = [sig EXCEPT ![c] = "none"]
    /\ missed' = missed \cup {c}
    /\ UNCHANGED <<daemon, job, buf, panic, closed, late, canDelegate, call>>

(* The goroutine of the connection takes the signal up.                    *)
Dispatch(c) ==
    /\ sig[c] # "none"
    /\ sig' = [sig EXCEPT ![c] = "none"]
    /\ IF c \in closed THEN panic' = TRUE /\ UNCHANGED buf
                       ELSE buf' = [buf EXCEPT ![c] = sig[c]] /\ UNCHANGED panic
    /\ UNCHANGED <<daemon, job, missed, closed, late, canDelegate, call>>

-----------------------------------------------------------------------------
(* The calls.                                                              *)
Goes(c, at) == call' = [call EXCEPT ![c].at = at]

(* Where a call returns: startUnit closes its channel before NewSystemd    *)
(* closes the connection; the other channels are never closed.             *)
Ends(c, res) ==
    /\ call' = [call EXCEPT ![c].at = "close", ![c].res = res]
    /\ closed' = IF call[c].req.op = "new" THEN closed \cup {c} ELSE closed

Begin(c) ==
    /\ call[c].at = "idle"
    /\ \E r \in Menu :
          call' = [call EXCEPT ![c].at = IF r.op = "create1" THEN "check" ELSE "start",
                               ![c].req = r]
    /\ UNCHANGED <<daemon, library, closed, late, canDelegate>>

(* The connection fails, or systemd answers with some other error.         *)
Refused(c) ==
    /\ call[c].at \in {"check", "start"}
    /\ Ends(c, "err")
    /\ UNCHANGED <<daemon, library, late, canDelegate>>

(* once.Do(checkDelegate): the mode is no mode systemd knows, so that the  *)
(* probe is an invalid argument, unless the call does not get through.     *)
CheckDelegate(c) ==
    /\ call[c].at = "check"
    /\ IF canDelegate = "unasked" THEN canDelegate' \in {"yes", "no"}
                                  ELSE UNCHANGED canDelegate
    /\ Goes(c, "start")
    /\ UNCHANGED <<daemon, library, closed, late>>

(* The unit is loaded for this call, with a start job that it waits for.   *)
Loads(c) ==
    /\ unit = "absent"
    /\ unit' = "starting" /\ owner' = {c}
    /\ job' = [job EXCEPT ![c] = "start"]
    /\ UNCHANGED <<joined, sig, buf, missed, panic, late, canDelegate>>

(* Slip: a slice that is started is not waited for.                        *)
StartUnitAsync(c) ==
    /\ call[c].at = "start" /\ call[c].req.op = "new"
    /\ \/ Loads(c) /\ IF call[c].req.pid THEN Goes(c, "wait") /\ UNCHANGED closed
                                         ELSE Ends(c, "nil")
       \/ /\ unit # "absent"
          /\ UNCHANGED <<daemon, library, late, canDelegate>>
          /\ Ends(c, IF call[c].req.pid THEN "err" ELSE "nil")

(* Slip: the retry is not used up.                                         *)
StartUnitForever(c) ==
    /\ call[c].at = "start" /\ call[c].req.op = "new"
    /\ \/ Loads(c) /\ Goes(c, "wait") /\ UNCHANGED closed
       \/ /\ unit # "absent"
          /\ UNCHANGED <<daemon, library, late, canDelegate>>
          /\ \/ ~call[c].req.pid /\ Ends(c, "nil")
             \/ call[c].req.pid /\ Goes(c, "reset") /\ UNCHANGED closed

(* Slip: a unit that exists is good enough for every pid.                  *)
StartUnitIgnores(c) ==
    /\ call[c].at = "start" /\ call[c].req.op = "new"
    /\ \/ Loads(c) /\ Goes(c, "wait") /\ UNCHANGED closed
       \/ /\ unit # "absent"
          /\ UNCHANGED <<daemon, library, late, canDelegate>>
          /\ Ends(c, "nil")

(* The loop of startUnit: a unit of that name is ignored for a pid of -1,  *)
(* and reset once and tried again for another.                             *)
StartUnit(c) ==
    /\ call[c].at = "start" /\ call[c].req.op = "new"
    /\ \/ Loads(c) /\ Goes(c, "wait") /\ UNCHANGED closed
       \/ /\ unit # "absent"
          /\ UNCHANGED <<daemon, library, late, canDelegate>>
          /\ \/ ~call[c].req.pid /\ Ends(c, "nil")
             \/ /\ call[c].req.pid /\ call[c].retry
                /\ call' = [call EXCEPT ![c].at = "reset", ![c].retry = FALSE]
                /\ UNCHANGED closed
             \/ call[c].req.pid /\ ~call[c].retry /\ Ends(c, "err")

(* Create of package cgroup1: systemd refuses Delegate for a slice.        *)
Create(c) ==
    /\ call[c].at = "start" /\ call[c].req.op = "create1"
    /\ \/ canDelegate = "no" /\ Loads(c) /\ Goes(c, "wait") /\ UNCHANGED closed
       \/ /\ canDelegate = "yes" \/ unit # "absent"
          /\ Ends(c, "err")
          /\ UNCHANGED <<daemon, library, late, canDelegate>>

(* attemptFailedUnitReset, whose error is only logged: a unit that has     *)
(* failed is forgotten, before the second try or before an error.          *)
ResetFailed(c) ==
    /\ call[c].at \in {"reset", "clear"}
    /\ \/ unit = "failed" /\ unit' = "absent" /\ owner' = {} /\ UNCHANGED joined
       \/ UNCHANGED daemon
    /\ IF call[c].at = "reset" THEN Goes(c, "start") /\ UNCHANGED closed
                               ELSE Ends(c, "err")
    /\ UNCHANGED <<library, late, canDelegate>>

(* StopUnit, with the mode "replace": a start job is canceled, and a stop  *)
(* job that is already there is shared.  A unit that has failed stays so,  *)
(* and the job is done at once.                                            *)
StopUnit(c) ==
    /\ call[c].at = "start" /\ call[c].req.op \in {"delete", "delete1"}
    /\ \/ /\ unit = "absent" /\ Ends(c, "err")
          /\ UNCHANGED <<daemon, library, late, canDelegate>>
       \/ /\ unit = "failed"
          /\ sig' = [sig EXCEPT ![c] = "done"]
          /\ Goes(c, "wait")
          /\ UNCHANGED <<daemon, job, buf, missed, panic, closed, late, canDelegate>>
       \/ /\ unit \in {"starting", "active", "stopping"}
          /\ unit' = "stopping"
          /\ sig' = [d \in Caller |-> IF job[d] = "start" THEN "failed" ELSE sig[d]]
          /\ job' = [[d \in Caller |-> IF job[d] = "start" THEN "none" ELSE job[d]]
                       EXCEPT ![c] = "stop"]
          /\ Goes(c, "wait")
          /\ UNCHANGED <<owner, joined, buf, missed, panic, closed, late, canDelegate>>

(* <-statusChan and <-ch: only startUnit looks at what it receives.        *)
Receive(c) ==
    /\ call[c].at = "wait" /\ buf[c] # "none"
    /\ buf' = [buf EXCEPT ![c] = "none"]
    /\ IF call[c].req.op = "new" /\ buf[c] # "done"
       THEN Goes(c, "clear") /\ UNCHANGED closed
       ELSE Ends(c, "nil")
    /\ UNCHANGED <<daemon, job, sig, missed, panic, late, canDelegate>>

(* Only startUnit has a timeout, of 30 seconds.                            *)
Timeout(c) ==
    /\ call[c].at = "wait" /\ call[c].req.op = "new"
    /\ late' = late \cup {c}
    /\ Goes(c, "clear")
    /\ UNCHANGED <<daemon, library, closed, canDelegate>>

(* The deferred conn.Close: no more signals come.                          *)
CloseConn(c) ==
    /\ call[c].at = "close"
    /\ call' = [call EXCEPT ![c] = NoCall]
    /\ owner' = owner \ {c} /\ joined' = joined \ {c}
    /\ job' = [job EXCEPT ![c] = "none"] /\ sig' = [sig EXCEPT ![c] = "none"]
    /\ buf' = [buf EXCEPT ![c] = "none"]
    /\ closed' = closed \ {c} /\ missed' = missed \ {c} /\ late' = late \ {c}
    /\ UNCHANGED <<unit, panic, canDelegate>>

Step(c) ==
    \/ CheckDelegate(c) \/ StartUnit(c) \/ Create(c) \/ StopUnit(c)
    \/ ResetFailed(c) \/ Receive(c) \/ Timeout(c) \/ CloseConn(c)

Jobs == StartDone \/ StartFails \/ StopEnds

Next ==
    /\ ~panic
    /\ \/ Jobs \/ Exit
       \/ \E c \in Caller : Lose(c) \/ Dispatch(c) \/ Begin(c) \/ Refused(c) \/ Step(c)

Spec == Init /\ [][Next]_vars

-----------------------------------------------------------------------------
(* NewSystemd with a pid returns nil only when systemd has put this        *)
(* process into a unit that this call has started, whoever else has        *)
(* started or stopped one of that name, and whatever was left over.        *)
OwnUnit ==
    \A c \in Caller :
        LET k == call[c]
        IN  k.req.op = "new" /\ k.req.pid /\ k.res = "nil" => c \in joined

(* A signal meets a closed channel only when the call that closed it has   *)
(* stopped waiting: a call returns otherwise with its job announced.       *)
PanicsOnlyLate == panic => closed \cap late # {}

(* NewSystemd returns, whatever becomes of the job and of its signal; the  *)
(* others return unless their signal is lost.                              *)
CallsReturn ==
    \A c \in Caller :
        call[c].at = "start"
          ~> \/ call[c].at = "idle" \/ panic
             \/ call[c].req.op # "new" /\ c \in missed
=============================================================================
