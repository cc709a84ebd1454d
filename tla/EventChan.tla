------------------------------ MODULE EventChan ------------------------------
(***************************************************************************)
(* Manager.EventChan of package cgroup2 (cgroup2/manager.go): a goroutine  *)
(* reads an inotify descriptor that watches memory.events and              *)
(* cgroup.events of one cgroup, and publishes snapshots of memory.events   *)
(* on a channel of capacity one, and its only error on another.  Modelled  *)
(* with the cgroup it watches, which lives and dies beside it, and with    *)
(* the reader of the two channels.                                         *)
(*                                                                         *)
(* The kernel notifies a watch of every change of the two files and of     *)
(* nothing else: removing the cgroup makes no event (kernfs sends neither  *)
(* IN_DELETE_SELF nor IN_IGNORED).  One Read returns all queued events;    *)
(* the buffer has room for ten.                                            *)
(***************************************************************************)
EXTENDS Naturals, Sequences

CONSTANTS MaxMem,    \* bound on memory events
          KillAt,    \* the memory event that is the OOM kill
          Rejoin,    \* whether processes may join an emptied cgroup
          Faults,    \* the calls that may fail: "watch", "inotify",
                     \* "cgroup.events", "memory.events"
          Reader     \* "select", or "untilKill" (manager_test.go)

ASSUME EventAssumption ==
    /\ MaxMem \in Nat /\ KillAt \in Nat
    /\ Rejoin \in BOOLEAN
    /\ Faults \subseteq {"watch", "inotify", "cgroup.events", "memory.events"}
    /\ Reader \in {"select", "untilKill"}

VARIABLES life,        \* "fresh", "running", "over" or "removed"
          mem,         \* the counters of memory.events
          pending,     \* the inotify queue holds events
          fd,          \* the inotify descriptor; "half" has one watch
          pc,          \* of EventChan, then of its goroutine
          shouldExit,
          end,         \* how the goroutine left its loop
          out,         \* the snapshot being published
          last,        \* the last snapshot sent on ec
          ec, errCh,   \* the channels' buffers
          errClosed,
          reader       \* what the reader waits for

kernel == <<life, mem>>
chans  == <<ec, errCh, errClosed>>
local  == <<pc, shouldExit, end, out>>
vars   == <<life, mem, pending, fd, pc, shouldExit, end, out, last, ec, errCh,
            errClosed, reader>>

TypeOK ==
    /\ life \in {"fresh", "running", "over", "removed"}
    /\ mem \in 0 .. MaxMem
    /\ pending \in BOOLEAN
    /\ fd \in {"none", "half", "open", "closed"}
    /\ pc \in {"none", "watch", "read", "empty", "load", "send", "fail", "exit", "done"}
    /\ shouldExit \in BOOLEAN
    /\ end \in {"none", "last", "gone", "error"}
    /\ out \in 0 .. MaxMem /\ last \in 0 .. MaxMem
    /\ ec \in {<<>>} \cup {<<m>> : m \in 0 .. MaxMem}
    /\ errCh \in {<<>>, <<"err">>}
    /\ errClosed \in BOOLEAN
    /\ reader \in {"both", "errOnly", "done"}

Init ==
    /\ life = "fresh" /\ mem = 0 /\ pending = FALSE
    /\ fd = "none" /\ pc = "none" /\ shouldExit = FALSE /\ end = "none"
    /\ out = 0 /\ last = 0
    /\ ec = <<>> /\ errCh = <<>> /\ errClosed = FALSE
    /\ reader = "both"

-----------------------------------------------------------------------------
(* The cgroup.                                                             *)
Notify(watches) == pending' = (pending \/ fd \in watches)

Join ==
    /\ life = "fresh" \/ (Rejoin /\ life = "over")
    /\ life' = "running" /\ Notify({"open"})
    /\ UNCHANGED <<mem, fd, local, last, chans, reader>>

MemoryEvent ==
    /\ life = "running" /\ mem < MaxMem
    /\ mem' = mem + 1 /\ Notify({"half", "open"})
    /\ UNCHANGED <<life, fd, local, last, chans, reader>>

Leave ==
    /\ life = "running"
    /\ life' = "over" /\ Notify({"open"})
    /\ UNCHANGED <<mem, fd, local, last, chans, reader>>

Remove ==
    /\ life \in {"fresh", "over"}
    /\ life' = "removed"
    /\ UNCHANGED <<mem, pending, fd, local, last, chans, reader>>

-----------------------------------------------------------------------------
(* EventChan itself: memoryEventNonBlockFD watches memory.events, then     *)
(* cgroup.events, and the goroutine starts.  When a watch fails the error  *)
(* is sent and errCh is never closed.                                      *)
StartFails(fds) ==
    /\ life = "removed" \/ "watch" \in Faults
    /\ fd' = fds /\ errCh' = <<"err">> /\ pc' = "done" /\ pending' = FALSE
    /\ UNCHANGED <<kernel, shouldExit, end, out, last, ec, errClosed, reader>>

WatchMemory ==
    /\ pc = "none"
    /\ \/ /\ life # "removed"
          /\ fd' = "half" /\ pc' = "watch"
          /\ UNCHANGED <<kernel, pending, shouldExit, end, out, last, chans, reader>>
       \/ StartFails("none")

WatchCgroup ==
    /\ pc = "watch"
    /\ \/ /\ life # "removed"
          /\ fd' = "open" /\ pc' = "read"
          /\ UNCHANGED <<kernel, pending, shouldExit, end, out, last, chans, reader>>
       \/ StartFails("closed")

Start == WatchMemory \/ WatchCgroup

Read ==
    /\ pc = "read" /\ pending
    /\ pending' = FALSE /\ pc' = "empty" /\ shouldExit' = FALSE
    /\ UNCHANGED <<kernel, fd, end, out, last, chans, reader>>

ReadFails ==
    /\ pc = "read" /\ "inotify" \in Faults
    /\ pc' = "fail"
    /\ UNCHANGED <<kernel, pending, fd, shouldExit, end, out, last, chans, reader>>

(* isCgroupEmpty, any error included, before memory.events is read.        *)
CheckEmpty ==
    /\ pc = "empty"
    /\ \/ shouldExit' = (life # "running")
       \/ "cgroup.events" \in Faults /\ shouldExit' = TRUE
    /\ pc' = "load"
    /\ UNCHANGED <<kernel, pending, fd, end, out, last, chans, reader>>

Load ==
    /\ pc = "load" /\ life # "removed"
    /\ out' = mem /\ pc' = "send"
    /\ UNCHANGED <<kernel, pending, fd, shouldExit, end, last, chans, reader>>

(* Slip: the files of a removed cgroup are waited for.                     *)
LoadGoneGoesOn ==
    /\ pc = "load" /\ life = "removed"
    /\ pc' = "read"
    /\ UNCHANGED <<kernel, pending, fd, shouldExit, end, out, last, chans, reader>>

(* A removed cgroup ends the goroutine without an error.                   *)
LoadGone ==
    /\ pc = "load" /\ life = "removed"
    /\ pc' = "exit" /\ end' = "gone"
    /\ UNCHANGED <<kernel, pending, fd, shouldExit, out, last, chans, reader>>

LoadFails ==
    /\ pc = "load" /\ life # "removed" /\ "memory.events" \in Faults
    /\ pc' = "fail"
    /\ UNCHANGED <<kernel, pending, fd, shouldExit, end, out, last, chans, reader>>

(* Slip: cgroup.events is read after memory.events.                        *)
SendRechecks ==
    /\ pc = "send" /\ ec = <<>>
    /\ ec' = <<out>> /\ last' = out
    /\ IF life # "running" THEN pc' = "exit" /\ end' = "last"
                           ELSE pc' = "read" /\ end' = end
    /\ UNCHANGED <<kernel, pending, fd, shouldExit, out, errCh, errClosed, reader>>

(* Slip: the queue is drained once more before the next Read.              *)
SendDrains ==
    /\ pc = "send" /\ ec = <<>>
    /\ ec' = <<out>> /\ last' = out /\ pending' = FALSE
    /\ IF shouldExit THEN pc' = "exit" /\ end' = "last"
                     ELSE pc' = "read" /\ end' = end
    /\ UNCHANGED <<kernel, fd, shouldExit, out, errCh, errClosed, reader>>

(* Slip: an event does not wait for room in the channel.                   *)
SendQueues ==
    /\ pc = "send"
    /\ ec' = Append(ec, out) /\ last' = out
    /\ IF shouldExit THEN pc' = "exit" /\ end' = "last"
                     ELSE pc' = "read" /\ end' = end
    /\ UNCHANGED <<kernel, pending, fd, shouldExit, out, errCh, errClosed, reader>>

(* ec <- Event blocks while the buffer is full.                            *)
Send ==
    /\ pc = "send" /\ ec = <<>>
    /\ ec' = <<out>> /\ last' = out
    /\ IF shouldExit THEN pc' = "exit" /\ end' = "last"
                     ELSE pc' = "read" /\ end' = end
    /\ UNCHANGED <<kernel, pending, fd, shouldExit, out, errCh, errClosed, reader>>

SendError ==
    /\ pc = "fail" /\ errCh = <<>>
    /\ errCh' = <<"err">> /\ pc' = "exit" /\ end' = "error"
    /\ UNCHANGED <<kernel, pending, fd, shouldExit, out, last, ec, errClosed, reader>>

(* The deferred calls: fd.Close, then close(errCh).                        *)
Return ==
    /\ pc = "exit"
    /\ fd' = "closed" /\ errClosed' = TRUE /\ pc' = "done" /\ pending' = FALSE
    /\ UNCHANGED <<kernel, shouldExit, end, out, last, ec, errCh, reader>>

-----------------------------------------------------------------------------
(* The reader of the channels, as the tests read them: select on both      *)
(* until errCh delivers or is closed, or range over ec up to the OOM kill  *)
(* and then wait for errCh only.                                           *)
ReceiveEvent ==
    /\ reader = "both" /\ ec # <<>>
    /\ ec' = <<>>
    /\ reader' = IF Reader = "untilKill" /\ Head(ec) >= KillAt THEN "errOnly" ELSE "both"
    /\ UNCHANGED <<kernel, pending, fd, local, last, errCh, errClosed>>

ReceiveError ==
    /\ reader = "errOnly" \/ (reader = "both" /\ Reader = "select")
    /\ errCh # <<>> \/ errClosed
    /\ errCh' = <<>>
    /\ reader' = "done"
    /\ UNCHANGED <<kernel, pending, fd, local, last, ec, errClosed>>

Kernel == Join \/ MemoryEvent \/ Leave \/ Remove

Goroutine ==
    Read \/ CheckEmpty \/ Load \/ LoadGone \/ Send \/ SendError \/ Return

Fault == ReadFails \/ LoadFails

Receive == ReceiveEvent \/ ReceiveError

Next == Kernel \/ Start \/ Goroutine \/ Fault \/ Receive

Spec == Init /\ [][Next]_vars

(* The Go scheduler runs a goroutine that can run, and the reader reads;   *)
(* no call has to fail.                                                    *)
FairSpec == Spec /\ WF_vars(Goroutine) /\ WF_vars(Receive)

-----------------------------------------------------------------------------
(* The stream the reader sees, and the promise it implements: no snapshot  *)
(* goes backwards, and a stream that ends by itself because the last       *)
(* process has left (end = "last") ends with the final counters, the OOM   *)
(* kill that emptied the cgroup among them.  It rests on the loop of       *)
(* EventChan reading cgroup.events before memory.events.                   *)
Status ==
    CASE pc \in {"none", "watch"} -> "closed"
      [] end = "last"  -> "complete"
      [] end = "gone"  -> "gone"
      [] end = "error" \/ (end = "none" /\ pc = "done") -> "failed"
      [] OTHER -> "open"

Stream == INSTANCE EventStream WITH status <- Status

StreamPromise == Stream!Spec

(* No lost wake-up: a change the inotify queue holds is published in some  *)
(* snapshot, unless the stream ends first.  It rests on EventChan draining *)
(* the queue before it reads the files, not after.                         *)
EventsPublished ==
    \A n \in 1 .. MaxMem :
        (fd = "open" /\ pending /\ mem = n) ~> (last >= n \/ end # "none")

(* The goroutine does not leak: if a process was in the cgroup while both  *)
(* watches were there, and from some time on none is, the goroutine        *)
(* returns, which closes errCh.  It rests on the watch on cgroup.events    *)
(* that memoryEventNonBlockFD adds and on isCgroupEmpty.                   *)
WatchedExit ==
    []( fd = "open" /\ life = "running"
        => (<>[](life # "running") => <>errClosed) )

(* TestEventChanCleanupAfterOOMKill reads events up to the OOM kill and    *)
(* then expects errCh to be closed once the process has gone.              *)
ClosesAfterKill == (reader = "errOnly" /\ life # "running") ~> errClosed
=============================================================================
