-------------------------- MODULE EventChan_proofs --------------------------
(***************************************************************************)
(* Theorems about EventChan: it is type correct, and it implements         *)
(* EventStream for any number of memory events.                            *)
(***************************************************************************)
EXTENDS EventChan, TLAPS

(* The goroutine, the cgroup and the channels keep their types.            *)
THEOREM TypeCorrect == Spec => []TypeOK
<1>1. Init => TypeOK
  <2> SUFFICES ASSUME Init PROVE TypeOK
    OBVIOUS
  <2>1. 0 \in 0 .. MaxMem
    BY EventAssumption
  <2> QED
    BY <2>1 DEF Init, TypeOK
<1>2. TypeOK /\ [Next]_vars => TypeOK'
  <2> SUFFICES ASSUME TypeOK, [Next]_vars PROVE TypeOK'
    OBVIOUS
  <2> USE EventAssumption DEF TypeOK, kernel, chans, local
  <2>1. CASE MemoryEvent
    <3>1. mem + 1 \in 0 .. MaxMem
      BY <2>1 DEF MemoryEvent
    <3> QED
      BY <2>1, <3>1 DEF MemoryEvent, Notify
  <2>2. CASE Join \/ Leave \/ Remove
    <3>1. pending' \in BOOLEAN
      BY <2>2 DEF Join, Leave, Remove, Notify
    <3>2. life' \in {"fresh", "running", "over", "removed"}
      BY <2>2 DEF Join, Leave, Remove
    <3>3. UNCHANGED <<mem, fd, local, last, chans, reader>>
      BY <2>2 DEF Join, Leave, Remove
    <3> QED
      BY <3>1, <3>2, <3>3, SMTT(30)
  <2>3. CASE Start
    <3>1. pc' \in {"watch", "read", "done"} /\ fd' \in {"none", "half", "open", "closed"}
      BY <2>3 DEF Start, WatchMemory, WatchCgroup, StartFails
    <3>2. UNCHANGED <<kernel, shouldExit, end, out, last, ec, errClosed, reader>>
      BY <2>3 DEF Start, WatchMemory, WatchCgroup, StartFails, chans
    <3>3. pending' \in BOOLEAN /\ errCh' \in {<<>>, <<"err">>}
      BY <2>3 DEF Start, WatchMemory, WatchCgroup, StartFails, chans
    <3> QED
      BY <3>1, <3>2, <3>3, SMTT(60)
  <2>4. CASE CheckEmpty
    <3>1. shouldExit' \in BOOLEAN /\ pc' = "load"
      BY <2>4 DEF CheckEmpty
    <3>2. UNCHANGED <<kernel, pending, fd, end, out, last, chans, reader>>
      BY <2>4 DEF CheckEmpty
    <3> QED
      BY <3>1, <3>2, SMTT(30)
  <2>5. CASE Send
    <3>1. ec' \in {<<>>} \cup {<<m>> : m \in 0 .. MaxMem}
      BY <2>5 DEF Send
    <3> QED
      BY <2>5, <3>1 DEF Send
  <2>6. CASE Read \/ Load \/ LoadGone \/ SendError \/ Return \/ Fault
    <3>1. CASE Read \/ Load
      <4>1. /\ pc' \in {"empty", "send"} /\ pending' \in BOOLEAN
            /\ shouldExit' \in BOOLEAN /\ out' \in 0 .. MaxMem
        BY <3>1 DEF Read, Load, kernel
      <4>2. UNCHANGED <<kernel, fd, end, last, chans, reader>>
        BY <3>1 DEF Read, Load
      <4> QED
        BY <4>1, <4>2, SMTT(60)
    <3>2. CASE LoadGone \/ SendError
      BY <3>2 DEF LoadGone, SendError
    <3>3. CASE Return
      BY <3>3 DEF Return
    <3>4. CASE Fault
      BY <3>4 DEF Fault, ReadFails, LoadFails
    <3> QED
      BY <2>6, <3>1, <3>2, <3>3, <3>4
  <2>7. CASE Receive
    BY <2>7 DEF Receive, ReceiveEvent, ReceiveError
  <2>8. CASE UNCHANGED vars
    BY <2>8 DEF vars
  <2> QED
    BY <2>1, <2>2, <2>3, <2>4, <2>5, <2>6, <2>7, <2>8 DEF Next, Kernel, Goroutine
<1> QED
  BY <1>1, <1>2, PTL DEF Spec

-----------------------------------------------------------------------------
(* What the promise rests on: the inotify queue holds nothing before the   *)
(* first process has joined, a snapshot lies between the last one sent and *)
(* the counters, and the last snapshot is read when the counters are final.*)
Snapshots ==
    /\ pc \in {"none", "watch"} => last = 0 /\ end = "none"
    /\ last <= mem
    /\ pc = "send" => last <= out /\ out <= mem
    /\ pending \/ pc \in {"empty", "load", "send"} => life # "fresh"
    /\ pc \in {"load", "send"} /\ shouldExit => life \in {"over", "removed"}
    /\ pc = "send" /\ shouldExit => out = mem
    /\ end # "none" => pc \in {"exit", "done"}
    /\ pc = "exit" => end # "none"

(* An emptied cgroup stays empty and cgroup.events can always be read.     *)
Steady == ~Rejoin /\ "cgroup.events" \notin Faults

LEMMA SnapshotsHold == ASSUME Steady PROVE Spec => []Snapshots
<1>1. Init => Snapshots
  BY DEF Init, Snapshots
<1>2. TypeOK /\ Snapshots /\ [Next]_vars => Snapshots'
  <2> SUFFICES ASSUME TypeOK, Snapshots, [Next]_vars PROVE Snapshots'
    OBVIOUS
  <2> USE Steady DEF Steady, TypeOK, Snapshots, kernel, chans, local
  <2>1. CASE Kernel
    BY <2>1 DEF Kernel, Join, MemoryEvent, Leave, Remove, Notify
  <2>2. CASE Start
    BY <2>2 DEF Start, WatchMemory, WatchCgroup, StartFails
  <2>3. CASE CheckEmpty
    BY <2>3 DEF CheckEmpty
  <2>4. CASE Send
    BY <2>4 DEF Send
  <2>5. CASE Read \/ Load \/ LoadGone \/ SendError \/ Return \/ Fault
    BY <2>5 DEF Read, Load, LoadGone, SendError, Return, Fault, ReadFails, LoadFails
  <2>6. CASE Receive
    BY <2>6 DEF Receive, ReceiveEvent, ReceiveError
  <2>7. CASE UNCHANGED vars
    BY <2>7 DEF vars
  <2> QED
    BY <2>1, <2>2, <2>3, <2>4, <2>5, <2>6, <2>7 DEF Next, Goroutine
<1> QED
  BY <1>1, <1>2, TypeCorrect, PTL DEF Spec

-----------------------------------------------------------------------------
(* EventChan keeps the promise of EventStream: snapshots never go back,    *)
(* and the stream that ends because the last process has left ends with    *)
(* the final counters (the order of the two reads in the loop).            *)
THEOREM StreamImplemented == ASSUME Steady PROVE Spec => StreamPromise
<1> USE DEF Stream!svars, Status
<1>1. Init => Stream!Init
  BY DEF Init, Stream!Init
<1>2. TypeOK /\ Snapshots /\ [Next]_vars => [Stream!Next]_(Stream!svars)
  <2> SUFFICES ASSUME TypeOK, Snapshots, [Next]_vars
               PROVE  Stream!Next \/ UNCHANGED Stream!svars
    OBVIOUS
  <2> USE DEF TypeOK, Snapshots, kernel, chans, local, Stream!Next
  <2>1. CASE Kernel
    <3>1. Status' = Status
      BY <2>1 DEF Kernel, Join, MemoryEvent, Leave, Remove
    <3>2. Stream!Cgroup
      BY <2>1, <3>1, Steady
         DEF Kernel, Join, MemoryEvent, Leave, Remove, Steady, Stream!Cgroup
    <3> QED
      BY <3>2
  <2>2. CASE Start
    BY <2>2 DEF Start, WatchMemory, WatchCgroup, StartFails, Stream!Open
  <2>3. CASE Read \/ CheckEmpty \/ Load \/ Return \/ Fault
    <3>1. CASE Read \/ CheckEmpty \/ Load
      BY <3>1 DEF Read, CheckEmpty, Load
    <3>2. CASE Return
      <4>1. end' = end /\ end \in {"last", "gone", "error"} /\ pc = "exit" /\ pc' = "done"
        BY <3>2 DEF Return
      <4>2. Status' = Status
        BY <4>1
      <4>3. UNCHANGED <<kernel, last>>
        BY <3>2 DEF Return
      <4> QED
        BY <4>2, <4>3 DEF kernel
    <3>3. CASE Fault
      BY <3>3 DEF Fault, ReadFails, LoadFails
    <3> QED
      BY <2>3, <3>1, <3>2, <3>3
  <2>4. CASE LoadGone \/ SendError
    BY <2>4 DEF LoadGone, SendError, Stream!EndEarly
  <2>5. CASE Send /\ ~shouldExit
    <3>1. last' \in last .. mem /\ Status = "open" /\ Status' = "open"
      BY <2>5 DEF Send
    <3> QED
      BY <2>5, <3>1 DEF Send, Stream!Publish
  <2>8. CASE Send /\ shouldExit
    BY <2>8 DEF Send, Stream!EndComplete
  <2>6. CASE Receive
    BY <2>6 DEF Receive, ReceiveEvent, ReceiveError
  <2>7. CASE UNCHANGED vars
    BY <2>7 DEF vars
  <2> QED
    BY <2>1, <2>2, <2>3, <2>4, <2>5, <2>6, <2>7, <2>8 DEF Next, Goroutine
<1>3. Spec => []Snapshots
  BY SnapshotsHold
<1> QED
  BY <1>1, <1>2, <1>3, TypeCorrect, PTL DEF Spec, StreamPromise, Stream!Spec
=============================================================================
