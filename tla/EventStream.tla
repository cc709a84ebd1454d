----------------------------- MODULE EventStream -----------------------------
(***************************************************************************)
(* What Manager.EventChan promises to the reader of its channels: a stream *)
(* of snapshots of memory.events that never goes backwards, and that, when *)
(* it ends by itself because the last process has left, ends with a        *)
(* snapshot nothing is missing from.  A cgroup that has been removed, or a *)
(* file that cannot be read, ends the stream earlier.                      *)
(***************************************************************************)
EXTENDS Naturals

VARIABLES life,    \* of the cgroup
          mem,     \* what memory.events counts
          last,    \* the latest snapshot published
          status   \* of the stream

svars == <<life, mem, last, status>>

Init == life = "fresh" /\ mem = 0 /\ last = 0 /\ status = "closed"

Cgroup ==
    /\ \/ life = "fresh" /\ life' = "running" /\ UNCHANGED mem
       \/ life = "running" /\ life' = "running" /\ mem' = mem + 1
       \/ life = "running" /\ life' = "over" /\ UNCHANGED mem
       \/ life \in {"fresh", "over"} /\ life' = "removed" /\ UNCHANGED mem
    /\ UNCHANGED <<last, status>>

Open ==
    /\ status = "closed" /\ status' \in {"open", "failed"}
    /\ UNCHANGED <<life, mem, last>>

Publish ==
    /\ status = "open"
    /\ last' \in last .. mem
    /\ UNCHANGED <<life, mem, status>>

(* Publishes what is still missing and ends in the same step or later.     *)
EndComplete ==
    /\ status = "open" /\ life \in {"over", "removed"}
    /\ last' = mem /\ status' = "complete"
    /\ UNCHANGED <<life, mem>>

EndEarly ==
    /\ status = "open"
    /\ \/ life = "removed" /\ status' = "gone"
       \/ status' = "failed"
    /\ UNCHANGED <<life, mem, last>>

Next == Cgroup \/ Open \/ Publish \/ EndComplete \/ EndEarly

Spec == Init /\ [][Next]_svars
=============================================================================
