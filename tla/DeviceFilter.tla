---------------------------- MODULE DeviceFilter ----------------------------
(***************************************************************************)
(* The compiler from OCI device rules to an eBPF program                   *)
(* (cgroup2/devicefilter.go), and the programs setDevices leaves attached  *)
(* to a cgroup (cgroup2/manager.go, cgroup2/ebpf.go).  The rules are       *)
(* compiled from the last to the first, each to a block of tests that jump *)
(* to the next block, and an answer.                                       *)
(*                                                                         *)
(* Running a program, and asking every program attached, is the kernel's   *)
(* part and external.  Loading the registers, and the Go types of the      *)
(* instructions, are left out; the three instructions of the access test   *)
(* are one here.                                                           *)
(***************************************************************************)
EXTENDS Naturals, Integers, Sequences

CONSTANTS Rule,      \* the rules: [type, major, minor, access, allow]
          MaxRules,  \* how long a list may be
          Request,   \* the accesses asked for: [type, major, minor, access]
          MaxAttach, \* the programs a cgroup has room for (64)
          Refuses,   \* whether the kernel may refuse a program
          Updates    \* how many calls of setDevices

Access == {"r", "w", "m"}

ASSUME FilterAssumption ==
    /\ Rule \subseteq [type : {"a", "b", "c", "?"}, major : Int, minor : Int,
                       access : SUBSET Access, allow : BOOLEAN]
    /\ Request \subseteq [type : {"b", "c"}, major : Nat, minor : Nat,
                          access : (SUBSET Access) \ {{}}]
    /\ MaxRules \in Nat /\ MaxAttach \in Nat \ {0} /\ Updates \in Nat
    /\ Refuses \in BOOLEAN

VARIABLES devices,     \* the list of the call
          i,           \* how many of its rules are still to be appended
          insts,       \* the program
          hasWildCard,
          blockID,
          at,          \* "idle", "append", "attach"
          res,         \* what the last call returned
          attached,    \* the lists whose programs are attached, oldest first
          calls

program == <<insts, hasWildCard, blockID>>
vars    == <<devices, i, insts, hasWildCard, blockID, at, res, attached, calls>>

Lists == UNION {[1 .. n -> Rule] : n \in 0 .. MaxRules}

TypeOK ==
    /\ devices \in Lists /\ i \in 0 .. Len(devices)
    /\ hasWildCard \in BOOLEAN /\ blockID \in -1 .. MaxRules
    /\ at \in {"idle", "append", "attach"} /\ res \in {"none", "ok", "err"}
    /\ attached \in Seq(Lists) /\ Len(attached) <= MaxAttach
    /\ calls \in 0 .. Updates

Init ==
    /\ devices = <<>> /\ i = 0 /\ insts = <<>> /\ hasWildCard = FALSE /\ blockID = 0
    /\ at = "idle" /\ res = "none" /\ attached = <<>> /\ calls = 0

-----------------------------------------------------------------------------
(* The kernel runs a program: from instruction n on, on one request.       *)
Labelled(prog, b) == CHOOSE n \in 1 .. Len(prog) : prog[n].label = b

Passes(inst, q) ==
    CASE inst.op = "type"   -> q.type = inst.arg
      [] inst.op = "access" -> q.access \cap inst.arg # {}
      [] inst.op = "major"  -> q.major = inst.arg
      [] inst.op = "minor"  -> q.minor = inst.arg

Answer(prog, q) ==
    LET run[n \in 1 .. Len(prog)] ==
            IF prog[n].op = "ret" THEN prog[n].arg
            ELSE IF Passes(prog[n], q) THEN run[n + 1]
            ELSE run[Labelled(prog, prog[n].to)]
    IN  run[1]

(* The program of a list, seen from outside: the last rule that applies to *)
(* the request decides, and without one it is denied.                      *)
Applies(d, q) ==
    /\ d.type \in {"a", q.type}
    /\ d.major < 0 \/ d.major = q.major
    /\ d.minor < 0 \/ d.minor = q.minor
    /\ d.access = Access \/ d.access \cap q.access # {}

Verdict(list, q) ==
    \E n \in 1 .. Len(list) :
        /\ Applies(list[n], q) /\ list[n].allow
        /\ \A m \in n + 1 .. Len(list) : ~Applies(list[m], q)

-----------------------------------------------------------------------------
(* An instruction tests and jumps when the test fails, or answers.         *)
Test(cond, op, arg, to) ==
    IF cond THEN <<[op |-> op, arg |-> arg, to |-> to, label |-> -1]>> ELSE <<>>

Return(v) == <<[op |-> "ret", arg |-> v, to |-> 0, label |-> -1]>>

(* The block of a rule; its first instruction carries the label.           *)
Block(d, b) ==
    LET next  == b + 1
        tests == Test(d.type # "a", "type", d.type, next)
                 \o Test(d.access # Access, "access", d.access, next)
                 \o Test(d.major >= 0, "major", d.major, next)
                 \o Test(d.minor >= 0, "minor", d.minor, next)
    IN  [(tests \o Return(d.allow)) EXCEPT ![1].label = b]

Wild(d) == d.type = "a" /\ d.access = Access /\ d.major < 0 /\ d.minor < 0

(* setDevices does nothing for an empty list.                              *)
Begin ==
    /\ at = "idle" /\ calls < Updates
    /\ calls' = calls + 1
    /\ devices' \in Lists
    /\ res' = IF devices' = <<>> THEN "ok" ELSE "none"
    /\ i' = Len(devices')
    /\ insts' = <<>> /\ hasWildCard' = FALSE /\ blockID' = 0
    /\ at' = IF devices' = <<>> THEN "idle" ELSE "append"
    /\ UNCHANGED attached

(* A rule before the last wildcard is ignored, checks and all.             *)
Ignore ==
    /\ at = "append" /\ i > 0 /\ hasWildCard
    /\ i' = i - 1
    /\ UNCHANGED <<devices, program, at, res, attached, calls>>

(* Slip: every rule for all types is taken for a wildcard.                 *)
AppendWild ==
    /\ at = "append" /\ i > 0 /\ ~hasWildCard /\ devices[i].type # "?"
    /\ i' = i - 1
    /\ insts' = insts \o Block(devices[i], blockID)
    /\ hasWildCard' = (devices[i].type = "a")
    /\ blockID' = blockID + 1
    /\ UNCHANGED <<devices, at, res, attached, calls>>

AppendDevice ==
    /\ at = "append" /\ i > 0 /\ ~hasWildCard /\ devices[i].type # "?"
    /\ i' = i - 1
    /\ insts' = insts \o Block(devices[i], blockID)
    /\ hasWildCard' = Wild(devices[i])
    /\ blockID' = blockID + 1
    /\ UNCHANGED <<devices, at, res, attached, calls>>

(* An unknown type stands for every rule appendDevice refuses.              *)
InvalidDevice ==
    /\ at = "append" /\ i > 0 /\ ~hasWildCard /\ devices[i].type = "?"
    /\ at' = "idle" /\ res' = "err"
    /\ UNCHANGED <<devices, i, program, attached, calls>>

(* Without a wildcard the program ends by denying.                         *)
Finalize ==
    /\ at = "append" /\ i = 0
    /\ IF hasWildCard THEN UNCHANGED program
       ELSE /\ insts' = insts \o [Return(FALSE) EXCEPT ![1].label = blockID]
            /\ blockID' = -1 /\ UNCHANGED hasWildCard
    /\ at' = "attach"
    /\ UNCHANGED <<devices, i, res, attached, calls>>

(* canSkipEBPFError: nothing is lost without the filter.                   *)
CanSkip(list) == \A n \in 1 .. Len(list) : ~list[n].allow /\ list[n].access = Access

(* LoadAttachCgroupDeviceFilter; what was attached before stays.  It fails *)
(* when the cgroup has no room, or on a kernel that refuses.               *)
Attach ==
    /\ at = "attach" /\ Len(attached) < MaxAttach
    /\ attached' = Append(attached, devices) /\ res' = "ok"
    /\ at' = "idle"
    /\ UNCHANGED <<devices, i, program, calls>>

AttachFails ==
    /\ at = "attach" /\ (Refuses \/ Len(attached) = MaxAttach)
    /\ res' = IF CanSkip(devices) THEN "ok" ELSE "err"
    /\ at' = "idle"
    /\ UNCHANGED <<devices, i, program, attached, calls>>

Next ==
    Begin \/ Ignore \/ AppendDevice \/ InvalidDevice \/ Finalize \/ Attach \/ AttachFails

Spec == Init /\ [][Next]_vars

-----------------------------------------------------------------------------
(* The program loads (every jump goes forward, to a block there is, and    *)
(* every path ends in an answer), and it answers what the list says: the   *)
(* last rule that applies decides.                                         *)
FilterConforms ==
    at = "attach" =>
        /\ \A n \in 1 .. Len(insts) :
              insts[n].op # "ret" =>
                  /\ n < Len(insts)
                  /\ \E m \in n + 1 .. Len(insts) : insts[m].label = insts[n].to
        /\ \A q \in Request : Answer(insts, q) = Verdict(devices, q)
=============================================================================
