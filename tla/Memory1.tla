------------------------------- MODULE Memory1 -------------------------------
(***************************************************************************)
(* Create and Update of the memory controller of package cgroup1           *)
(* (cgroup1/memory.go): the settings a caller gives are written one file   *)
(* after the other, in an order that Update changes by what it reads       *)
(* first.  The calls for one cgroup may come from several cgroup objects.  *)
(* A pointer is the set of what it points to.                              *)
(*                                                                         *)
(* The rules between the files are the kernel's, and external: the memory  *)
(* limit is never above the limit of memory and swap together, and a limit *)
(* below what is in use and cannot be reclaimed is refused (EBUSY).        *)
(***************************************************************************)
EXTENDS Integers, Sequences, Selection

CONSTANTS Bytes,  \* the largest limit; it stands for no limit
          Caller,
          Menu,   \* the calls: [op, want], want is [File -> pointer]
          InUse   \* the most memory that is ever in use

(* getMemorySettings, in the order of the code.                            *)
Files == << "limit", "soft", "memsw", "kmem", "kmem.tcp", "oom_control", "swappiness" >>
File  == {Files[i] : i \in DOMAIN Files}
Limit == File \ {"oom_control", "swappiness"}

MemoryAssumption ==
    /\ Bytes \in Nat \ {0}
    /\ Menu \subseteq [op : {"create", "update"}, want : [File -> SUBSET Int]]
    /\ \A r \in Menu :
          /\ \A f \in File : IsPointer(r.want[f])
          /\ \A f \in Limit : \A v \in r.want[f] : v <= Bytes
          /\ r.want["oom_control"] \subseteq {0, 1}
    /\ InUse \in 0 .. Bytes

VARIABLES mem,   \* the files there are: without accounting of swap no memsw
          usage, \* what is in use
          call

vars == <<mem, usage, call>>

Fits(m) == "memsw" \in DOMAIN m => m["limit"] <= m["memsw"]

TypeOK ==
    /\ DOMAIN mem \subseteq File /\ Fits(mem)
    /\ \A f \in DOMAIN mem : mem[f] \in 0 .. (IF f \in Limit THEN Bytes
                                              ELSE IF f = "oom_control" THEN 1 ELSE 100)
    /\ usage \in 0 .. Bytes /\ usage <= mem["limit"]
    /\ \A c \in Caller :
          /\ call[c].at \in {"idle", "begin", "write", "ok", "err"}
          /\ call[c].op \in {"create", "update"} /\ call[c].want \in [File -> SUBSET Int]
          /\ call[c].todo \in Seq(File) /\ DOMAIN call[c].old = DOMAIN mem

Start(limit, memsw) ==
    [f \in File |-> IF f = "limit" THEN limit ELSE IF f = "memsw" THEN memsw
                    ELSE IF f \in Limit THEN Bytes ELSE IF f = "swappiness" THEN 60 ELSE 0]

Init ==
    /\ \E limit \in 1 .. Bytes :
         \/ \E memsw \in limit .. Bytes : mem = Start(limit, memsw)
         \/ mem = [f \in File \ {"memsw"} |-> Start(limit, limit)[f]]
    /\ usage = 0
    /\ call = [c \in Caller |-> [at |-> "idle", op |-> "create", want |-> [f \in File |-> {}],
                                 todo |-> <<>>, old |-> mem]]

-----------------------------------------------------------------------------
(* The kernel.                                                             *)
(* Slip: -1 is kept as it is written.                                      *)
ContentRaw(v) == v

(* -1 is written as it is, and the file then holds the largest limit.      *)
Content(v) == IF v < 0 THEN Bytes ELSE v

MayWrite(f, v) ==
    /\ f \in DOMAIN mem
    /\ Fits([mem EXCEPT ![f] = v])
    /\ f = "limit" => usage <= v
    /\ f = "swappiness" => v <= 100

(* A limit of kernel memory is also refused for what is not modelled: the  *)
(* processes there are, and the version of the kernel.                     *)
MayRefuse(f, v) == ~MayWrite(f, v) \/ f \in {"kmem", "kmem.tcp"}

Use ==
    /\ usage' \in {u \in 0 .. InUse : u <= mem["limit"]}
    /\ UNCHANGED <<mem, call>>

-----------------------------------------------------------------------------
(* Settings 0 and 1 change places.                                         *)
Swap01(s) == [s EXCEPT ![1] = s[2], ![2] = s[1]]

Begin(c) ==
    /\ call[c].at \in {"idle", "ok", "err"}
    /\ \E r \in Menu :
          call' = [call EXCEPT ![c] = [at |-> "begin", op |-> r.op, want |-> r.want,
                                       todo |-> <<>>, old |-> mem]]
    /\ UNCHANGED <<mem, usage>>

(* What set passes over is a nil pointer.                                  *)
Writes(c, files) ==
    /\ call' = [call EXCEPT ![c].at = "write",
                            ![c].todo = Selected(files, {f \in File : call[c].want[f] # {}})]
    /\ UNCHANGED <<mem, usage>>

(* Slip: the swap limit goes first whatever the current limit is.          *)
OrderSwapFirst(c) ==
    call[c].at = "begin" /\ Writes(c, <<"memsw">> \o Selected(Files, File \ {"memsw"}))

(* Update reads the current limit to order the settings: when it is below  *)
(* the new limit of memory and swap, it exchanges two of them.             *)
Order(c) ==
    LET w == call[c].want
    IN  /\ call[c].at = "begin"
        /\ Writes(c, IF /\ call[c].op = "update"
                        /\ \E l \in w["limit"], s \in w["memsw"] :
                              l > 0 /\ s > 0 /\ mem["limit"] < s
                     THEN Swap01(Files) ELSE Files)

(* Slip: a setting that is refused is passed over.                         *)
WriteQuietly(c) ==
    LET f == Head(call[c].todo)
    IN  /\ call[c].at = "write" /\ call[c].todo # <<>>
        /\ \E v \in call[c].want[f] :
              mem' = IF MayWrite(f, Content(v)) THEN [mem EXCEPT ![f] = Content(v)] ELSE mem
        /\ call' = [call EXCEPT ![c].todo = Tail(@)]
        /\ UNCHANGED usage

(* set: the first error is returned.                                       *)
Write(c) ==
    LET f == Head(call[c].todo)
    IN  /\ call[c].at = "write" /\ call[c].todo # <<>>
        /\ \E v \in call[c].want[f] :
              \/ /\ MayWrite(f, Content(v))
                 /\ mem' = [mem EXCEPT ![f] = Content(v)]
                 /\ call' = [call EXCEPT ![c].todo = Tail(@)]
              \/ /\ MayRefuse(f, Content(v))
                 /\ call' = [call EXCEPT ![c].at = "err"]
                 /\ UNCHANGED mem
        /\ UNCHANGED usage

Return(c) ==
    /\ call[c].at = "write" /\ call[c].todo = <<>>
    /\ call' = [call EXCEPT ![c].at = "ok"]
    /\ UNCHANGED <<mem, usage>>

Next == Use \/ \E c \in Caller : Begin(c) \/ Order(c) \/ Write(c) \/ Return(c)

Spec == Init /\ [][Next]_vars

-----------------------------------------------------------------------------
(* The only caller there is.                                               *)
Alone(c) == Caller = {c}

(* A call that returns without an error has all its values in place, in    *)
(* whatever order it has written them, unless another call interferes.     *)
AllInPlace ==
    \A c \in Caller : Alone(c) /\ call[c].at = "ok" =>
        \A f \in File : \A v \in call[c].want[f] : mem[f] = Content(v)

(* The call was refused one of the two limits that depend on each other,   *)
(* on a kernel that has both.                                              *)
LimitRefused(c) ==
    /\ Alone(c) /\ call[c].at = "err" /\ Head(call[c].todo) \in {"limit", "memsw"}
    /\ "memsw" \in DOMAIN mem

(* Lowering both limits is not refused while the memory is not in use: the *)
(* memory limit has to go first, for the other may not fall below it.      *)
LoweringSucceeds ==
    \A c \in Caller : LimitRefused(c) =>
        \A l \in call[c].want["limit"], s \in call[c].want["memsw"] :
            ~(0 < l /\ InUse <= l /\ l <= s /\ s <= call[c].old["limit"])

(* "If the updated swap value is larger than the current memory limit set  *)
(* the swap changes first then set the memory limit": raising both limits  *)
(* is not refused.                                                         *)
RaisingSucceeds ==
    \A c \in Caller : LimitRefused(c) /\ call[c].op = "update" =>
        \A l \in call[c].want["limit"], s \in call[c].want["memsw"] :
            ~(/\ 0 < l /\ InUse <= l /\ l <= s
              /\ call[c].old["limit"] < s /\ call[c].old["memsw"] <= s)
=============================================================================
