---------------------------- MODULE Tree2_proofs ----------------------------
(***************************************************************************)
(* Theorems about Tree2 for any tree of directories, any callers, any      *)
(* controllers and processes, and any number of retries.                   *)
(***************************************************************************)
EXTENDS Tree2, SequenceTheorems, TLAPS

(* A directory of a path has the path up to it.                            *)
LEMMA Prefix ==
    ASSUME NEW d \in Dir, NEW i \in 1 .. Len(Path[d])
    PROVE  /\ Path[d] \in Seq(Dir) /\ Path[d][i] \in Dir
           /\ Len(Path[d]) \in Nat \ {0} /\ Path[d][Len(Path[d])] = d
           /\ Len(Path[Path[d][i]]) = i
           /\ \A j \in 1 .. i : Path[Path[d][i]][j] = Path[d][j]
<1>1. /\ Path[d] \in Seq(Dir) /\ Len(Path[d]) > 0 /\ Path[d][Len(Path[d])] = d
      /\ Path[Path[d][i]] = SubSeq(Path[d], 1, i)
  BY TreeAssumption
<1>2. /\ Path[d][i] \in Dir /\ Len(Path[d]) \in Nat
      /\ Len(SubSeq(Path[d], 1, i)) = i
      /\ \A j \in 1 .. i : SubSeq(Path[d], 1, i)[j] = Path[d][j]
  BY <1>1
<1> QED
  BY <1>1, <1>2

(* Being above is a strict order, in which what is above a directory is a  *)
(* chain.                                                                  *)
LEMMA AboveIsDir == ASSUME NEW d \in Dir PROVE Above(d) \subseteq Dir
  BY Prefix DEF Above

LEMMA AboveIrreflexive == ASSUME NEW d \in Dir PROVE d \notin Above(d)
<1> SUFFICES ASSUME NEW i \in 1 .. Len(Path[d]) - 1, Path[d][i] = d PROVE FALSE
  BY DEF Above
<1>1. Len(Path[d]) \in Nat /\ i \in 1 .. Len(Path[d])
  BY Prefix, TreeAssumption
<1> QED
  BY <1>1, Prefix

LEMMA AboveTransitive ==
    ASSUME NEW d \in Dir, NEW e \in Above(d), NEW f \in Above(e)
    PROVE  f \in Above(d)
<1>1. Len(Path[d]) \in Nat
  BY TreeAssumption
<1>2. PICK i \in 1 .. Len(Path[d]) - 1 : e = Path[d][i]
  BY DEF Above
<1>3. /\ Len(Path[e]) = i /\ \A j \in 1 .. i : Path[e][j] = Path[d][j]
  BY <1>1, <1>2, Prefix
<1>4. PICK j \in 1 .. i - 1 : f = Path[e][j]
  BY <1>3 DEF Above
<1>5. j \in 1 .. Len(Path[d]) - 1 /\ f = Path[d][j]
  BY <1>1, <1>2, <1>3, <1>4
<1> QED
  BY <1>5 DEF Above

LEMMA AboveTotal ==
    ASSUME NEW d \in Dir, NEW e \in Above(d), NEW f \in Above(d)
    PROVE  e = f \/ e \in Above(f) \/ f \in Above(e)
<1>1. Len(Path[d]) \in Nat
  BY TreeAssumption
<1>2. PICK i \in 1 .. Len(Path[d]) - 1 : e = Path[d][i]
  BY DEF Above
<1>3. PICK j \in 1 .. Len(Path[d]) - 1 : f = Path[d][j]
  BY DEF Above
<1>4. /\ Len(Path[e]) = i /\ \A k \in 1 .. i : Path[e][k] = Path[d][k]
      /\ Len(Path[f]) = j /\ \A k \in 1 .. j : Path[f][k] = Path[d][k]
  BY <1>1, <1>2, <1>3, Prefix
<1>5. CASE i < j
  <2>1. i \in 1 .. Len(Path[f]) - 1 /\ e = Path[f][i]
    BY <1>1, <1>2, <1>3, <1>4, <1>5
  <2> QED
    BY <2>1 DEF Above
<1>6. CASE j < i
  <2>1. j \in 1 .. Len(Path[e]) - 1 /\ f = Path[e][j]
    BY <1>1, <1>2, <1>3, <1>4, <1>6
  <2> QED
    BY <2>1 DEF Above
<1> QED
  BY <1>1, <1>2, <1>3, <1>5, <1>6

(* The root is the one directory with nothing above it.                    *)
LEMMA RootTop ==
    ASSUME NEW d \in Dir
    PROVE  /\ Root \in Dir /\ Len(Path[Root]) = 1 /\ Above(Root) = {}
           /\ Len(Path[d]) = 1 => d = Root
           /\ d # Root => Root \in Above(d)
<1>1. ASSUME NEW e \in Dir
      PROVE  Path[e][1] \in Dir /\ Len(Path[Path[e][1]]) = 1 /\ Path[e][1] = Path[d][1]
  <2>1. 1 \in 1 .. Len(Path[e])
    BY TreeAssumption
  <2>2. Path[e][1] \in Dir /\ Len(Path[Path[e][1]]) = 1
    BY <2>1, Prefix
  <2>3. Path[e][1] = Path[d][1]
    BY TreeAssumption
  <2> QED
    BY <2>2, <2>3
<1>2. Root \in Dir /\ Len(Path[Root]) = 1
  BY <1>1 DEF Root
<1>3. ASSUME NEW e \in Dir, Len(Path[e]) = 1
      PROVE  e = Path[d][1]
  BY <1>1, <1>3, TreeAssumption
<1>4. Above(Root) = {}
  BY <1>2 DEF Above
<1>5. d # Root => Root \in Above(d)
  <2>1. Len(Path[d]) \in Nat /\ Len(Path[d]) > 0 /\ Root = Path[d][1]
    BY <1>2, <1>3, TreeAssumption
  <2>2. d # Root => Len(Path[d]) # 1
    BY <2>1, <1>2, <1>3
  <2>3. \A n \in Nat : n > 0 /\ n # 1 => 1 \in 1 .. n - 1
    OBVIOUS
  <2>4. d # Root => 1 \in 1 .. Len(Path[d]) - 1
    BY <2>1, <2>2, <2>3
  <2> QED
    BY <2>1, <2>4 DEF Above
<1> QED
  BY <1>1, <1>2, <1>3, <1>4, <1>5

(* What is above a directory is its parent and what is above that.         *)
LEMMA ParentAbove ==
    ASSUME NEW d \in Dir, d # Root
    PROVE  /\ Parent(d) \in Dir /\ Parent(d) \in Above(d)
           /\ \A a \in Above(d) : a = Parent(d) \/ a \in Above(Parent(d))
           /\ Len(Path[d]) = Len(Path[Parent(d)]) + 1
<1>1. Len(Path[d]) \in Nat /\ Len(Path[d]) > 1
  <2>1. Len(Path[d]) \in Nat /\ Len(Path[d]) > 0
    BY TreeAssumption
  <2>2. Len(Path[d]) # 1
    BY RootTop
  <2>3. \A n \in Nat : n > 0 /\ n # 1 => n > 1
    OBVIOUS
  <2> QED
    BY <2>1, <2>2, <2>3
<1>2. Len(Path[d]) - 1 \in 1 .. Len(Path[d]) - 1 /\ Len(Path[d]) - 1 \in 1 .. Len(Path[d])
  BY <1>1
<1>3. Parent(d) \in Above(d) /\ Parent(d) \in Dir /\ Len(Path[Parent(d)]) = Len(Path[d]) - 1
  BY <1>2, Prefix DEF Parent, Above
<1>4. ASSUME NEW a \in Above(d), Parent(d) \in Above(a) PROVE FALSE
  <2>1. PICK i \in 1 .. Len(Path[d]) - 1 : a = Path[d][i]
    BY DEF Above
  <2>2. a \in Dir /\ Len(Path[a]) = i
    BY <2>1, <1>1, Prefix
  <2>3. PICK j \in 1 .. i - 1 : Parent(d) = Path[a][j]
    BY <1>4, <2>2 DEF Above
  <2>4. Len(Path[Parent(d)]) = j
    BY <2>2, <2>3, Prefix
  <2> QED
    BY <2>1, <2>3, <2>4, <1>1, <1>3
<1> QED
  BY <1>1, <1>3, <1>4, AboveTotal

(* Between a directory and one above it there is a child of the upper one. *)
LEMMA ChildBetween ==
    ASSUME NEW d \in Dir, NEW e \in Dir, d \in Above(e)
    PROVE  \E k \in Dir : /\ k = e \/ k \in Above(e)
                          /\ d \in Above(k) /\ Len(Path[k]) = Len(Path[d]) + 1
<1>1. Len(Path[e]) \in Nat /\ Len(Path[e]) > 0 /\ Path[e][Len(Path[e])] = e
  BY TreeAssumption
<1>2. PICK i \in 1 .. Len(Path[e]) - 1 : d = Path[e][i]
  BY DEF Above
<1>3. Len(Path[d]) = i
  BY <1>1, <1>2, Prefix
<1> DEFINE k == Path[e][i + 1]
<1>4. i + 1 \in 1 .. Len(Path[e])
  BY <1>1, <1>2
<1>5. /\ k \in Dir /\ Len(Path[k]) = i + 1
      /\ \A j \in 1 .. i + 1 : Path[k][j] = Path[e][j]
  BY <1>4, Prefix
<1>6. d \in Above(k)
  BY <1>2, <1>5 DEF Above
<1>7. k = e \/ k \in Above(e)
  BY <1>1, <1>2, SMTT(60) DEF Above
<1> QED
  BY <1>3, <1>5, <1>6, <1>7

-----------------------------------------------------------------------------
(* The inductive invariant.  The kernel's part of TypeOK; of every call,   *)
(* its place in the path and in the order of the operation; and for every  *)
(* process that has stayed, that the walk has found it or will.            *)
TreeOK ==
    /\ exists \subseteq Dir /\ Root \in exists
    /\ \A d \in exists : Above(d) \subseteq exists
    /\ control \in [Dir -> SUBSET Controller]
    /\ \A d \in Dir : \A a \in Above(d) : control[d] \subseteq control[a]
    /\ threaded \subseteq exists \ {Root}
    /\ home \in [Pid -> Dir] /\ proc \in [Pid -> {"none", "run", "dead"}]
    /\ \A p \in Alive : home[p] \in exists
    /\ \A d \in Dir \ exists : control[d] = {}

(* The loops of MkdirAll and ToggleControllers stay in the path, and what  *)
(* belongs to another operation is never done for MoveTo.                  *)
Place(r) ==
    /\ r.at \in {"mkdir", "toggle"} => r.i \in 1 .. Len(Path[r.dir])
    /\ r.at = "toggle" => r.i < Len(Path[r.dir]) \/ Len(Path[r.dir]) = 1
    /\ r.at \in {"mkdir", "toggle", "set", "cleanup", "type", "remove"} => r.op # "move"

(* The walk has found p, or has still to list a directory above the home   *)
(* of p, or has still to read the tasks file of that home.                 *)
Awaited(r, p) ==
    \/ p \in r.found
    \/ \E d \in Dir : <<"dir", d>> \in r.pend /\ home[p] \in Under(d)
    \/ <<"file", home[p]>> \in r.pend

Followed(r, p) ==
    /\ proc[p] # "none"
    /\ proc[p] = "run" =>
          /\ r.at = "type" => home[p] \in Under(r.dir)
          /\ r.at = "walk" => Awaited(r, p)
          /\ r.at = "moving" => p \in r.found
          /\ r.at # "remove" /\ ~(r.op = "move" /\ r.at = "ok")

CallOK(r) == r \in Call /\ Place(r) /\ \A p \in r.stay : Followed(r, p)

IInv == TreeOK /\ call \in [Caller -> Call] /\ \A c \in Caller : CallOK(call[c])

-----------------------------------------------------------------------------
(* What the kernel does keeps the tree a tree.                             *)
LEMMA UnderIsAbove ==
    ASSUME NEW d \in Dir
    PROVE  /\ d \in Under(d) /\ Under(d) \subseteq Dir
           /\ \A e \in Under(d) : e = d \/ d \in Above(e)
           /\ \A e \in Dir : d \in Above(e) => e \in Under(d)
           /\ \A e \in Under(d) : Under(e) \subseteq Under(d)
<1>1. ASSUME NEW e \in Under(d), NEW f \in Under(e) PROVE f \in Under(d)
  BY AboveTransitive DEF Under
<1> QED
  BY <1>1 DEF Under

LEMMA MkdirTree ==
    ASSUME TreeOK, NEW d \in Dir, d \in exists \/ Parent(d) \in exists,
           exists' = exists \cup {d}, UNCHANGED <<control, threaded, home, proc>>
    PROVE  TreeOK'
<1>1. \A e \in exists' : Above(e) \subseteq exists'
  <2>1. Above(d) \subseteq exists'
    BY ParentAbove, RootTop DEF TreeOK
  <2> QED
    BY <2>1 DEF TreeOK
<1> QED
  BY <1>1 DEF TreeOK, Alive

(* Rmdir of directories under which nobody lives, each with the whole      *)
(* subtree that exists.                                                    *)
LEMMA RmdirTree ==
    ASSUME TreeOK, NEW d \in Dir, NEW gone \in {{}, Removable(d)},
           Rmdir(gone), UNCHANGED <<home, proc>>
    PROVE  TreeOK'
<1>1. gone \subseteq Removable(d)
  OBVIOUS
<1>2. \A e \in gone : e \in Dir /\ e # Root /\ ~Populated(e)
  BY <1>1 DEF Removable, TreeOK
<1>3. ASSUME NEW e \in exists, NEW a \in Above(e), a \in gone PROVE e \in gone
  <2>1. a \in Dir /\ e \in Dir /\ a \in Removable(d) /\ gone = Removable(d)
    BY <1>1, <1>2, <1>3 DEF TreeOK
  <2>2. e \in Under(a) /\ a \in Under(d)
    BY <2>1, UnderIsAbove DEF Removable
  <2>3. e \in Under(d) /\ Under(e) \subseteq Under(a)
    BY <2>1, <2>2, UnderIsAbove
  <2>4. ~Populated(e)
    BY <1>2, <1>3, <2>3 DEF Populated
  <2>5. e # Root
    BY <2>1, RootTop
  <2> QED
    BY <2>1, <2>3, <2>4, <2>5 DEF Removable
<1>4. exists' \subseteq Dir /\ Root \in exists'
  BY <1>2 DEF TreeOK, Rmdir
<1>5. \A e \in exists' : Above(e) \subseteq exists'
  BY <1>3 DEF TreeOK, Rmdir
<1>6. /\ control' \in [Dir -> SUBSET Controller]
      /\ \A e \in Dir \ exists' : control'[e] = {}
  BY DEF TreeOK, Rmdir
<1>7. ASSUME NEW e \in Dir, NEW a \in Above(e)
      PROVE  control'[e] \subseteq control'[a]
  <2>1. a \in Dir
    BY AboveIsDir
  <2>2. CASE a \in gone
    BY <1>3, <2>1, <2>2 DEF TreeOK, Rmdir
  <2>3. CASE a \notin gone
    BY <2>1, <2>3 DEF TreeOK, Rmdir
  <2> QED
    BY <2>2, <2>3
<1>8. threaded' \subseteq exists' \ {Root}
  BY DEF TreeOK, Rmdir
<1>9. \A p \in Alive' : home'[p] \in exists'
  <2> SUFFICES ASSUME NEW p \in Pid, proc[p] = "run" PROVE home[p] \in exists \ gone
    BY DEF Alive, Rmdir
  <2>1. p \in Alive /\ home[p] \in exists /\ home[p] \in Dir
    BY DEF Alive, TreeOK
  <2>2. Populated(home[p])
    BY <2>1, UnderIsAbove DEF Populated
  <2> QED
    BY <1>2, <2>1, <2>2
<1> QED
  BY <1>4, <1>5, <1>6, <1>7, <1>8, <1>9 DEF TreeOK

(* A directory whose children do without a controller has no descendant    *)
(* with it.                                                                *)
LEMMA NoneBelow ==
    ASSUME TreeOK, NEW d \in Dir, NEW s, CanDisable(d, s), NEW e \in Dir, d \in Above(e)
    PROVE  control[e] \cap s = {}
<1>1. CASE e \notin exists
  BY <1>1 DEF TreeOK
<1>2. CASE e \in exists
  <2>1. PICK k \in Dir : /\ k = e \/ k \in Above(e)
                         /\ d \in Above(k) /\ Len(Path[k]) = Len(Path[d]) + 1
    BY ChildBetween
  <2>2. k \in Children(d)
    BY <1>2, <2>1 DEF Children, TreeOK
  <2>3. control[k] \cap s = {} /\ control[e] \subseteq control[k]
    BY <2>1, <2>2 DEF CanDisable, TreeOK
  <2> QED
    BY <2>3
<1> QED
  BY <1>1, <1>2

LEMMA ControlTree ==
    ASSUME TreeOK, NEW r, r.ctrl \subseteq Controller, NEW d \in Dir, NEW ok \in BOOLEAN,
           ok => Accepted(r, d), WriteControl(r, d, ok),
           UNCHANGED <<exists, threaded, home, proc>>
    PROVE  TreeOK'
<1>1. CASE ~ok
  BY <1>1 DEF TreeOK, WriteControl, Alive
<1>2. CASE ok /\ r.op = "disable"
  <2>1. /\ d \in exists /\ CanDisable(d, r.ctrl)
        /\ control' = [control EXCEPT ![d] = @ \ r.ctrl]
    BY <1>2 DEF Accepted, WriteControl
  <2>2. ASSUME NEW e \in Dir, NEW a \in Above(e) PROVE control'[e] \subseteq control'[a]
    <3>1. a \in Dir /\ control[e] \subseteq control[a]
      BY AboveIsDir DEF TreeOK
    <3>2. CASE a = d
      BY <2>1, <3>1, <3>2, NoneBelow, AboveIrreflexive DEF TreeOK
    <3>3. CASE a # d
      BY <2>1, <3>1, <3>3 DEF TreeOK
    <3> QED
      BY <3>2, <3>3
  <2>3. /\ control' \in [Dir -> SUBSET Controller]
        /\ \A e \in Dir \ exists : control'[e] = {}
    BY <2>1 DEF TreeOK
  <2> QED
    BY <2>2, <2>3 DEF TreeOK, Alive
<1>3. CASE ok /\ r.op # "disable"
  <2>1. /\ d \in exists /\ CanEnable(d, r.ctrl)
        /\ control' = [control EXCEPT ![d] = @ \cup r.ctrl]
    BY <1>3 DEF Accepted, WriteControl
  <2>2. ASSUME NEW a \in Above(d) PROVE r.ctrl \subseteq control[d] \cup control[a]
    <3>1. a \in Dir /\ d # Root
      BY AboveIsDir, RootTop
    <3>2. Available(d) = control[Parent(d)]
      BY <3>1 DEF Available
    <3>3. control[Parent(d)] \subseteq control[a]
      BY <3>1, ParentAbove DEF TreeOK
    <3> QED
      BY <2>1, <3>2, <3>3 DEF CanEnable
  <2>3. ASSUME NEW e \in Dir, NEW a \in Above(e) PROVE control'[e] \subseteq control'[a]
    <3>1. a \in Dir /\ control[e] \subseteq control[a]
      BY AboveIsDir DEF TreeOK
    <3>2. CASE e = d
      BY <2>1, <2>2, <3>1, <3>2, AboveIrreflexive DEF TreeOK
    <3>3. CASE e # d
      BY <2>1, <3>1, <3>3 DEF TreeOK
    <3> QED
      BY <3>2, <3>3
  <2>4. /\ control' \in [Dir -> SUBSET Controller]
        /\ \A e \in Dir \ exists : control'[e] = {}
    BY <2>1 DEF TreeOK
  <2> QED
    BY <2>3, <2>4 DEF TreeOK, Alive
<1> QED
  BY <1>1, <1>2, <1>3

LEMMA ThreadTree ==
    ASSUME TreeOK, NEW d \in exists, d # Root \/ d \in threaded,
           threaded' = threaded \cup {d}, UNCHANGED <<exists, control, home, proc>>
    PROVE  TreeOK'
  BY DEF TreeOK, Alive

LEMMA HomeTree ==
    ASSUME TreeOK, NEW p \in Pid, NEW d \in exists,
           home' = [home EXCEPT ![p] = d], UNCHANGED <<tree, proc>>
    PROVE  TreeOK'
  BY DEF TreeOK, Alive, tree

LEMMA ForkTree == ASSUME TreeOK, Fork PROVE TreeOK'
<1>1. PICK p \in Alive, q \in Pid :
          /\ proc[q] = "none"
          /\ proc' = [proc EXCEPT ![q] = "run"] /\ home' = [home EXCEPT ![q] = home[p]]
  BY DEF Fork
<1>2. p \in Pid /\ home[p] \in exists /\ UNCHANGED <<exists, control, threaded>>
  BY DEF Alive, TreeOK, Fork, tree
<1> QED
  BY <1>1, <1>2 DEF TreeOK, Alive

LEMMA ExitTree == ASSUME TreeOK, Exit PROVE TreeOK'
<1>1. PICK p \in Alive : proc' = [proc EXCEPT ![p] = "dead"]
  BY DEF Exit
<1>2. p \in Pid /\ UNCHANGED <<exists, control, threaded, home>>
  BY DEF Alive, Exit, tree
<1> QED
  BY <1>1, <1>2 DEF TreeOK, Alive

-----------------------------------------------------------------------------
(* The calls.  What one does to itself leaves the others as they are.      *)
LEMMA OwnStep ==
    ASSUME IInv, TreeOK', NEW c \in Caller, NEW r, CallOK(r), Set(c, r),
           UNCHANGED <<home, proc>>
    PROVE  IInv'
<1>1. call' \in [Caller -> Call]
  BY DEF IInv, CallOK, Set
<1>2. ASSUME NEW b \in Caller PROVE CallOK(call'[b])
  BY DEF IInv, Set
<1>3. ASSUME NEW b \in Caller PROVE CallOK(call[b])'
  <2>1. /\ call'[b] \in Call /\ Place(call'[b])
        /\ \A p \in call'[b].stay : Followed(call'[b], p)
    BY <1>2 DEF CallOK
  <2>2. \A p \in call'[b].stay : Followed(call[b], p)'
    BY <2>1 DEF Followed, Awaited
  <2> QED
    BY <2>1, <2>2 DEF CallOK, Place
<1> QED
  BY <1>1, <1>3 DEF IInv

LEMMA SameTree == ASSUME TreeOK, UNCHANGED kernel PROVE TreeOK'
  BY DEF TreeOK, kernel, Alive

(* A call that is at none of the places the walk is followed at.           *)
LEMMA PlainCall ==
    ASSUME NEW r \in Call, Place(r), \A p \in r.stay : proc[p] # "none",
           r.at \notin {"type", "walk", "moving", "remove"},
           r.op = "move" => r.at # "ok"
    PROVE  CallOK(r)
  BY DEF CallOK, Followed

LEMMA FreshTyped ==
    ASSUME NEW j, j.op \in Op, j.dir \in Dir, j.ctrl \subseteq Controller,
           j.pid \in Pid, j.dst \in Dir
    PROVE  Fresh(j) \in Call
<1>1. 0 \in 0 .. RemoveTries - 1 /\ 1 \in Nat
  BY TreeAssumption
<1> QED
  BY <1>1 DEF Call, Fresh

LEMMA FirstPlace ==
    ASSUME NEW r, r.dir \in Dir, r.i = 1,
           r.at \notin {"set", "cleanup", "type", "remove", "mkdir", "toggle"} \/ r.op # "move"
    PROVE  Place(r)
<1> DEFINE n == Len(Path[r.dir])
<1>1. n \in Nat /\ n > 0
  BY TreeAssumption
<1> HIDE DEF n
<1>2. 1 \in 1 .. n /\ (1 < n \/ n = 1)
  BY <1>1
<1> QED
  BY <1>2 DEF Place, n

LEMMA BeginInv == ASSUME IInv, NEW c \in Caller, Begin(c) PROVE IInv'
<1>1. PICK j \in Menu :
          Set(c, [Fresh(j) EXCEPT
                    !.at = Start(j.op),
                    !.pend = IF j.op = "move" THEN {<<"dir", j.dir>>} ELSE {},
                    !.stay = IF j.op \in {"move", "delete"}
                             THEN {p \in Alive : home[p] \in Under(j.dir)} ELSE {}])
  BY DEF Begin
<1> DEFINE s == [Fresh(j) EXCEPT
                    !.at = Start(j.op),
                    !.pend = IF j.op = "move" THEN {<<"dir", j.dir>>} ELSE {},
                    !.stay = IF j.op \in {"move", "delete"}
                             THEN {p \in Alive : home[p] \in Under(j.dir)} ELSE {}]
<1>2. /\ j.op \in Op /\ j.dir \in Dir /\ j.ctrl \subseteq Controller
      /\ j.pid \in Pid /\ j.dst \in Dir
  BY TreeAssumption
<1>3. /\ s.op = j.op /\ s.dir = j.dir /\ s.at = Start(j.op) /\ s.i = 1
      /\ s.pend = IF j.op = "move" THEN {<<"dir", j.dir>>} ELSE {}
      /\ s.stay = IF j.op \in {"move", "delete"}
                  THEN {p \in Alive : home[p] \in Under(j.dir)} ELSE {}
  BY DEF Fresh
<1>4. /\ j.op \in {"new", "child"} => Start(j.op) = "mkdir"
      /\ j.op \in {"enable", "disable"} => Start(j.op) = "toggle"
      /\ j.op \in {"settype", "add", "thread"} => Start(j.op) = "write"
      /\ j.op = "delete" => Start(j.op) = "type"
      /\ j.op = "move" => Start(j.op) = "walk"
  BY DEF Start
<1>5. s \in Call
  <2>1. Start(j.op) \in {"mkdir", "toggle", "write", "type", "walk"}
    BY <1>2, <1>4 DEF Op
  <2>2. s.pend \in SUBSET ({"dir", "file"} \X Dir) /\ s.stay \in SUBSET Pid
    BY <1>2, <1>3 DEF Alive
  <2>3. Fresh(j) \in Call
    BY <1>2, FreshTyped
  <2> QED
    BY <1>3, <2>1, <2>2, <2>3, ZenonT(60) DEF Call
<1>6. Place(s)
  <2>1. s.dir \in Dir /\ s.i = 1 /\ (s.op = "move" => s.at = "walk")
    BY <1>2, <1>3, <1>4
  <2> HIDE DEF s
  <2> QED
    BY <2>1, FirstPlace
<1>7. ASSUME NEW p \in s.stay PROVE Followed(s, p)
  <2>1. /\ j.op \in {"move", "delete"} /\ proc[p] = "run" /\ home[p] \in Under(j.dir)
    BY <1>3, <1>7 DEF Alive
  <2>2. CASE j.op = "delete"
    BY <1>3, <1>4, <2>1, <2>2 DEF Followed
  <2>3. CASE j.op = "move"
    BY <1>2, <1>3, <1>4, <2>1, <2>3 DEF Followed, Awaited
  <2> QED
    BY <2>1, <2>2, <2>3
<1>8. CallOK(s) /\ Set(c, s)
  BY <1>1, <1>5, <1>6, <1>7 DEF CallOK
<1> HIDE DEF s
<1>9. UNCHANGED kernel /\ UNCHANGED <<home, proc>>
  BY DEF Begin, kernel
<1> QED
  BY <1>8, <1>9, OwnStep, SameTree DEF IInv

(* What is known of a call.                                                *)
LEMMA CallFacts ==
    ASSUME IInv, NEW c \in Caller
    PROVE  /\ call[c] \in Call /\ Place(call[c]) /\ TreeOK
           /\ call[c].dir \in Dir /\ call[c].dst \in Dir /\ call[c].pid \in Pid
           /\ call[c].ctrl \subseteq Controller /\ call[c].i \in Nat
           /\ call[c].found \subseteq Pid /\ call[c].stay \subseteq Pid
           /\ call[c].pend \subseteq {"dir", "file"} \X Dir
           /\ \A p \in call[c].stay : Followed(call[c], p) /\ proc[p] # "none"
<1>1. CallOK(call[c]) /\ TreeOK
  BY DEF IInv
<1>2. call[c] \in Call
  BY <1>1 DEF CallOK
<1>3. \A p \in call[c].stay : Followed(call[c], p) /\ proc[p] # "none"
  BY <1>1 DEF CallOK, Followed
<1> QED
  BY <1>1, <1>2, <1>3 DEF CallOK, Call

LEMMA ReturnInv ==
    ASSUME IInv, TreeOK', NEW c \in Caller, NEW result \in {"ok", "err"},
           Return(c, result, call[c]), UNCHANGED <<home, proc>>,
           \/ result = "err" \/ call[c].op # "move"
           \/ \A p \in call[c].stay : proc[p] # "run"
    PROVE  IInv'
<1> DEFINE s == [call[c] EXCEPT !.at = result, !.pend = {}, !.found = {}]
<1>1. /\ s \in Call /\ s.at = result /\ s.op = call[c].op /\ s.stay = call[c].stay
  BY CallFacts, ZenonT(60) DEF Call
<1>2. Set(c, s)
  BY DEF Return
<1> HIDE DEF s
<1>3. Place(s)
  BY <1>1 DEF Place
<1>4. ASSUME NEW p \in s.stay PROVE Followed(s, p)
  BY <1>1, <1>4, CallFacts DEF Followed
<1>5. CallOK(s)
  BY <1>1, <1>3, <1>4 DEF CallOK
<1> QED
  BY <1>2, <1>5, OwnStep

LEMMA FailsInv == ASSUME IInv, NEW c \in Caller, Fails(c) PROVE IInv'
<1>1. Return(c, "err", call[c]) /\ UNCHANGED kernel /\ UNCHANGED <<home, proc>>
  BY DEF Fails, kernel
<1> QED
  BY <1>1, SameTree, ReturnInv DEF IInv

(* A call that goes on to a place at which nothing is followed.            *)
LEMMA GoOn ==
    ASSUME IInv, TreeOK', NEW c \in Caller, NEW r \in Call, Place(r), Set(c, r),
           r.op = call[c].op, r.stay = call[c].stay,
           r.at \notin {"type", "walk", "moving", "remove"}, r.op = "move" => r.at # "ok",
           UNCHANGED <<home, proc>>
    PROVE  IInv'
<1>1. \A p \in r.stay : proc[p] # "none"
  BY CallFacts
<1> QED
  BY <1>1, PlainCall, OwnStep

LEMMA MkdirInv == ASSUME IInv, NEW c \in Caller, Mkdir(c) PROVE IInv'
<1> DEFINE r == call[c]
           d == Path[r.dir][r.i]
           leaf == r.i = Len(Path[r.dir])
           next == [r EXCEPT !.i = IF leaf THEN 1 ELSE @ + 1,
                             !.at = IF ~leaf THEN "mkdir"
                                    ELSE IF r.op = "child" THEN "ok" ELSE "toggle"]
<1>1. CASE d \in exists \/ Parent(d) \in exists
  <2>1. /\ exists' = exists \cup {d} /\ Set(c, next) /\ r.at = "mkdir"
        /\ UNCHANGED <<control, threaded, home, proc>>
    BY <1>1 DEF Mkdir
  <2>2. r.i \in 1 .. Len(Path[r.dir]) /\ r.dir \in Dir /\ r.op # "move"
    BY <2>1, CallFacts DEF Place
  <2>3. d \in Dir
    BY <2>2, Prefix
  <2>4. TreeOK'
    BY <1>1, <2>1, <2>3, MkdirTree, CallFacts
  <2>5. /\ next \in Call /\ next.op = r.op /\ next.dir = r.dir /\ next.stay = r.stay
        /\ next.i = IF leaf THEN 1 ELSE r.i + 1
        /\ next.at = IF ~leaf THEN "mkdir" ELSE IF r.op = "child" THEN "ok" ELSE "toggle"
    <3> DEFINE n == IF leaf THEN 1 ELSE r.i + 1
               a == IF ~leaf THEN "mkdir" ELSE IF r.op = "child" THEN "ok" ELSE "toggle"
    <3>1. n \in Nat /\ a \in {"mkdir", "toggle", "ok"} /\ r \in Call
      BY CallFacts
    <3>2. next = [r EXCEPT !.i = n, !.at = a]
      OBVIOUS
    <3> HIDE DEF n, a
    <3>3. /\ [r EXCEPT !.i = n, !.at = a] \in Call /\ next.op = r.op /\ next.dir = r.dir
          /\ next.stay = r.stay /\ next.i = n /\ next.at = a
      BY <3>1, <3>2 DEF Call
    <3> QED
      BY <3>2, <3>3 DEF n, a
  <2>6. Len(Path[r.dir]) \in Nat /\ Len(Path[r.dir]) > 0
    BY <2>2, TreeAssumption
  <2> HIDE DEF next
  <2>7. Place(next)
    <3>1. CASE leaf
      BY <2>2, <2>5, <3>1, FirstPlace
    <3>2. CASE ~leaf
      BY <2>2, <2>5, <2>6, <3>2 DEF Place
    <3> QED
      BY <3>1, <3>2
  <2> QED
    BY <2>1, <2>2, <2>4, <2>5, <2>7, GoOn
<1>2. CASE ~(d \in exists \/ Parent(d) \in exists)
  BY <1>2, FailsInv DEF Mkdir
<1> QED
  BY <1>1, <1>2

LEMMA ToggledPlace ==
    ASSUME IInv, NEW c \in Caller, call[c].at = "toggle", NEW failed \in BOOLEAN
    PROVE  LET r == AfterToggle(call[c], failed)
           IN  /\ r \in Call /\ Place(r) /\ r.op = call[c].op /\ r.stay = call[c].stay
               /\ r.at \in {"cleanup", "set", "err", "ok"} /\ r.op # "move"
<1> DEFINE r == AfterToggle(call[c], failed)
<1>1. call[c].op # "move"
  BY CallFacts DEF Place
<1>2. /\ r \in Call /\ r.op = call[c].op /\ r.stay = call[c].stay
      /\ r.at \in {"cleanup", "set", "err", "ok"}
  BY CallFacts, ZenonT(60) DEF AfterToggle, Call
<1> HIDE DEF r
<1>3. Place(r)
  BY <1>1, <1>2 DEF Place
<1> QED
  BY <1>1, <1>2, <1>3 DEF r

LEMMA ToggleInv == ASSUME IInv, NEW c \in Caller, Toggle(c) PROVE IInv'
<1> DEFINE r == call[c]
           d == Path[r.dir][r.i]
<1>1. r.at = "toggle"
  BY DEF Toggle
<1>2. /\ r.i \in 1 .. Len(Path[r.dir]) /\ Len(Path[r.dir]) \in Nat /\ r.dir \in Dir
      /\ r.i < Len(Path[r.dir]) \/ Len(Path[r.dir]) = 1
      /\ r.op # "move" /\ r.ctrl \subseteq Controller
  <2>1. r.dir \in Dir /\ r.ctrl \subseteq Controller /\ Place(r)
    BY CallFacts
  <2>2. Len(Path[r.dir]) \in Nat
    BY <2>1, TreeAssumption
  <2> QED
    BY <1>1, <2>1, <2>2 DEF Place
<1>3. CASE r.i = Len(Path[r.dir])
  <2>1. /\ Set(c, AfterToggle(r, FALSE)) /\ UNCHANGED kernel /\ UNCHANGED <<home, proc>>
    BY <1>3 DEF Toggle, kernel
  <2>2. TreeOK'
    BY <2>1, SameTree DEF IInv
  <2> QED
    BY <1>1, <2>1, <2>2, ToggledPlace, GoOn
<1>4. CASE r.i # Len(Path[r.dir])
  <2>1. PICK ok \in Outcomes(r, d) :
              /\ WriteControl(r, d, ok)
              /\ Set(c, IF r.i + 1 = Len(Path[r.dir]) THEN AfterToggle(r, ~ok)
                        ELSE [r EXCEPT !.i = @ + 1, !.err = ~ok])
              /\ UNCHANGED <<exists, threaded, home, proc>>
    BY <1>4 DEF Toggle
  <2>2. ok \in BOOLEAN /\ (ok => Accepted(r, d)) /\ d \in Dir
    BY <1>2, Prefix DEF Outcomes, Accepted
  <2>3. TreeOK'
    BY <1>2, <2>1, <2>2, ControlTree DEF IInv
  <2>4. CASE r.i + 1 = Len(Path[r.dir])
    BY <1>1, <2>1, <2>2, <2>3, <2>4, ToggledPlace, GoOn
  <2>5. CASE r.i + 1 # Len(Path[r.dir])
    <3> DEFINE s == [r EXCEPT !.i = @ + 1, !.err = ~ok]
    <3>1. /\ s \in Call /\ s.op = r.op /\ s.stay = r.stay /\ s.at = "toggle"
          /\ s.i = r.i + 1 /\ s.dir = r.dir
      <4> DEFINE n == r.i + 1
                 e == ~ok
      <4>1. n \in Nat /\ e \in BOOLEAN /\ r \in Call
        BY <2>2, CallFacts
      <4>2. s = [r EXCEPT !.i = n, !.err = e]
        OBVIOUS
      <4> HIDE DEF n, e
      <4>3. /\ [r EXCEPT !.i = n, !.err = e] \in Call /\ s.op = r.op /\ s.stay = r.stay
            /\ s.at = "toggle" /\ s.i = n /\ s.dir = r.dir
        BY <1>1, <4>1, <4>2 DEF Call
      <4> QED
        BY <4>2, <4>3 DEF n
    <3>2. Set(c, s)
      BY <2>1, <2>5
    <3> HIDE DEF s
    <3>3. Place(s)
      BY <1>2, <1>4, <2>5, <3>1 DEF Place
    <3> QED
      BY <1>2, <2>1, <2>3, <3>1, <3>2, <3>3, GoOn
  <2> QED
    BY <2>4, <2>5
<1> QED
  BY <1>3, <1>4

LEMMA SetResourcesInv == ASSUME IInv, NEW c \in Caller, SetResources(c) PROVE IInv'
<1> DEFINE s == [call[c] EXCEPT !.at = "cleanup"]
<1>1. call[c].at = "set" /\ UNCHANGED kernel /\ UNCHANGED <<home, proc>>
  BY DEF SetResources, kernel
<1>2. TreeOK' /\ call[c].op # "move"
  BY <1>1, SameTree, CallFacts DEF Place
<1>3. CASE Return(c, "ok", call[c])
  BY <1>1, <1>2, <1>3, ReturnInv
<1>4. CASE Set(c, s)
  <2>1. s \in Call /\ s.at = "cleanup" /\ s.op = call[c].op /\ s.stay = call[c].stay
    BY CallFacts DEF Call
  <2> HIDE DEF s
  <2>2. Place(s)
    BY <1>2, <2>1 DEF Place
  <2> QED
    BY <1>1, <1>2, <1>4, <2>1, <2>2, GoOn
<1> QED
  BY <1>3, <1>4 DEF SetResources

LEMMA CleanupInv == ASSUME IInv, NEW c \in Caller, Cleanup(c) PROVE IInv'
<1> DEFINE d == call[c].dir
           gone == IF Children(d) = {} THEN Removable(d) ELSE {}
<1>1. Return(c, "err", call[c]) /\ Rmdir(gone) /\ UNCHANGED <<home, proc>>
  BY DEF Cleanup
<1>2. TreeOK /\ d \in Dir /\ gone \in {{}, Removable(d)}
  BY CallFacts
<1>3. TreeOK'
  BY <1>1, <1>2, RmdirTree
<1> QED
  BY <1>1, <1>3, ReturnInv

LEMMA SetTypeInv == ASSUME IInv, NEW c \in Caller, SetType(c) PROVE IInv'
<1> DEFINE d == call[c].dir
<1>1. CASE d \in exists /\ CanThread(d)
  <2>1. /\ threaded' = threaded \cup {d} /\ Return(c, "ok", call[c])
        /\ UNCHANGED <<exists, control, home, proc>> /\ call[c].op = "settype"
    BY <1>1 DEF SetType
  <2>2. TreeOK'
    BY <1>1, <2>1, ThreadTree DEF IInv, CanThread
  <2> QED
    BY <2>1, <2>2, ReturnInv
<1>2. CASE ~(d \in exists /\ CanThread(d))
  BY <1>2, FailsInv DEF SetType
<1> QED
  BY <1>1, <1>2

(* A process that moves is no longer followed by anybody.                  *)
LEMMA MovedInv ==
    ASSUME IInv, NEW c \in Caller, NEW p \in Pid, NEW d \in exists, NEW r \in Call,
           Place(r), \A q \in r.stay \ {p} : Followed(r, q),
           call' = Moved(p, [call EXCEPT ![c] = r]),
           home' = [home EXCEPT ![p] = d], UNCHANGED <<tree, proc>>
    PROVE  IInv'
<1>1. TreeOK'
  BY HomeTree DEF IInv
<1>2. ASSUME NEW b \in Caller PROVE CallOK(call[b])'
  <2> DEFINE t == IF b = c THEN r ELSE call[b]
             s == [t EXCEPT !.stay = @ \ {p}]
  <2>1. /\ t \in Call /\ Place(t) /\ \A q \in t.stay \ {p} : Followed(t, q)
    BY CallFacts
  <2>2. call'[b] = s
    BY CallFacts DEF Moved, IInv
  <2> HIDE DEF t
  <2>3. /\ s \in Call /\ s.stay = t.stay \ {p} /\ s.at = t.at /\ s.op = t.op /\ s.i = t.i
        /\ s.dir = t.dir /\ s.found = t.found /\ s.pend = t.pend
    BY <2>1 DEF Call
  <2> HIDE DEF s
  <2>4. Place(s)
    BY <2>1, <2>3 DEF Place
  <2>5. ASSUME NEW q \in s.stay PROVE Followed(call[b], q)'
    <3>1. q \in Pid /\ q # p /\ Followed(t, q)
      BY <2>1, <2>3 DEF Call
    <3>2. home'[q] = home[q] /\ proc'[q] = proc[q]
      BY <3>1 DEF IInv, TreeOK
    <3> QED
      BY <2>2, <2>3, <3>1, <3>2 DEF Followed, Awaited
  <2>6. Place(call[b])'
    BY <2>2, <2>4 DEF Place
  <2> QED
    BY <2>2, <2>3, <2>5, <2>6 DEF CallOK
<1>3. call' \in [Caller -> Call]
  <2>1. call' = [b \in Caller |-> call'[b]]
    BY DEF Moved
  <2> QED
    BY <1>2, <2>1 DEF CallOK
<1> QED
  BY <1>1, <1>2, <1>3 DEF IInv

LEMMA AddProcInv == ASSUME IInv, NEW c \in Caller, AddProc(c) PROVE IInv'
<1> DEFINE r == call[c]
           p == r.pid
           s == [r EXCEPT !.at = "ok"]
           can == /\ p \in Alive /\ CanHost(r.dir)
                  /\ r.op = "thread" => DomainOf(home[p]) = DomainOf(r.dir)
<1>1. CASE can
  <2>1. /\ home' = [home EXCEPT ![p] = r.dir] /\ UNCHANGED <<tree, proc>>
        /\ call' = Moved(p, [call EXCEPT ![c] = s]) /\ r.op \in {"add", "thread"}
    BY <1>1 DEF AddProc
  <2>2. p \in Pid /\ r.dir \in exists
    BY <1>1 DEF Alive, CanHost
  <2>3. s \in Call /\ s.at = "ok" /\ s.op = r.op /\ s.stay = r.stay
    BY CallFacts DEF Call
  <2> HIDE DEF s
  <2>4. Place(s)
    BY <2>3 DEF Place
  <2>5. \A q \in s.stay : Followed(s, q)
    BY <2>1, <2>3, CallFacts DEF Followed
  <2> QED
    BY <2>1, <2>2, <2>3, <2>4, <2>5, MovedInv
<1>2. CASE ~can
  BY <1>2, FailsInv DEF AddProc
<1> QED
  BY <1>1, <1>2

LEMMA ReadTypeInv == ASSUME IInv, NEW c \in Caller, ReadType(c) PROVE IInv'
<1> DEFINE r == call[c]
           f == IF r.dir \in threaded \/ ThreadRoot(r.dir) THEN "threads" ELSE "procs"
           s == [r EXCEPT !.at = "walk", !.pend = {<<"dir", r.dir>>}, !.file = f]
<1>1. r.at = "type" /\ Set(c, s) /\ UNCHANGED kernel /\ UNCHANGED <<home, proc>>
  BY DEF ReadType, kernel
<1>2. f \in {"procs", "threads"} /\ {<<"dir", r.dir>>} \in SUBSET ({"dir", "file"} \X Dir)
  BY CallFacts
<1> HIDE DEF f
<1>3. /\ s \in Call /\ s.at = "walk" /\ s.pend = {<<"dir", r.dir>>}
      /\ s.op = r.op /\ s.stay = r.stay /\ s.dir = r.dir
  BY <1>2, CallFacts, ZenonT(60) DEF Call
<1> HIDE DEF s
<1>4. Place(s)
  BY <1>3 DEF Place
<1>5. ASSUME NEW p \in s.stay PROVE Followed(s, p)
  BY <1>1, <1>3, <1>5, CallFacts DEF Followed, Awaited
<1> QED
  BY <1>1, <1>3, <1>4, <1>5, SameTree, OwnStep DEF IInv, CallOK

(* What lies under a directory is that directory or lies under one of its  *)
(* children.                                                               *)
LEMMA UnderSplits ==
    ASSUME TreeOK, NEW d \in exists, NEW e \in exists, e \in Under(d)
    PROVE  e = d \/ \E k \in Children(d) : e \in Under(k)
<1>1. d \in Dir /\ e \in Dir
  BY DEF TreeOK
<1>2. CASE d \in Above(e)
  <2>1. PICK k \in Dir : /\ k = e \/ k \in Above(e)
                         /\ d \in Above(k) /\ Len(Path[k]) = Len(Path[d]) + 1
    BY <1>1, <1>2, ChildBetween
  <2>2. k \in Children(d)
    BY <2>1 DEF Children, TreeOK
  <2>3. e \in Under(k)
    BY <1>1, <2>1, UnderIsAbove
  <2> QED
    BY <2>2, <2>3
<1> QED
  BY <1>1, <1>2, UnderIsAbove

LEMMA ListDirInv == ASSUME IInv, NEW c \in Caller, ListDir(c) PROVE IInv'
<1> DEFINE r == call[c]
<1>1. r.at = "walk" /\ UNCHANGED kernel /\ UNCHANGED <<home, proc>>
  BY DEF ListDir, kernel
<1>2. PICK d \in exists :
          /\ <<"dir", d>> \in r.pend
          /\ Set(c, [r EXCEPT !.pend = (@ \ {<<"dir", d>>}) \cup {<<"file", d>>}
                                       \cup {<<"dir", e>> : e \in Children(d)}])
  BY DEF ListDir
<1> DEFINE pend == (r.pend \ {<<"dir", d>>}) \cup {<<"file", d>>}
                   \cup {<<"dir", e>> : e \in Children(d)}
           s == [r EXCEPT !.pend = pend]
<1>3. Set(c, s)
  BY <1>2
<1>4. pend \in SUBSET ({"dir", "file"} \X Dir) /\ Children(d) \subseteq Dir /\ d \in Dir
  BY CallFacts DEF Children, TreeOK
<1>5. ASSUME NEW p \in Pid, proc[p] = "run", Awaited(r, p)
      PROVE  \/ p \in r.found
             \/ \E e \in Dir : <<"dir", e>> \in pend /\ home[p] \in Under(e)
             \/ <<"file", home[p]>> \in pend
  <2>1. home[p] \in exists
    BY <1>5, CallFacts DEF TreeOK, Alive
  <2>2. CASE p \in r.found \/ <<"file", home[p]>> \in r.pend
    BY <2>2
  <2>3. ASSUME NEW e \in Dir, <<"dir", e>> \in r.pend, home[p] \in Under(e), e # d
        PROVE  <<"dir", e>> \in pend
    BY <2>3
  <2>4. CASE home[p] \in Under(d)
    <3>1. home[p] = d \/ \E k \in Children(d) : home[p] \in Under(k)
      BY <2>1, <2>4, UnderSplits, CallFacts
    <3> QED
      BY <1>4, <3>1
  <2> HIDE DEF pend
  <2> QED
    BY <1>5, <2>2, <2>3, <2>4 DEF Awaited
<1> HIDE DEF pend
<1>6. /\ s \in Call /\ s.at = "walk" /\ s.pend = pend /\ s.op = r.op /\ s.stay = r.stay
      /\ s.found = r.found
  BY <1>1, <1>4, CallFacts DEF Call
<1> HIDE DEF s
<1>7. Place(s)
  BY <1>6 DEF Place
<1>8. ASSUME NEW p \in s.stay PROVE Followed(s, p)
  <2>1. p \in Pid /\ Followed(r, p)
    BY <1>6, CallFacts
  <2>2. proc[p] = "run" => Awaited(s, p)
    BY <1>1, <1>5, <1>6, <2>1 DEF Awaited, Followed
  <2> QED
    BY <1>6, <2>1, <2>2 DEF Followed
<1> QED
  BY <1>1, <1>3, <1>6, <1>7, <1>8, SameTree, OwnStep DEF IInv, CallOK

(* A directory that is not threaded is its own resource domain, so that    *)
(* its cgroup.procs lists its own processes.                               *)
LEMMA OwnDomain ==
    ASSUME NEW d \in Dir, d \notin threaded
    PROVE  DomainOf(d) = d
<1> DEFINE A == (Above(d) \cup {d}) \ threaded
           Top(a) == \A b \in A : b = a \/ b \in Above(a)
<1>1. d \in A /\ Top(d)
  OBVIOUS
<1>2. ASSUME NEW a \in A, Top(a) PROVE a = d
  BY <1>1, <1>2, AboveTransitive, AboveIrreflexive
<1> QED
  BY <1>1, <1>2 DEF DomainOf

LEMMA ReadTasksInv == ASSUME IInv, NEW c \in Caller, ReadTasks(c) PROVE IInv'
<1> DEFINE r == call[c]
<1>1. r.at = "walk" /\ UNCHANGED kernel /\ UNCHANGED <<home, proc>>
  BY DEF ReadTasks, kernel
<1>2. PICK d \in exists :
          /\ <<"file", d>> \in r.pend
          /\ r.file = "procs" => d \notin threaded
          /\ Set(c, [r EXCEPT !.pend = @ \ {<<"file", d>>},
                              !.found = @ \cup Lists(r.file, d)])
  BY DEF ReadTasks
<1> DEFINE listed == Lists(r.file, d)
           s == [r EXCEPT !.pend = @ \ {<<"file", d>>}, !.found = @ \cup listed]
<1>3. Set(c, s) /\ d \in Dir
  BY <1>2, CallFacts DEF TreeOK
<1>4. listed \subseteq Pid
  BY DEF Lists, In, Alive
<1>5. ASSUME NEW p \in Pid, proc[p] = "run", home[p] = d
      PROVE  p \in listed
  <2>1. r.file = "threads" \/ r.file = "procs"
    BY CallFacts DEF Call
  <2>2. r.file = "procs" => DomainOf(home[p]) = d
    BY <1>2, <1>3, <1>5, OwnDomain
  <2> QED
    BY <1>5, <2>1, <2>2 DEF Lists, In, Alive
<1> HIDE DEF listed
<1>6. /\ s \in Call /\ s.at = "walk" /\ s.pend = r.pend \ {<<"file", d>>}
      /\ s.op = r.op /\ s.stay = r.stay /\ s.found = r.found \cup listed
  BY <1>1, <1>4, CallFacts, ZenonT(60) DEF Call
<1> HIDE DEF s
<1>7. Place(s)
  BY <1>6 DEF Place
<1>8. ASSUME NEW p \in s.stay PROVE Followed(s, p)
  <2>1. p \in Pid /\ Followed(r, p)
    BY <1>6, CallFacts
  <2>2. ASSUME proc[p] = "run" PROVE Awaited(s, p)
    <3>1. Awaited(r, p)
      BY <1>1, <2>1, <2>2 DEF Followed
    <3>2. CASE home[p] = d
      BY <1>5, <1>6, <2>1, <2>2, <3>2 DEF Awaited
    <3>3. CASE home[p] # d
      BY <1>6, <3>1, <3>3 DEF Awaited
    <3> QED
      BY <3>2, <3>3
  <2> QED
    BY <1>6, <2>1, <2>2 DEF Followed
<1> QED
  BY <1>1, <1>3, <1>6, <1>7, <1>8, SameTree, OwnStep DEF IInv, CallOK

LEMMA WalkFailsInv == ASSUME IInv, NEW c \in Caller, WalkFails(c) PROVE IInv'
  BY FailsInv DEF WalkFails

LEMMA WalkedInv == ASSUME IInv, NEW c \in Caller, Walked(c) PROVE IInv'
<1> DEFINE r == call[c]
<1>1. r.at = "walk" /\ r.pend = {}
  BY DEF Walked
<1>2. ASSUME NEW p \in r.stay, proc[p] = "run" PROVE p \in r.found
  BY <1>1, <1>2, CallFacts DEF Followed, Awaited
<1>3. ASSUME NEW a \in {"moving", "remove"}, Set(c, [r EXCEPT !.at = a]), UNCHANGED kernel,
             a = "remove" => r.found = {} /\ r.op = "delete"
      PROVE  IInv'
  <2> DEFINE s == [r EXCEPT !.at = a]
  <2>1. /\ s \in Call /\ s.at = a /\ s.op = r.op /\ s.stay = r.stay /\ s.found = r.found
    BY CallFacts DEF Call
  <2>2. Set(c, s)
    BY <1>3
  <2> HIDE DEF s
  <2>3. Place(s)
    BY <1>3, <2>1 DEF Place
  <2>4. ASSUME NEW p \in s.stay PROVE Followed(s, p)
    BY <1>2, <1>3, <2>1, <2>4, CallFacts DEF Followed
  <2>5. UNCHANGED <<home, proc>>
    BY <1>3 DEF kernel
  <2> QED
    BY <1>3, <2>1, <2>2, <2>3, <2>4, <2>5, SameTree, OwnStep DEF IInv, CallOK
<1> QED
  BY <1>3, FailsInv DEF Walked

LEMMA RemoveInv == ASSUME IInv, NEW c \in Caller, Remove(c) PROVE IInv'
<1> DEFINE r == call[c]
           gone == Removable(r.dir)
           n == r.tries + 1
           s == [r EXCEPT !.tries = n]
<1>1. /\ r.at = "remove" /\ Rmdir(gone) /\ UNCHANGED <<home, proc>>
      /\ \/ Return(c, "ok", r) \/ Return(c, "err", r)
         \/ n # RemoveTries /\ Set(c, s)
  BY DEF Remove
<1>2. TreeOK' /\ r.op # "move"
  <2>1. r.dir \in Dir /\ gone \in {{}, Removable(r.dir)} /\ TreeOK
    BY CallFacts
  <2>2. TreeOK'
    BY <1>1, <2>1, RmdirTree
  <2> QED
    BY <1>1, <2>2, CallFacts DEF Place
<1>3. ASSUME n # RemoveTries, Set(c, s) PROVE IInv'
  <2>1. n \in 0 .. RemoveTries - 1
    <3>1. r.tries \in 0 .. RemoveTries - 1 /\ RemoveTries \in Nat
      BY CallFacts, TreeAssumption DEF Call
    <3> QED
      BY <1>3, <3>1
  <2> HIDE DEF n
  <2>2. s \in Call /\ s.at = "remove" /\ s.op = r.op /\ s.stay = r.stay
    BY <1>1, <2>1, CallFacts DEF Call
  <2>3. Set(c, s)
    BY <1>3
  <2> HIDE DEF s
  <2>4. Place(s)
    BY <1>2, <2>2 DEF Place
  <2>5. ASSUME NEW p \in s.stay PROVE Followed(s, p)
    BY <1>1, <2>2, <2>5, CallFacts DEF Followed
  <2> QED
    BY <1>1, <1>2, <2>2, <2>3, <2>4, <2>5, OwnStep DEF CallOK
<1>4. ASSUME Return(c, "ok", r) \/ Return(c, "err", r) PROVE IInv'
  BY <1>1, <1>2, <1>4, ReturnInv
<1> QED
  BY <1>1, <1>3, <1>4

LEMMA MoveOneInv == ASSUME IInv, NEW c \in Caller, MoveOne(c) PROVE IInv'
<1> DEFINE r == call[c]
<1>1. r.at = "moving"
  BY DEF MoveOne
<1>2. PICK p \in r.found :
        LET rest == [call EXCEPT ![c].found = @ \ {p}]
        IN  \/ /\ p \notin Alive
               /\ call' = rest /\ UNCHANGED kernel
            \/ /\ p \in Alive /\ CanHost(r.dst)
               /\ home' = [home EXCEPT ![p] = r.dst] /\ call' = Moved(p, rest)
               /\ UNCHANGED <<tree, proc>>
            \/ /\ p \in Alive /\ ~CanHost(r.dst)
               /\ Fails(c)
  BY DEF MoveOne
<1> DEFINE s == [r EXCEPT !.found = @ \ {p}]
           rest == [call EXCEPT ![c].found = @ \ {p}]
<1>3. rest = [call EXCEPT ![c] = s]
  OBVIOUS
<1>4. p \in Pid
  BY <1>2, CallFacts
<1>5. /\ s \in Call /\ s.at = "moving" /\ s.op = r.op /\ s.stay = r.stay
      /\ s.found = r.found \ {p}
  BY <1>1, CallFacts DEF Call
<1> HIDE DEF s
<1>6. Place(s)
  BY <1>5 DEF Place
<1>7. ASSUME NEW q \in s.stay, q # p PROVE Followed(s, q)
  BY <1>1, <1>5, <1>7, CallFacts DEF Followed
<1>8. CASE p \notin Alive /\ call' = rest /\ UNCHANGED kernel
  <2>1. p \in s.stay => Followed(s, p)
    BY <1>1, <1>4, <1>5, <1>8, CallFacts DEF Followed, Alive
  <2>2. Set(c, s) /\ UNCHANGED <<home, proc>>
    BY <1>3, <1>8 DEF Set, kernel
  <2>3. CallOK(s)
    BY <1>5, <1>6, <1>7, <2>1 DEF CallOK
  <2> QED
    BY <1>8, <2>2, <2>3, SameTree, OwnStep DEF IInv
<1>9. CASE /\ p \in Alive /\ CanHost(r.dst)
           /\ home' = [home EXCEPT ![p] = r.dst] /\ call' = Moved(p, rest)
           /\ UNCHANGED <<tree, proc>>
  <2>1. r.dst \in exists
    BY <1>9 DEF CanHost
  <2>2. call' = Moved(p, [call EXCEPT ![c] = s])
    BY <1>3, <1>9
  <2> QED
    BY <1>4, <1>5, <1>6, <1>7, <1>9, <2>1, <2>2, MovedInv
<1>10. CASE Fails(c)
  BY <1>10, FailsInv
<1> QED
  BY <1>2, <1>8, <1>9, <1>10

LEMMA MovedAllInv == ASSUME IInv, NEW c \in Caller, MovedAll(c) PROVE IInv'
<1>1. /\ call[c].at = "moving" /\ call[c].found = {} /\ Return(c, "ok", call[c])
      /\ UNCHANGED kernel /\ UNCHANGED <<home, proc>>
  BY DEF MovedAll, kernel
<1>2. \A p \in call[c].stay : proc[p] # "run"
  BY <1>1, CallFacts DEF Followed
<1> QED
  BY <1>1, <1>2, SameTree, ReturnInv DEF IInv

(* Processes that are born are followed by nobody, and those that die need *)
(* not be found.                                                           *)
LEMMA LifeInv ==
    ASSUME IInv, TreeOK', UNCHANGED call,
           \A p \in Pid : proc[p] # "none" =>
               proc'[p] \in {proc[p], "dead"} /\ home'[p] = home[p]
    PROVE  IInv'
<1>1. ASSUME NEW c \in Caller, NEW p \in call[c].stay PROVE Followed(call[c], p)'
  <2>1. p \in Pid /\ Followed(call[c], p) /\ proc[p] # "none"
    BY <1>1, CallFacts
  <2>2. proc'[p] \in {proc[p], "dead"} /\ home'[p] = home[p]
    BY <2>1
  <2> QED
    BY <2>1, <2>2 DEF Followed, Awaited
<1> QED
  BY <1>1, CallFacts DEF IInv, CallOK, Place

LEMMA ForkInv == ASSUME IInv, Fork PROVE IInv'
<1>1. PICK p \in Alive, q \in Pid :
          /\ proc[q] = "none"
          /\ proc' = [proc EXCEPT ![q] = "run"] /\ home' = [home EXCEPT ![q] = home[p]]
  BY DEF Fork
<1>2. TreeOK /\ TreeOK' /\ UNCHANGED call
  BY ForkTree DEF IInv, Fork
<1>3. \A r \in Pid : proc[r] # "none" => proc'[r] = proc[r] /\ home'[r] = home[r]
  BY <1>1, <1>2 DEF TreeOK
<1> QED
  BY <1>2, <1>3, LifeInv

LEMMA ExitInv == ASSUME IInv, Exit PROVE IInv'
<1>1. PICK p \in Alive : proc' = [proc EXCEPT ![p] = "dead"]
  BY DEF Exit
<1>2. TreeOK /\ TreeOK' /\ UNCHANGED call /\ UNCHANGED home
  BY ExitTree DEF IInv, Exit
<1>3. \A r \in Pid : proc'[r] \in {proc[r], "dead"}
  BY <1>1, <1>2 DEF TreeOK
<1> QED
  BY <1>2, <1>3, LifeInv

LEMMA StepInv == ASSUME IInv, NEW c \in Caller, Step(c) PROVE IInv'
  BY MkdirInv, ToggleInv, SetResourcesInv, CleanupInv, SetTypeInv, AddProcInv, ReadTypeInv,
     ListDirInv, ReadTasksInv, WalkFailsInv, WalkedInv, RemoveInv, MoveOneInv, MovedAllInv
     DEF Step

LEMMA InitInv == Init => IInv
<1> SUFFICES ASSUME Init PROVE IInv
  OBVIOUS
<1>1. Root \in Dir
  BY DEF Init
<1>2. TreeOK
  BY <1>1, RootTop DEF Init, TreeOK, Alive
<1>3. Idle \in Call
  <2> DEFINE j == [op |-> "child", dir |-> Root, ctrl |-> {},
                   pid |-> CHOOSE p \in Pid : TRUE, dst |-> Root]
  <2>1. j.op \in Op /\ j.dir \in Dir /\ j.ctrl \subseteq Controller /\ j.dst \in Dir
    BY <1>1 DEF Op
  <2>2. j.pid \in Pid
    BY TreeAssumption
  <2>3. Idle = Fresh(j)
    BY DEF Idle
  <2> HIDE DEF j
  <2> QED
    BY <2>1, <2>2, <2>3, FreshTyped
<1>4. Idle.at = "idle" /\ Idle.stay = {}
  BY DEF Idle, Fresh
<1>5. CallOK(Idle)
  BY <1>3, <1>4 DEF CallOK, Place
<1> QED
  BY <1>2, <1>3, <1>5 DEF Init, IInv

LEMMA NextInv == IInv /\ [Next]_vars => IInv'
<1> SUFFICES ASSUME IInv, [Next]_vars PROVE IInv'
  OBVIOUS
<1>1. CASE UNCHANGED vars
  <2>1. UNCHANGED kernel /\ UNCHANGED call /\ UNCHANGED <<home, proc>>
    BY <1>1 DEF vars, kernel
  <2> QED
    BY <2>1, SameTree, LifeInv DEF IInv
<1>2. CASE Next
  BY <1>2, ForkInv, ExitInv, BeginInv, StepInv DEF Next
<1> QED
  BY <1>1, <1>2

LEMMA Invariant == Spec => []IInv
  BY InitInv, NextInv, PTL DEF Spec

-----------------------------------------------------------------------------
(* The hierarchy and the calls stay well formed: what is enabled is        *)
(* enabled above, a directory that exists has all above it, no living      *)
(* process loses its directory.                                            *)
THEOREM TypeCorrect == Spec => []TypeOK
<1>1. IInv => TypeOK
  BY DEF IInv, TreeOK, TypeOK
<1> QED
  BY <1>1, Invariant, PTL

(* Delete removes nothing from under a process that was in the cgroup when *)
(* it began and stayed where it was.                                       *)
THEOREM DeleteSparesProcesses == Spec => []DeleteSpares
<1>1. IInv => DeleteSpares
  BY CallFacts DEF DeleteSpares, Followed, Alive
<1> QED
  BY <1>1, Invariant, PTL

(* MoveTo without an error has taken along whoever was there and stayed.   *)
THEOREM MoveTakesAllProcesses == Spec => []MoveTakesAll
<1>1. IInv => MoveTakesAll
  BY CallFacts DEF MoveTakesAll, Followed, Alive
<1> QED
  BY <1>1, Invariant, PTL

(* The last write that ToggleControllers has accepted speaks for all those *)
(* above it: what the parent enables, everything above the parent enables. *)
LEMMA LastWrite ==
    ASSUME IInv, IInv', NEW c \in Caller, Toggle(c),
           call[c].op # "disable", call'[c].at \in {"set", "ok"},
           NEW a \in Above(call[c].dir)
    PROVE  call[c].ctrl \subseteq control'[a]
<1> DEFINE r == call[c]
           d == Path[r.dir][r.i]
<1>1. /\ r.at = "toggle" /\ r.dir \in Dir /\ r \in Call
      /\ r.i < Len(Path[r.dir]) \/ Len(Path[r.dir]) = 1
  BY CallFacts DEF Toggle, Place
<1>2. r.dir # Root /\ Len(Path[r.dir]) # 1 /\ Len(Path[r.dir]) \in Nat
  <2>1. r.dir # Root
    BY <1>1, RootTop
  <2>2. Len(Path[r.dir]) # 1
    BY <1>1, <2>1, RootTop
  <2> QED
    BY <1>1, <2>1, <2>2, TreeAssumption
<1>3. r.i # Len(Path[r.dir])
  BY <1>1, <1>2
<1>4. PICK ok \in Outcomes(r, d) :
            /\ WriteControl(r, d, ok)
            /\ Set(c, IF r.i + 1 = Len(Path[r.dir]) THEN AfterToggle(r, ~ok)
                      ELSE [r EXCEPT !.i = @ + 1, !.err = ~ok])
  BY <1>3 DEF Toggle
<1>5. call'[c] = IF r.i + 1 = Len(Path[r.dir]) THEN AfterToggle(r, ~ok)
                 ELSE [r EXCEPT !.i = @ + 1, !.err = ~ok]
  BY <1>4 DEF Set, IInv
<1>6. r.i + 1 = Len(Path[r.dir]) /\ ok
  <2>1. ok \in BOOLEAN
    BY DEF Outcomes, Accepted
  <2>2. CASE r.i + 1 # Len(Path[r.dir])
    BY <1>1, <1>5, <2>2 DEF Call
  <2>3. CASE ~ok /\ r.i + 1 = Len(Path[r.dir])
    <3>1. AfterToggle(r, TRUE).at \in {"cleanup", "err"}
      BY <1>1 DEF AfterToggle, Call
    <3> QED
      BY <1>5, <2>3, <3>1
  <2> QED
    BY <2>1, <2>2, <2>3
<1>7. d = Parent(r.dir) /\ d \in Dir
  <2>1. r.i = Len(Path[r.dir]) - 1
    BY <1>2, <1>6, CallFacts
  <2> QED
    BY <1>1, <1>2, <2>1, ParentAbove DEF Parent
<1>8. r.ctrl \subseteq control'[d]
  BY <1>4, <1>6, <1>7, CallFacts DEF WriteControl, TreeOK
<1>9. control'[d] \subseteq control'[a]
  <2>1. a = d \/ a \in Above(d)
    BY <1>1, <1>2, <1>7, ParentAbove
  <2> QED
    BY <1>7, <2>1 DEF IInv, TreeOK
<1> QED
  BY <1>8, <1>9

(* Nobody else takes a call on.                                            *)
LEMMA OthersWait ==
    ASSUME IInv, NEW b \in Caller, NEW c \in Caller, c # b, Begin(b) \/ Step(b)
    PROVE  call'[c].at = call[c].at
<1> USE CallFacts
<1>1. CASE Begin(b) \/ Mkdir(b) \/ Toggle(b) \/ SetResources(b) \/ Cleanup(b)
  BY <1>1 DEF Begin, Mkdir, Toggle, SetResources, Cleanup, Return, Fails, Set, IInv
<1>2. CASE SetType(b) \/ ReadType(b) \/ ListDir(b) \/ ReadTasks(b) \/ WalkFails(b)
  BY <1>2 DEF SetType, ReadType, ListDir, ReadTasks, WalkFails, Return, Fails, Set, IInv
<1>3. CASE Walked(b) \/ Remove(b) \/ MovedAll(b)
  BY <1>3 DEF Walked, Remove, MovedAll, Return, Fails, Set, IInv
<1>4. ASSUME NEW p, NEW calls \in [Caller -> Call], calls[c] = call[c], call' = Moved(p, calls)
      PROVE  call'[c].at = call[c].at
  <2>1. call'[c] = [call[c] EXCEPT !.stay = @ \ {p}]
    BY <1>4 DEF Moved
  <2> QED
    BY <2>1 DEF Call
<1>5. CASE AddProc(b)
  <2> DEFINE calls == [call EXCEPT ![b].at = "ok"]
  <2>1. calls \in [Caller -> Call] /\ calls[c] = call[c]
    BY DEF Call, IInv
  <2>2. call' = Moved(call[b].pid, calls) \/ Fails(b)
    BY <1>5 DEF AddProc
  <2> HIDE DEF calls
  <2>3. CASE Fails(b)
    BY <2>3 DEF Return, Fails, Set, IInv
  <2> QED
    BY <1>4, <2>1, <2>2, <2>3
<1>6. CASE MoveOne(b)
  <2>1. PICK p \in call[b].found :
          LET rest == [call EXCEPT ![b].found = @ \ {p}]
          IN  call' = rest \/ call' = Moved(p, rest) \/ Fails(b)
    BY <1>6 DEF MoveOne
  <2> DEFINE rest == [call EXCEPT ![b].found = @ \ {p}]
  <2>2. rest \in [Caller -> Call] /\ rest[c] = call[c]
    BY DEF Call, IInv
  <2>3. call' = rest \/ call' = Moved(p, rest) \/ Fails(b)
    BY <2>1
  <2> HIDE DEF rest
  <2>4. CASE Fails(b)
    BY <2>4 DEF Return, Fails, Set, IInv
  <2> QED
    BY <1>4, <2>2, <2>3, <2>4
<1> QED
  BY <1>1, <1>2, <1>3, <1>5, <1>6 DEF Step

(* Enabling succeeds all the way up: a step with which a call leaves       *)
(* ToggleControllers without an error has the controllers on in every      *)
(* cgroup above, however many of the earlier writes have failed.           *)
THEOREM EnablingReachesDown == Spec => EnabledAllTheWay
<1>1. ASSUME IInv, IInv', [Next]_vars, NEW c \in Caller,
             call[c].at = "toggle", call[c].op # "disable", call'[c].at \in {"set", "ok"}
      PROVE  \A a \in Above(call[c].dir) : call[c].ctrl \subseteq control'[a]
  <2>1. call'[c].at # call[c].at
    BY <1>1
  <2>2. ~UNCHANGED call
    BY <2>1
  <2>3. PICK b \in Caller : Begin(b) \/ Step(b)
    BY <1>1, <2>2 DEF Next, vars, Fork, Exit
  <2>4. b = c
    BY <1>1, <2>1, <2>3, OthersWait
  <2>5. Toggle(c)
    BY <1>1, <2>3, <2>4
       DEF Begin, Resting, Step, Mkdir, SetResources, Cleanup, SetType, AddProc, ReadType,
           ListDir, ReadTasks, WalkFails, Walked, Remove, MoveOne, MovedAll
  <2> QED
    BY <1>1, <2>5, LastWrite
<1>2. IInv /\ IInv' /\ [Next]_vars
      => [ \A c \in Caller :
             (/\ call[c].at = "toggle" /\ call[c].op # "disable"
              /\ call'[c].at \in {"set", "ok"})
             => \A a \in Above(call[c].dir) : call[c].ctrl \subseteq control'[a] ]_vars
  BY <1>1
<1> QED
  BY <1>2, Invariant, PTL DEF Spec, EnabledAllTheWay
=============================================================================
