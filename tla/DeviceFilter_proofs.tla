------------------------ MODULE DeviceFilter_proofs ------------------------
(***************************************************************************)
(* The compiler of DeviceFilter answers what the rules say, for any set of *)
(* rules, lists of any length and any requests.                            *)
(*                                                                         *)
(* What a program answers is a recursive function, and no induction over   *)
(* it is needed: the compiler adds blocks at the end, so that the steps of *)
(* the compiler are the induction.  Its invariant says of every function   *)
(* that runs the program so far, with whatever value for "the next block", *)
(* what it yields (Decides), and that there is such a function (Runs).     *)
(***************************************************************************)
EXTENDS DeviceFilter, SequenceTheorems, TLAPS

Arg  == {"a", "b", "c"} \cup (SUBSET Access) \cup Int \cup BOOLEAN
Inst == [op : {"type", "access", "major", "minor", "ret"}, arg : Arg, to : Int, label : Int]

(* f runs the program P on the request q, with x for the block labelled b, *)
(* which is still to come.                                                 *)
Val(P, q, f, x, b) ==
    \A n \in 1 .. Len(P) :
        /\ P[n].op = "ret" => f[n] = P[n].arg
        /\ P[n].op # "ret" /\ Passes(P[n], q) => f[n] = f[n + 1]
        /\ P[n].op # "ret" /\ ~Passes(P[n], q) =>
              /\ P[n].to = b => f[n] = x
              /\ \A m \in 1 .. Len(P) : P[m].label = P[n].to => f[n] = f[m]

Labels(P, b) ==
    /\ \A n \in 1 .. Len(P) : P[n].label < b
    /\ \A m, n \in 1 .. Len(P) : P[n].label >= 0 /\ P[m].label = P[n].label => m = n

Jumps(P, b) ==
    \A n \in 1 .. Len(P) : P[n].op # "ret" =>
        /\ n < Len(P) /\ P[n].to \in 1 .. b
        /\ P[n].to = b \/ \E m \in n + 1 .. Len(P) : P[m].label = P[n].to

(* What the rules after the k-th say.                                      *)
Decided(list, k, q) == \E n \in k + 1 .. Len(list) : Applies(list[n], q)

Allowed(list, k, q) ==
    \E n \in k + 1 .. Len(list) :
        /\ Applies(list[n], q) /\ list[n].allow
        /\ \A m \in n + 1 .. Len(list) : ~Applies(list[m], q)

Decides(P, b, list, k, q) ==
    \A f, x : Val(P, q, f, x, b) /\ Len(P) > 0 =>
        /\ Decided(list, k, q) => f[1] = Allowed(list, k, q)
        /\ ~Decided(list, k, q) => f[1] = x

Runs(P, b, q) == \A x : \E f : Val(P, q, f, x, b)

Compiled ==
    /\ insts \in Seq(Inst) /\ blockID >= 0 /\ blockID + i <= Len(devices)
    /\ Len(insts) = 0 => i = Len(devices) /\ ~hasWildCard
    /\ Labels(insts, blockID) /\ Jumps(insts, blockID)
    /\ \A q \in Request :
          /\ Decides(insts, blockID, devices, i, q) /\ Runs(insts, blockID, q)
          /\ hasWildCard => Decided(devices, i, q)
    /\ hasWildCard =>
          \A n \in 1 .. Len(insts) : insts[n].op # "ret" => insts[n].to < blockID

IInv == TypeOK /\ (at = "append" => Compiled) /\ FilterConforms

LEMMA ListFacts ==
  ASSUME NEW list \in Lists
  PROVE  /\ list \in Seq(Rule) /\ Len(list) \in 0 .. MaxRules
         /\ \A n \in 1 .. Len(list) : list[n] \in Rule
<1>1. PICK n \in 0 .. MaxRules : list \in [1 .. n -> Rule]
  BY DEF Lists
<1>2. n \in Nat
  BY FilterAssumption
<1>3. list \in Seq(Rule) /\ Len(list) = n
  BY <1>1, <1>2
<1> QED
  BY <1>1, <1>3

-----------------------------------------------------------------------------
(* A block: tests that jump to the next block, the first of them labelled, *)
(* and an answer.                                                          *)
IsBlock(B, b) ==
    /\ B \in Seq(Inst) /\ Len(B) \in Nat /\ 1 <= Len(B) /\ Len(B) <= 5
    /\ B[1].label = b /\ \A n \in 2 .. Len(B) : B[n].label = -1
    /\ B[Len(B)].op = "ret"
    /\ \A n \in 1 .. Len(B) - 1 : B[n].op # "ret" /\ B[n].to = b + 1

(* A block answers when its tests pass.                                    *)
Answers(B, q) == \A n \in 1 .. Len(B) - 1 : Passes(B[n], q)

AllPass(s, q) == \A n \in 1 .. Len(s) : Passes(s[n], q)

Tests(s, b, k) ==
    /\ s \in Seq(Inst) /\ Len(s) <= k
    /\ \A n \in 1 .. Len(s) : s[n].op # "ret" /\ s[n].to = b /\ s[n].label = -1

LEMMA OneTest ==
  ASSUME NEW c \in BOOLEAN, NEW op \in {"type", "access", "major", "minor"}, NEW arg,
         c => arg \in Arg, NEW b \in Int
  PROVE  /\ Tests(Test(c, op, arg, b), b, 1)
         /\ \A q : AllPass(Test(c, op, arg, b), q) <=>
                 (c => Passes([op |-> op, arg |-> arg, to |-> b, label |-> -1], q))
<1> DEFINE r == [op |-> op, arg |-> arg, to |-> b, label |-> -1]
<1>1. CASE c
  <2>1. Test(c, op, arg, b) = <<r>> /\ r \in Inst
    BY <1>1 DEF Test, Inst
  <2>2. r.op = op /\ r.to = b /\ r.label = -1
    OBVIOUS
  <2> HIDE DEF r
  <2>3. <<r>> \in Seq(Inst) /\ Len(<<r>>) = 1 /\ <<r>>[1] = r
    BY <2>1
  <2>4. \A q : AllPass(<<r>>, q) <=> Passes(r, q)
    BY <2>3 DEF AllPass
  <2>5. Tests(<<r>>, b, 1)
    BY <2>2, <2>3 DEF Tests
  <2> QED
    BY <1>1, <2>1, <2>4, <2>5 DEF r
<1>2. CASE ~c
  <2>1. Test(c, op, arg, b) = << >>
    BY <1>2 DEF Test
  <2> QED
    BY <1>2, <2>1 DEF Tests, AllPass
<1> QED
  BY <1>1, <1>2

LEMMA MoreTests ==
  ASSUME NEW s, NEW u, NEW b \in Int, NEW k \in Nat, NEW l \in Nat,
         Tests(s, b, k), Tests(u, b, l)
  PROVE  /\ Tests(s \o u, b, k + l)
         /\ \A q : AllPass(s \o u, q) <=> AllPass(s, q) /\ AllPass(u, q)
<1>1. /\ s \in Seq(Inst) /\ u \in Seq(Inst) /\ Len(s) \in Nat /\ Len(u) \in Nat
      /\ s \o u \in Seq(Inst) /\ Len(s \o u) = Len(s) + Len(u)
      /\ \A n \in 1 .. Len(s) : (s \o u)[n] = s[n]
      /\ \A n \in Len(s) + 1 .. Len(s) + Len(u) : (s \o u)[n] = u[n - Len(s)]
  BY DEF Tests
<1>2. \A n \in 1 .. Len(s) + Len(u) :
         n \in 1 .. Len(s) \/ (n \in Len(s) + 1 .. Len(s) + Len(u) /\ n - Len(s) \in 1 .. Len(u))
  BY <1>1
<1>3. \A n \in 1 .. Len(u) : /\ n + Len(s) \in Len(s) + 1 .. Len(s) + Len(u)
                             /\ (s \o u)[n + Len(s)] = u[n]
  <2>1. ASSUME NEW n \in 1 .. Len(u)
        PROVE  n + Len(s) \in Len(s) + 1 .. Len(s) + Len(u) /\ (n + Len(s)) - Len(s) = n
    BY <1>1
  <2> QED
    BY <1>1, <2>1
<1> DEFINE w == s \o u
<1> HIDE DEF w
<1>4. /\ w \in Seq(Inst) /\ Len(w) = Len(s) + Len(u)
      /\ \A n \in 1 .. Len(s) : w[n] = s[n]
      /\ \A n \in Len(s) + 1 .. Len(s) + Len(u) : w[n] = u[n - Len(s)]
      /\ \A n \in 1 .. Len(u) : /\ n + Len(s) \in Len(s) + 1 .. Len(s) + Len(u)
                                /\ w[n + Len(s)] = u[n]
  BY <1>1, <1>3 DEF w
<1>5. Tests(w, b, k + l)
  <2>1. ASSUME NEW n \in 1 .. Len(w)
        PROVE  w[n].op # "ret" /\ w[n].to = b /\ w[n].label = -1
    <3>1. CASE n \in 1 .. Len(s)
      BY <1>4, <3>1 DEF Tests
    <3>2. CASE n \in Len(s) + 1 .. Len(s) + Len(u)
      <4>1. n - Len(s) \in 1 .. Len(u) /\ w[n] = u[n - Len(s)]
        BY <1>1, <1>4, <3>2
      <4> QED
        BY <4>1 DEF Tests
    <3> QED
      BY <1>2, <1>4, <2>1, <3>1, <3>2
  <2>2. Len(w) <= k + l
    BY <1>1, <1>4 DEF Tests
  <2> QED
    BY <1>4, <2>1, <2>2 DEF Tests
<1>6. ASSUME NEW q PROVE AllPass(w, q) <=> AllPass(s, q) /\ AllPass(u, q)
  <2>1. ASSUME AllPass(w, q) PROVE AllPass(s, q) /\ AllPass(u, q)
    <3>1. \A n \in 1 .. Len(s) + Len(u) : Passes(w[n], q)
      BY <1>4, <2>1 DEF AllPass
    <3>2. \A n \in 1 .. Len(s) : n \in 1 .. Len(s) + Len(u)
      BY <1>1
    <3>3. \A n \in 1 .. Len(u) : n + Len(s) \in 1 .. Len(s) + Len(u)
      BY <1>1
    <3> QED
      BY <1>4, <3>1, <3>2, <3>3 DEF AllPass
  <2>2. ASSUME AllPass(s, q), AllPass(u, q) PROVE AllPass(w, q)
    BY <1>2, <1>4, <2>2 DEF AllPass
  <2> QED
    BY <2>1, <2>2
<1> QED
  BY <1>5, <1>6 DEF w

(* The tests of a rule pass on the requests it applies to.                 *)
LEMMA BlockOfRule ==
  ASSUME NEW d \in Rule, d.type # "?", NEW b \in Nat
  PROVE  /\ IsBlock(Block(d, b), b)
         /\ Block(d, b)[Len(Block(d, b))].arg = d.allow
         /\ \A q \in Request : Answers(Block(d, b), q) <=> Applies(d, q)
         /\ Wild(d) => Len(Block(d, b)) = 1
<1> DEFINE t1 == Test(d.type # "a", "type", d.type, b + 1)
           t2 == Test(d.access # Access, "access", d.access, b + 1)
           t3 == Test(d.major >= 0, "major", d.major, b + 1)
           t4 == Test(d.minor >= 0, "minor", d.minor, b + 1)
           s  == t1 \o t2 \o t3 \o t4
           r  == [op |-> "ret", arg |-> d.allow, to |-> 0, label |-> -1]
           w  == s \o <<r>>
<1>1. /\ d.type \in {"a", "b", "c"} /\ d.major \in Int /\ d.minor \in Int
      /\ d.access \in SUBSET Access /\ d.allow \in BOOLEAN
  BY FilterAssumption
<1>2. /\ d.type \in Arg /\ d.access \in Arg /\ d.major \in Arg /\ d.minor \in Arg
      /\ d.allow \in Arg /\ b + 1 \in Int
  BY <1>1 DEF Arg
<1>3. /\ Tests(t1, b + 1, 1) /\ Tests(t2, b + 1, 1) /\ Tests(t3, b + 1, 1)
      /\ Tests(t4, b + 1, 1)
  <2> DEFINE a == d.type # "a"
             e == d.access # Access
             j == d.major >= 0
             n == d.minor >= 0
  <2>1. a \in BOOLEAN /\ e \in BOOLEAN /\ j \in BOOLEAN /\ n \in BOOLEAN
    OBVIOUS
  <2> HIDE DEF a, e, j, n
  <2>2. Tests(Test(a, "type", d.type, b + 1), b + 1, 1)
    BY <1>2, <2>1, OneTest
  <2>3. Tests(Test(e, "access", d.access, b + 1), b + 1, 1)
    BY <1>2, <2>1, OneTest
  <2>4. Tests(Test(j, "major", d.major, b + 1), b + 1, 1)
    BY <1>2, <2>1, OneTest
  <2>5. Tests(Test(n, "minor", d.minor, b + 1), b + 1, 1)
    BY <1>2, <2>1, OneTest
  <2> QED
    BY <2>2, <2>3, <2>4, <2>5 DEF a, e, j, n
<1>4. ASSUME NEW q \in Request
      PROVE  /\ AllPass(t1, q) <=> (d.type # "a" => q.type = d.type)
             /\ AllPass(t2, q) <=> (d.access # Access => q.access \cap d.access # {})
             /\ AllPass(t3, q) <=> (d.major >= 0 => q.major = d.major)
             /\ AllPass(t4, q) <=> (d.minor >= 0 => q.minor = d.minor)
  <2>1. \A arg : /\ Passes([op |-> "type", arg |-> arg, to |-> b + 1, label |-> -1], q)
                        <=> q.type = arg
                 /\ Passes([op |-> "access", arg |-> arg, to |-> b + 1, label |-> -1], q)
                        <=> q.access \cap arg # {}
                 /\ Passes([op |-> "major", arg |-> arg, to |-> b + 1, label |-> -1], q)
                        <=> q.major = arg
                 /\ Passes([op |-> "minor", arg |-> arg, to |-> b + 1, label |-> -1], q)
                        <=> q.minor = arg
    BY DEF Passes
  <2>2. AllPass(t1, q) <=> (d.type # "a" => q.type = d.type)
    BY <1>1, <1>2, <2>1, OneTest
  <2>3. AllPass(t2, q) <=> (d.access # Access => q.access \cap d.access # {})
    BY <1>1, <1>2, <2>1, OneTest
  <2> DEFINE j == d.major >= 0
             n == d.minor >= 0
  <2>4. j \in BOOLEAN /\ n \in BOOLEAN
    OBVIOUS
  <2> HIDE DEF j, n
  <2>5. AllPass(Test(j, "major", d.major, b + 1), q) <=> (j => q.major = d.major)
    BY <1>2, <2>1, <2>4, OneTest
  <2>6. AllPass(Test(n, "minor", d.minor, b + 1), q) <=> (n => q.minor = d.minor)
    BY <1>2, <2>1, <2>4, OneTest
  <2> QED
    BY <2>2, <2>3, <2>5, <2>6 DEF j, n
<1>5. Wild(d) => t1 = << >> /\ t2 = << >> /\ t3 = << >> /\ t4 = << >>
  BY <1>1 DEF Wild, Test
<1>6. Block(d, b) = [w EXCEPT ![1].label = b]
  BY DEF Block, Return
<1> HIDE DEF t1, t2, t3, t4
<1>7. /\ Tests(s, b + 1, 4) /\ \A q : AllPass(s, q) <=>
             AllPass(t1, q) /\ AllPass(t2, q) /\ AllPass(t3, q) /\ AllPass(t4, q)
  <2>1. /\ Tests(t1 \o t2, b + 1, 2)
        /\ \A q : AllPass(t1 \o t2, q) <=> AllPass(t1, q) /\ AllPass(t2, q)
    BY <1>2, <1>3, MoreTests
  <2>2. /\ Tests(t1 \o t2 \o t3, b + 1, 3)
        /\ \A q : AllPass(t1 \o t2 \o t3, q) <=> AllPass(t1 \o t2, q) /\ AllPass(t3, q)
    BY <1>2, <1>3, <2>1, MoreTests
  <2>3. /\ Tests(s, b + 1, 4)
        /\ \A q : AllPass(s, q) <=> AllPass(t1 \o t2 \o t3, q) /\ AllPass(t4, q)
    BY <1>2, <1>3, <2>2, MoreTests
  <2> QED
    BY <2>1, <2>2, <2>3
<1>8. \A q \in Request : AllPass(s, q) <=> Applies(d, q)
  BY <1>1, <1>4, <1>7, FilterAssumption DEF Applies
<1>9. Wild(d) => Len(s) = 0
  BY <1>5
<1> HIDE DEF s
<1>10. /\ s \in Seq(Inst) /\ Len(s) \in Nat /\ Len(s) <= 4 /\ r \in Inst
       /\ r.op = "ret" /\ r.arg = d.allow /\ r.label = -1
  <2>0. s \in Seq(Inst) /\ Len(s) <= 4
    BY <1>7 DEF Tests
  <2>1. Len(s) \in Nat
    BY <2>0, LenProperties
  <2>2. r \in Inst
    BY <1>2 DEF Inst
  <2> QED
    BY <2>0, <2>1, <2>2
<1> HIDE DEF r
<1>11. /\ w \in Seq(Inst) /\ Len(w) = Len(s) + 1 /\ w[Len(s) + 1] = r
       /\ \A n \in 1 .. Len(s) : w[n] = s[n]
  BY <1>10
<1> HIDE DEF w
<1> DEFINE B == [w EXCEPT ![1].label = b]
<1>12. /\ B \in Seq(Inst) /\ Len(B) = Len(w) /\ B[1].label = b
       /\ \A n \in 2 .. Len(w) : B[n] = w[n]
       /\ B[1].op = w[1].op /\ B[1].arg = w[1].arg /\ B[1].to = w[1].to
  <2>1. 1 \in 1 .. Len(w) /\ w[1] \in Inst
    BY <1>10, <1>11
  <2>2. [w[1] EXCEPT !.label = b] \in Inst
    BY <2>1 DEF Inst
  <2>3. B = [w EXCEPT ![1] = [w[1] EXCEPT !.label = b]]
    OBVIOUS
  <2>4. B \in Seq(Inst) /\ Len(B) = Len(w)
    BY <1>11, <2>1, <2>2, <2>3, ExceptSeq
  <2> QED
    BY <1>11, <2>1, <2>3, <2>4 DEF Inst
<1> HIDE DEF B
<1>13. ASSUME NEW n \in 1 .. Len(s)
       PROVE  B[n].op = s[n].op /\ B[n].arg = s[n].arg /\ B[n].to = s[n].to
  BY <1>10, <1>11, <1>12
<1>14. B[Len(B)].op = "ret" /\ B[Len(B)].arg = d.allow
  BY <1>10, <1>11, <1>12
<1>15. IsBlock(B, b)
  <2>1. \A n \in 1 .. Len(s) : B[n].op # "ret" /\ B[n].to = b + 1
    BY <1>7, <1>13 DEF Tests
  <2>2. \A n \in 2 .. Len(B) : B[n].label = -1
    <3>1. ASSUME NEW n \in 2 .. Len(B) PROVE w[n].label = -1
      <4>1. n \in 1 .. Len(s) \/ n = Len(s) + 1
        BY <1>10, <1>11, <1>12
      <4> QED
        BY <1>7, <1>10, <1>11, <4>1 DEF Tests
    <3> QED
      BY <1>12, <3>1
  <2>3. Len(B) = Len(s) + 1
    BY <1>11, <1>12
  <2>4. Len(B) \in Nat /\ 1 <= Len(B) /\ Len(B) <= 5 /\ Len(B) - 1 = Len(s)
    BY <1>10, <2>3
  <2> QED
    BY <1>12, <1>14, <2>1, <2>2, <2>4 DEF IsBlock
<1>16. ASSUME NEW q \in Request PROVE Answers(B, q) <=> Applies(d, q)
  <2>1. \A n \in 1 .. Len(s) : Passes(B[n], q) <=> Passes(s[n], q)
    BY <1>13 DEF Passes
  <2>2. Len(B) - 1 = Len(s)
    BY <1>10, <1>11, <1>12
  <2> QED
    BY <1>8, <2>1, <2>2 DEF AllPass, Answers
<1>17. Wild(d) => Len(B) = 1
  BY <1>9, <1>11, <1>12
<1> QED
  BY <1>6, <1>14, <1>15, <1>16, <1>17 DEF B

-----------------------------------------------------------------------------
(* A program and the block added to it.                                    *)
Extends(Q, P, B, b) ==
    /\ P \in Seq(Inst) /\ Len(P) \in Nat /\ IsBlock(B, b) /\ b \in Nat
    /\ Labels(P, b) /\ Jumps(P, b)
    /\ Q \in Seq(Inst) /\ Len(Q) = Len(P) + Len(B)
    /\ \A n \in 1 .. Len(P) : Q[n] = P[n]
    /\ \A n \in 1 .. Len(B) : Q[Len(P) + n] = B[n]
    /\ \A n \in 1 .. Len(Q) : n \in 1 .. Len(P) \/ \E m \in 1 .. Len(B) : n = Len(P) + m

LEMMA AddBlock ==
  ASSUME NEW P \in Seq(Inst), NEW B, NEW b \in Nat, IsBlock(B, b), Labels(P, b), Jumps(P, b)
  PROVE  Extends(P \o B, P, B, b)
<1>1. /\ B \in Seq(Inst) /\ Len(P) \in Nat /\ Len(B) \in Nat
      /\ P \o B \in Seq(Inst) /\ Len(P \o B) = Len(P) + Len(B)
      /\ \A n \in 1 .. Len(P) + Len(B) :
            (P \o B)[n] = IF n <= Len(P) THEN P[n] ELSE B[n - Len(P)]
  BY ConcatProperties, LenProperties DEF IsBlock
<1>2. \A n \in 1 .. Len(P) : n \in 1 .. Len(P) + Len(B) /\ n <= Len(P)
  BY <1>1
<1>3. \A n \in 1 .. Len(B) : /\ Len(P) + n \in 1 .. Len(P) + Len(B)
                             /\ ~(Len(P) + n <= Len(P)) /\ (Len(P) + n) - Len(P) = n
  BY <1>1
<1>4. ASSUME NEW n \in 1 .. Len(P) + Len(B), n \notin 1 .. Len(P)
      PROVE  \E m \in 1 .. Len(B) : n = Len(P) + m
  <2>1. n - Len(P) \in 1 .. Len(B) /\ n = Len(P) + (n - Len(P))
    BY <1>1, <1>4
  <2> QED
    BY <2>1
<1> QED
  BY <1>1, <1>2, <1>3, <1>4 DEF Extends

LEMMA ExtendShape ==
  ASSUME NEW Q, NEW P, NEW B, NEW b, Extends(Q, P, B, b)
  PROVE  Labels(Q, b + 1) /\ Jumps(Q, b + 1)
<1>1. /\ P \in Seq(Inst) /\ B \in Seq(Inst) /\ b \in Nat /\ Len(P) \in Nat
      /\ Len(B) \in Nat /\ 1 <= Len(B) /\ Len(Q) = Len(P) + Len(B)
      /\ 1 \in 1 .. Len(B) /\ Len(P) + 1 \in 1 .. Len(Q)
  BY DEF Extends, IsBlock
<1>2. \A n \in 1 .. Len(P) : /\ P[n].label \in Int /\ P[n].label < b
                             /\ P[n].label # b /\ Q[n] = P[n] /\ n \in 1 .. Len(Q)
  <2>1. ASSUME NEW n \in 1 .. Len(P)
        PROVE  P[n].label \in Int /\ P[n].label < b /\ Q[n] = P[n]
    <3>1. P[n] \in Inst
      BY <1>1
    <3> QED
      BY <3>1 DEF Extends, Labels, Inst
  <2> QED
    BY <1>1, <2>1
<1>3. \A n \in 1 .. Len(B) : /\ B[n].label = IF n = 1 THEN b ELSE -1
                             /\ Q[Len(P) + n] = B[n] /\ Len(P) + n \in 1 .. Len(Q)
  BY <1>1 DEF Extends, IsBlock
<1>4. \A n \in 1 .. Len(Q) : n \in 1 .. Len(P) \/ \E m \in 1 .. Len(B) : n = Len(P) + m
  BY DEF Extends
<1>5. \A n \in 1 .. Len(Q) : Q[n].label < b + 1
  <2>1. \A n \in 1 .. Len(P) : Q[n].label < b + 1
    BY <1>1, <1>2
  <2>2. \A n \in 1 .. Len(B) : Q[Len(P) + n].label < b + 1
    BY <1>1, <1>3
  <2> QED
    BY <1>4, <2>1, <2>2
<1>6. ASSUME NEW m \in 1 .. Len(Q), NEW n \in 1 .. Len(Q), Q[n].label >= 0,
             Q[m].label = Q[n].label
      PROVE  m = n
  <2>1. ASSUME NEW k \in 1 .. Len(Q), Q[k].label >= 0
        PROVE  \/ k \in 1 .. Len(P) /\ Q[k] = P[k] /\ Q[k].label # b
               \/ k = Len(P) + 1 /\ Q[k].label = b
    <3>1. CASE k \in 1 .. Len(P)
      BY <1>2, <3>1
    <3>2. ASSUME NEW j \in 1 .. Len(B), k = Len(P) + j PROVE k = Len(P) + 1 /\ Q[k].label = b
      BY <1>3, <2>1, <3>2
    <3> QED
      BY <1>4, <3>1, <3>2
  <2>2. \A j, k \in 1 .. Len(P) : P[k].label >= 0 /\ P[j].label = P[k].label => j = k
    BY DEF Extends, Labels
  <2>3. Q[m].label >= 0
    BY <1>6
  <2> QED
    BY <1>6, <2>1, <2>2, <2>3
<1>7. ASSUME NEW n \in 1 .. Len(Q), Q[n].op # "ret"
      PROVE  /\ n < Len(Q) /\ Q[n].to \in 1 .. b + 1
             /\ Q[n].to = b + 1 \/ \E m \in n + 1 .. Len(Q) : Q[m].label = Q[n].to
  <2>1. CASE n \in 1 .. Len(P)
    <3>1. /\ Q[n] = P[n] /\ n < Len(P) /\ P[n].to \in 1 .. b
          /\ P[n].to = b \/ \E m \in n + 1 .. Len(P) : P[m].label = P[n].to
      BY <1>7, <2>1 DEF Extends, Jumps
    <3>2. CASE P[n].to = b
      <4>1. Len(P) + 1 \in n + 1 .. Len(Q) /\ Q[Len(P) + 1].label = b
        BY <1>1, <1>3, <2>1, <3>1
      <4> QED
        BY <1>1, <3>1, <3>2, <4>1
    <3>3. ASSUME NEW m \in n + 1 .. Len(P), P[m].label = P[n].to
          PROVE  m \in n + 1 .. Len(Q) /\ Q[m].label = Q[n].to
      <4>1. m \in 1 .. Len(P)
        BY <1>1, <2>1
      <4> QED
        BY <1>1, <1>2, <3>1, <3>3, <4>1
    <3> QED
      BY <1>1, <3>1, <3>2, <3>3
  <2>2. ASSUME NEW k \in 1 .. Len(B), n = Len(P) + k
        PROVE  n < Len(Q) /\ Q[n].to = b + 1
    <3>1. Q[n] = B[k] /\ k # Len(B)
      BY <1>3, <1>7, <2>2 DEF Extends, IsBlock
    <3>2. k \in 1 .. Len(B) - 1
      BY <1>1, <3>1
    <3> QED
      BY <1>1, <2>2, <3>1, <3>2 DEF Extends, IsBlock
  <2> QED
    BY <1>1, <1>4, <2>1, <2>2, SMTT(60)
<1> QED
  BY <1>5, <1>6, <1>7 DEF Labels, Jumps

(* What comes out of a block: its answer when its tests pass.              *)
LEMMA BlockValue ==
  ASSUME NEW Q, NEW P, NEW B, NEW b, Extends(Q, P, B, b), NEW q, NEW f, NEW x,
         Val(Q, q, f, x, b + 1)
  PROVE  /\ Answers(B, q) => f[Len(P) + 1] = B[Len(B)].arg
         /\ ~Answers(B, q) => f[Len(P) + 1] = x
<1> DEFINE L == Len(P)
           l == Len(B)
           a == B[l].arg
<1>1. L \in Nat /\ l \in Nat /\ 1 <= l /\ l <= 5 /\ Len(Q) = L + l /\ b \in Nat
  BY DEF Extends, IsBlock
<1>2. f[L + l] = a
  <2>1. Q[L + l] = B[l] /\ B[l].op = "ret" /\ L + l \in 1 .. Len(Q)
    BY <1>1 DEF Extends, IsBlock
  <2> QED
    BY <2>1 DEF Val
<1>3. ASSUME NEW n \in 1 .. l - 1
      PROVE  /\ Passes(B[n], q) => f[L + n] = f[L + n + 1]
             /\ ~Passes(B[n], q) => f[L + n] = x
  <2>1. Q[L + n] = B[n] /\ B[n].op # "ret" /\ B[n].to = b + 1 /\ L + n \in 1 .. Len(Q)
    BY <1>1 DEF Extends, IsBlock
  <2> QED
    BY <2>1 DEF Val
<1> DEFINE p(n) == Passes(B[n], q)
<1> HIDE DEF L, l, a, p
<1>4. \A n \in 1 .. l - 1 : (p(n) => f[L + n] = f[L + n + 1]) /\ (~p(n) => f[L + n] = x)
  BY <1>3 DEF p
<1>5. /\ (\A n \in 1 .. l - 1 : p(n)) => f[L + 1] = a
      /\ ~(\A n \in 1 .. l - 1 : p(n)) => f[L + 1] = x
  <2>1. CASE l = 1
    BY <1>2, <2>1
  <2>2. CASE l = 2
    BY <1>1, <1>2, <1>4, <2>2
  <2>3. CASE l = 3
    BY <1>1, <1>2, <1>4, <2>3
  <2>4. CASE l = 4
    BY <1>1, <1>2, <1>4, <2>4
  <2>5. CASE l = 5
    BY <1>1, <1>2, <1>4, <2>5
  <2> QED
    BY <1>1, <2>1, <2>2, <2>3, <2>4, <2>5
<1> QED
  BY <1>5 DEF L, l, a, p, Answers

LEMMA ExtendVal ==
  ASSUME NEW Q, NEW P, NEW B, NEW b, Extends(Q, P, B, b), NEW q, NEW f, NEW x,
         Val(Q, q, f, x, b + 1)
  PROVE  Val(P, q, f, f[Len(P) + 1], b)
<1>1. /\ \A n \in 1 .. Len(P) : Q[n] = P[n] /\ n \in 1 .. Len(Q)
      /\ Q[Len(P) + 1].label = b /\ Len(P) + 1 \in 1 .. Len(Q)
  BY DEF Extends, IsBlock
<1> QED
  BY <1>1 DEF Val

LEMMA ExtendRuns ==
  ASSUME NEW Q, NEW P, NEW B, NEW b, Extends(Q, P, B, b), NEW q, Runs(P, b, q)
  PROVE  Runs(Q, b + 1, q)
<1> SUFFICES ASSUME NEW x PROVE \E g : Val(Q, q, g, x, b + 1)
  BY DEF Runs
<1> DEFINE L == Len(P)
           l == Len(B)
           y == IF \A j \in 1 .. l - 1 : Passes(B[j], q) THEN B[l].arg ELSE x
<1>1. PICK f : Val(P, q, f, y, b)
  BY DEF Runs
<1> DEFINE h == [k \in 1 .. l |-> IF \A j \in k .. l - 1 : Passes(B[j], q)
                                  THEN B[l].arg ELSE x]
           g == [n \in 1 .. L + l |-> IF n <= L THEN f[n] ELSE h[n - L]]
<1>2. /\ L \in Nat /\ l \in Nat /\ 1 <= l /\ Len(Q) = L + l /\ b \in Nat
      /\ P \in Seq(Inst) /\ B \in Seq(Inst)
  BY DEF Extends, IsBlock
<1>3. /\ h[1] = y /\ h[l] = B[l].arg
      /\ \A k \in 1 .. l - 1 : /\ Passes(B[k], q) => h[k] = h[k + 1]
                               /\ ~Passes(B[k], q) => h[k] = x
  <2>1. 1 \in 1 .. l /\ l \in 1 .. l
    BY <1>2
  <2>2. h[1] = y
    BY <2>1
  <2>3. h[l] = B[l].arg
    <3>1. ~ \E j \in l .. l - 1 : TRUE
      BY <1>2
    <3> QED
      BY <2>1, <3>1
  <2>4. ASSUME NEW k \in 1 .. l - 1
        PROVE  /\ Passes(B[k], q) => h[k] = h[k + 1]
               /\ ~Passes(B[k], q) => h[k] = x
    <3>1. k \in 1 .. l /\ k + 1 \in 1 .. l /\ k \in k .. l - 1
      BY <1>2
    <3>2. \A j \in k .. l - 1 : j = k \/ j \in k + 1 .. l - 1
      BY <1>2
    <3>3. \A j \in k + 1 .. l - 1 : j \in k .. l - 1
      BY <1>2
    <3> QED
      BY <3>1, <3>2, <3>3
  <2> QED
    BY <2>2, <2>3, <2>4
<1>4. /\ \A n \in 1 .. L : g[n] = f[n] /\ n \in 1 .. L + l
      /\ \A k \in 1 .. l : g[L + k] = h[k] /\ L + k \in 1 .. L + l
  <2>1. \A n \in 1 .. L : n \in 1 .. L + l /\ n <= L
    BY <1>2
  <2>2. \A k \in 1 .. l : L + k \in 1 .. L + l /\ ~(L + k <= L) /\ (L + k) - L = k
    BY <1>2
  <2> QED
    BY <2>1, <2>2
<1> HIDE DEF h, g, y
<1>5. ASSUME NEW n \in 1 .. L
      PROVE  /\ Q[n].op = "ret" => g[n] = Q[n].arg
             /\ Q[n].op # "ret" /\ Passes(Q[n], q) => g[n] = g[n + 1]
             /\ Q[n].op # "ret" /\ ~Passes(Q[n], q) =>
                   /\ Q[n].to = b + 1 => g[n] = x
                   /\ \A m \in 1 .. Len(Q) : Q[m].label = Q[n].to => g[n] = g[m]
  <2>1. Q[n] = P[n] /\ g[n] = f[n]
    BY <1>4 DEF Extends
  <2>2. Q[n].op = "ret" => g[n] = Q[n].arg
    BY <1>1, <2>1 DEF Val
  <2>3. ASSUME Q[n].op # "ret"
        PROVE  n + 1 \in 1 .. L /\ Q[n].to \in 1 .. b
    <3>1. n < L /\ P[n].to \in 1 .. b
      BY <2>1, <2>3 DEF Extends, Jumps
    <3> QED
      BY <1>2, <2>1, <3>1
  <2>4. Q[n].op # "ret" /\ Passes(Q[n], q) => g[n] = g[n + 1]
    BY <1>1, <1>4, <2>1, <2>3 DEF Val
  <2>5. ASSUME Q[n].op # "ret", ~Passes(Q[n], q)
        PROVE  /\ Q[n].to = b + 1 => g[n] = x
               /\ \A m \in 1 .. Len(Q) : Q[m].label = Q[n].to => g[n] = g[m]
    <3>1. Q[n].to \in 1 .. b /\ Q[n].to # b + 1 /\ Q[n].to # -1
      BY <1>2, <2>3, <2>5
    <3>2. ASSUME NEW m \in 1 .. L, Q[m].label = Q[n].to PROVE g[n] = g[m]
      <4>1. P[m].label = P[n].to
        BY <2>1, <3>2 DEF Extends
      <4> QED
        BY <1>1, <1>4, <2>1, <2>5, <4>1 DEF Val
    <3>3. ASSUME NEW k \in 1 .. l, Q[L + k].label = Q[n].to PROVE g[n] = g[L + k]
      <4>1. Q[L + k].label = IF k = 1 THEN b ELSE -1
        BY <1>2 DEF Extends, IsBlock
      <4>2. k = 1 /\ P[n].to = b
        BY <2>1, <3>1, <3>3, <4>1
      <4>3. f[n] = y
        BY <1>1, <2>1, <2>5, <4>2 DEF Val
      <4> QED
        BY <1>3, <1>4, <2>1, <4>2, <4>3
    <3> QED
      BY <3>1, <3>2, <3>3 DEF Extends
  <2> QED
    BY <2>2, <2>4, <2>5
<1>6. ASSUME NEW k \in 1 .. l
      PROVE  /\ Q[L + k].op = "ret" => g[L + k] = Q[L + k].arg
             /\ Q[L + k].op # "ret" /\ Passes(Q[L + k], q) => g[L + k] = g[L + k + 1]
             /\ Q[L + k].op # "ret" /\ ~Passes(Q[L + k], q) =>
                   /\ Q[L + k].to = b + 1 => g[L + k] = x
                   /\ \A m \in 1 .. Len(Q) :
                         Q[m].label = Q[L + k].to => g[L + k] = g[m]
  <2>1. Q[L + k] = B[k] /\ g[L + k] = h[k]
    BY <1>4 DEF Extends
  <2>2. CASE k = l
    BY <1>3, <2>1, <2>2 DEF Extends, IsBlock
  <2>3. CASE k # l
    <3>1. k \in 1 .. l - 1 /\ k + 1 \in 1 .. l /\ L + (k + 1) = L + k + 1
      BY <1>2, <2>3
    <3>2. B[k].op # "ret" /\ B[k].to = b + 1
      BY <3>1 DEF Extends, IsBlock
    <3>3. Passes(Q[L + k], q) => g[L + k] = g[L + k + 1]
      BY <1>3, <1>4, <2>1, <3>1
    <3>4. ~Passes(Q[L + k], q) => g[L + k] = x
      BY <1>3, <2>1, <3>1
    <3>5. \A m \in 1 .. Len(Q) : Q[m].label # Q[L + k].to
      <4>1. ASSUME NEW m \in 1 .. Len(Q) PROVE Q[m].label # b + 1
        <5>1. Labels(Q, b + 1)
          BY ExtendShape
        <5>2. Q[m] \in Inst /\ Q[m].label < b + 1
          BY <5>1 DEF Extends, Labels
        <5>3. Q[m].label \in Int
          BY <5>2 DEF Inst
        <5> QED
          BY <1>2, <5>2, <5>3
      <4> QED
        BY <2>1, <3>2, <4>1
    <3> QED
      BY <2>1, <3>2, <3>3, <3>4, <3>5
  <2> QED
    BY <2>2, <2>3
<1>7. Val(Q, q, g, x, b + 1)
  <2>1. \A n \in 1 .. Len(Q) : n \in 1 .. L \/ \E k \in 1 .. l : n = L + k
    BY DEF Extends
  <2>2. ASSUME NEW n \in 1 .. Len(Q)
        PROVE  /\ Q[n].op = "ret" => g[n] = Q[n].arg
               /\ Q[n].op # "ret" /\ Passes(Q[n], q) => g[n] = g[n + 1]
               /\ Q[n].op # "ret" /\ ~Passes(Q[n], q) =>
                     /\ Q[n].to = b + 1 => g[n] = x
                     /\ \A m \in 1 .. Len(Q) : Q[m].label = Q[n].to => g[n] = g[m]
    <3>1. CASE n \in 1 .. L
      BY <1>5, <3>1
    <3>2. CASE \E k \in 1 .. l : n = L + k
      BY <1>6, <3>2
    <3> QED
      BY <2>1, <3>1, <3>2
  <2> QED
    BY <2>2 DEF Val
<1> QED
  BY <1>7

(* One more rule: what it says, and what the program with its block says.  *)
LEMMA OneMoreRule ==
  ASSUME NEW list \in Lists, NEW k \in 1 .. Len(list), NEW q
  PROVE  /\ Decided(list, k - 1, q) <=> Applies(list[k], q) \/ Decided(list, k, q)
         /\ Allowed(list, k - 1, q) <=>
               \/ Allowed(list, k, q)
               \/ Applies(list[k], q) /\ list[k].allow /\ ~Decided(list, k, q)
         /\ Decided(list, k, q) => Allowed(list, k - 1, q) = Allowed(list, k, q)
         /\ ~Decided(list, k, q) /\ Applies(list[k], q) =>
               Allowed(list, k - 1, q) = list[k].allow
<1>1. Len(list) \in Nat
  BY ListFacts, FilterAssumption
<1>2. /\ k - 1 + 1 = k /\ k \in k .. Len(list)
      /\ \A n \in k .. Len(list) : n = k \/ n \in k + 1 .. Len(list)
      /\ \A n \in k + 1 .. Len(list) : n \in k .. Len(list)
  BY <1>1
<1>3. Decided(list, k - 1, q) <=> Applies(list[k], q) \/ Decided(list, k, q)
  BY <1>2 DEF Decided
<1>4. Allowed(list, k - 1, q) <=>
         \/ Allowed(list, k, q)
         \/ Applies(list[k], q) /\ list[k].allow /\ ~Decided(list, k, q)
  BY <1>2 DEF Decided, Allowed
<1>5. Allowed(list, k, q) => Decided(list, k, q)
  BY DEF Decided, Allowed
<1>6. list[k].allow \in BOOLEAN
  BY ListFacts, FilterAssumption
<1>7. Allowed(list, k - 1, q) \in BOOLEAN /\ Allowed(list, k, q) \in BOOLEAN
  BY DEF Allowed
<1>8. ASSUME Decided(list, k, q) PROVE Allowed(list, k - 1, q) = Allowed(list, k, q)
  BY <1>4, <1>7, <1>8
<1>9. ASSUME ~Decided(list, k, q), Applies(list[k], q)
      PROVE  Allowed(list, k - 1, q) = list[k].allow
  BY <1>4, <1>5, <1>6, <1>7, <1>9
<1> QED
  BY <1>3, <1>4, <1>8, <1>9

LEMMA ExtendDecides ==
  ASSUME NEW list \in Lists, NEW k \in 1 .. Len(list), NEW b \in Nat, NEW q \in Request,
         NEW P, NEW Q, list[k].type # "?",
         Extends(Q, P, Block(list[k], b), b), Decides(P, b, list, k, q),
         Len(P) = 0 => k = Len(list)
  PROVE  Decides(Q, b + 1, list, k - 1, q)
<1> DEFINE d == list[k]
           B == Block(d, b)
<1>1. d \in Rule /\ d.allow \in BOOLEAN /\ Len(list) \in Nat
  BY ListFacts, FilterAssumption
<1>2. /\ B[Len(B)].arg = d.allow
      /\ Answers(B, q) <=> Applies(d, q)
  BY <1>1, BlockOfRule
<1> SUFFICES ASSUME NEW f, NEW x, Val(Q, q, f, x, b + 1)
             PROVE  /\ Decided(list, k - 1, q) => f[1] = Allowed(list, k - 1, q)
                    /\ ~Decided(list, k - 1, q) => f[1] = x
  BY DEF Decides
<1> DEFINE v == f[Len(P) + 1]
<1>3. Extends(Q, P, B, b)
  OBVIOUS
<1> HIDE DEF B
<1>4. (Answers(B, q) => v = B[Len(B)].arg) /\ (~Answers(B, q) => v = x)
  BY <1>3, BlockValue
<1> HIDE DEF v
<1>5. v = IF Applies(d, q) THEN d.allow ELSE x
  BY <1>2, <1>4
<1>6. Val(P, q, f, v, b)
  BY <1>3, ExtendVal DEF v
<1>7. CASE Len(P) = 0
  <2>1. f[1] = v
    BY <1>7 DEF v
  <2>2. ~Decided(list, k, q)
    BY <1>1, <1>7 DEF Decided
  <2>3. CASE Applies(d, q)
    BY <1>5, <2>1, <2>2, <2>3, OneMoreRule
  <2>4. CASE ~Applies(d, q)
    BY <1>5, <2>1, <2>2, <2>4, OneMoreRule
  <2> QED
    BY <2>3, <2>4
<1>8. CASE Len(P) # 0
  <2>1. Len(P) > 0
    BY <1>3, <1>8 DEF Extends
  <2>2. /\ Decided(list, k, q) => f[1] = Allowed(list, k, q)
        /\ ~Decided(list, k, q) => f[1] = v
    BY <1>6, <2>1 DEF Decides
  <2>3. CASE Decided(list, k, q)
    BY <2>2, <2>3, OneMoreRule
  <2>4. CASE ~Decided(list, k, q) /\ Applies(d, q)
    BY <1>5, <2>2, <2>4, OneMoreRule
  <2>5. CASE ~Decided(list, k, q) /\ ~Applies(d, q)
    BY <1>5, <2>2, <2>5, OneMoreRule
  <2> QED
    BY <2>3, <2>4, <2>5
<1> QED
  BY <1>7, <1>8

-----------------------------------------------------------------------------
(* A program without a jump to a block that is still to come is run by the *)
(* functions of Val and no others, so that what all of them yield is the   *)
(* answer.                                                                 *)
LEMMA AnswerIs ==
  ASSUME NEW P \in Seq(Inst), NEW b \in Nat, NEW q, NEW v, Len(P) > 0,
         Labels(P, b), Jumps(P, b), \A n \in 1 .. Len(P) : P[n].op # "ret" => P[n].to < b,
         Runs(P, b, q), \A f, x : Val(P, q, f, x, b) => f[1] = v
  PROVE  Answer(P, q) = v
<1> DEFINE S == 1 .. Len(P)
           E(f, n) == IF P[n].op = "ret" THEN P[n].arg
                      ELSE IF Passes(P[n], q) THEN f[n + 1]
                      ELSE f[Labelled(P, P[n].to)]
           run == CHOOSE f : f = [n \in S |-> E(f, n)]
<1>1. Answer(P, q) = run[1]
  BY DEF Answer
<1>2. ASSUME NEW n \in S, P[n].op # "ret"
      PROVE  /\ n + 1 \in S /\ Labelled(P, P[n].to) \in S
             /\ P[Labelled(P, P[n].to)].label = P[n].to /\ P[n].to # b
             /\ \A m \in S : P[m].label = P[n].to => m = Labelled(P, P[n].to)
  <2>1. /\ n < Len(P) /\ P[n].to \in 1 .. b /\ P[n].to < b
        /\ P[n].to = b \/ \E m \in n + 1 .. Len(P) : P[m].label = P[n].to
    BY <1>2 DEF Jumps
  <2>2. Len(P) \in Nat
    BY LenProperties
  <2>3. n + 1 \in S /\ P[n].to # b /\ P[n].to >= 0
    BY <2>1, <2>2
  <2>4. PICK m \in n + 1 .. Len(P) : P[m].label = P[n].to
    BY <2>1, <2>3
  <2>5. m \in S
    BY <2>2, <2>4
  <2>6. Labelled(P, P[n].to) \in S /\ P[Labelled(P, P[n].to)].label = P[n].to
    BY <2>4, <2>5 DEF Labelled
  <2>7. \A k \in S : P[k].label = P[n].to => k = Labelled(P, P[n].to)
    BY <2>3, <2>6 DEF Labels
  <2> QED
    BY <2>3, <2>6, <2>7
<1>3. \E f : f = [n \in S |-> E(f, n)]
  <2>1. PICK f : Val(P, q, f, FALSE, b)
    BY DEF Runs
  <2> DEFINE g == [n \in S |-> f[n]]
  <2>2. ASSUME NEW n \in S PROVE g[n] = E(g, n)
    <3>1. CASE P[n].op = "ret"
      BY <2>1, <3>1 DEF Val
    <3>2. CASE P[n].op # "ret" /\ Passes(P[n], q)
      BY <1>2, <2>1, <3>2 DEF Val
    <3>3. CASE P[n].op # "ret" /\ ~Passes(P[n], q)
      BY <1>2, <2>1, <3>3 DEF Val
    <3> QED
      BY <3>1, <3>2, <3>3
  <2>3. g = [n \in S |-> E(g, n)]
    BY <2>2
  <2> QED
    BY <2>3
<1>4. run = [n \in S |-> E(run, n)]
  BY <1>3
<1> HIDE DEF run
<1>5. Val(P, q, run, FALSE, b)
  <2>1. ASSUME NEW n \in S
        PROVE  /\ P[n].op = "ret" => run[n] = P[n].arg
               /\ P[n].op # "ret" /\ Passes(P[n], q) => run[n] = run[n + 1]
               /\ P[n].op # "ret" /\ ~Passes(P[n], q) =>
                     /\ P[n].to = b => run[n] = FALSE
                     /\ \A m \in S : P[m].label = P[n].to => run[n] = run[m]
    <3>1. run[n] = E(run, n)
      BY <1>4
    <3> QED
      BY <1>2, <3>1
  <2> QED
    BY <2>1 DEF Val
<1> QED
  BY <1>1, <1>5

(* What FilterConforms says of a finished program and its list.            *)
Conforms(P, list) ==
    /\ \A n \in 1 .. Len(P) :
          P[n].op # "ret" =>
              /\ n < Len(P)
              /\ \E m \in n + 1 .. Len(P) : P[m].label = P[n].to
    /\ \A q \in Request : Answer(P, q) = Verdict(list, q)

LEMMA ClosedConforms ==
  ASSUME NEW P \in Seq(Inst), NEW b \in Nat, NEW list \in Lists, Len(P) > 0,
         Labels(P, b), Jumps(P, b), \A n \in 1 .. Len(P) : P[n].op # "ret" => P[n].to < b,
         \A q \in Request :
            /\ Runs(P, b, q)
            /\ \A f, x : Val(P, q, f, x, b) => f[1] = Allowed(list, 0, q)
  PROVE  Conforms(P, list)
<1>1. ASSUME NEW n \in 1 .. Len(P), P[n].op # "ret"
      PROVE  n < Len(P) /\ \E m \in n + 1 .. Len(P) : P[m].label = P[n].to
  <2>1. P[n].to \in 1 .. b /\ P[n].to < b /\ n < Len(P)
    BY <1>1 DEF Jumps
  <2>2. P[n].to # b
    BY <2>1
  <2> QED
    BY <1>1, <2>1, <2>2 DEF Jumps
<1>2. ASSUME NEW q \in Request PROVE Answer(P, q) = Verdict(list, q)
  <2>1. Answer(P, q) = Allowed(list, 0, q)
    BY AnswerIs
  <2>2. Allowed(list, 0, q) = Verdict(list, q)
    BY DEF Allowed, Verdict
  <2> QED
    BY <2>1, <2>2
<1> QED
  BY <1>1, <1>2 DEF Conforms

LEMMA ConformsIs == FilterConforms <=> (at = "attach" => Conforms(insts, devices))
  BY DEF FilterConforms, Conforms

LEMMA AppendCompiles ==
  ASSUME IInv, AppendDevice
  PROVE  TypeOK' /\ Compiled'
<1> DEFINE d == devices[i]
           b == blockID
           P == insts
           Q == P \o Block(d, b)
<1>1. /\ Compiled /\ devices \in Lists /\ i \in 1 .. Len(devices) /\ i - 1 \in 0 .. Len(devices)
      /\ d \in Rule /\ d.type # "?" /\ ~hasWildCard /\ Len(devices) \in 0 .. MaxRules
      /\ MaxRules \in Nat
  <2>1. devices \in Lists /\ i \in 0 .. Len(devices) /\ i > 0 /\ Compiled
    BY DEF IInv, TypeOK, AppendDevice
  <2>2. Len(devices) \in 0 .. MaxRules /\ \A n \in 1 .. Len(devices) : devices[n] \in Rule
    BY <2>1, ListFacts
  <2>3. MaxRules \in Nat
    BY FilterAssumption
  <2>4. i \in 1 .. Len(devices) /\ i - 1 \in 0 .. Len(devices)
    BY <2>1, <2>2, <2>3
  <2> QED
    BY <2>1, <2>2, <2>3, <2>4 DEF AppendDevice
<1>2. /\ i' = i - 1 /\ insts' = Q /\ blockID' = b + 1 /\ hasWildCard' = Wild(d)
      /\ devices' = devices /\ at' = at /\ res' = res /\ attached' = attached
      /\ calls' = calls
  BY DEF AppendDevice
<1>3. P \in Seq(Inst) /\ Len(P) \in Nat /\ b \in Nat /\ b + i <= Len(devices)
  BY LenProperties, <1>1 DEF Compiled, IInv, TypeOK
<1>4. /\ IsBlock(Block(d, b), b)
      /\ Wild(d) => Len(Block(d, b)) = 1
  BY <1>1, <1>3, BlockOfRule
<1> DEFINE B == Block(d, b)
<1>5. Extends(Q, P, B, b)
  BY <1>1, <1>3, <1>4, AddBlock DEF Compiled
<1>6. Labels(Q, b + 1) /\ Jumps(Q, b + 1)
  BY <1>5, ExtendShape
<1>7. ASSUME NEW q \in Request
      PROVE  Decides(Q, b + 1, devices, i - 1, q) /\ Runs(Q, b + 1, q)
  <2>1. Decides(P, b, devices, i, q) /\ Runs(P, b, q) /\ (Len(P) = 0 => i = Len(devices))
    BY <1>1 DEF Compiled
  <2>2. Runs(Q, b + 1, q)
    BY <1>5, <2>1, ExtendRuns
  <2>3. Decides(Q, b + 1, devices, i - 1, q)
    BY <1>1, <1>3, <1>5, <2>1, ExtendDecides
  <2> QED
    BY <2>2, <2>3
<1>8. ASSUME Wild(d)
      PROVE  /\ \A q \in Request : Decided(devices, i - 1, q)
             /\ \A n \in 1 .. Len(Q) : Q[n].op # "ret" => Q[n].to < b + 1
  <2>1. \A q \in Request : Applies(d, q)
    BY <1>8 DEF Wild, Applies
  <2>2. ASSUME NEW n \in 1 .. Len(P), Q[n].op # "ret" PROVE Q[n].to < b + 1
    <3>1. Q[n] = P[n] /\ P[n].to \in 1 .. b
      BY <1>1, <1>5, <2>2 DEF Compiled, Extends, Jumps
    <3> QED
      BY <1>3, <3>1
  <2>3. \A m \in 1 .. Len(B) : Q[Len(P) + m].op = "ret"
    BY <1>4, <1>5, <1>8 DEF Extends, IsBlock
  <2>4. \A n \in 1 .. Len(Q) : Q[n].op # "ret" => Q[n].to < b + 1
    BY <1>5, <2>2, <2>3 DEF Extends
  <2> QED
    BY <1>1, <2>1, <2>4, OneMoreRule
<1>9. Q \in Seq(Inst) /\ Len(Q) # 0
  BY <1>3, <1>5 DEF Extends, IsBlock
<1> HIDE DEF Q, P, B, d
<1>10. Compiled'
  <2>1. b + 1 >= 0 /\ (b + 1) + (i - 1) <= Len(devices)
    BY <1>1, <1>3
  <2> QED
    BY <1>2, <1>6, <1>7, <1>8, <1>9, <2>1 DEF Compiled
<1>11. TypeOK'
  <2>1. b + 1 \in -1 .. MaxRules /\ Wild(d) \in BOOLEAN
    BY <1>1, <1>3 DEF Wild
  <2> QED
    BY <1>1, <1>2, <2>1 DEF IInv, TypeOK
<1> QED
  BY <1>10, <1>11

LEMMA IgnoreCompiles ==
  ASSUME IInv, Ignore
  PROVE  TypeOK' /\ Compiled'
<1>1. /\ Compiled /\ hasWildCard /\ devices \in Lists /\ i \in 0 .. Len(devices) /\ i > 0
      /\ UNCHANGED <<devices, insts, hasWildCard, blockID, at, res, attached, calls>>
      /\ i' = i - 1
  BY DEF Ignore, IInv, TypeOK, program
<1>2. Len(devices) \in Nat
  BY <1>1, ListFacts, FilterAssumption
<1>3. i \in 1 .. Len(devices) /\ i - 1 \in 0 .. Len(devices)
  BY <1>1, <1>2
<1>4. ASSUME NEW q \in Request
      PROVE  /\ Decides(insts, blockID, devices, i - 1, q)
             /\ Decided(devices, i - 1, q)
  <2>1. Decided(devices, i, q) /\ Decides(insts, blockID, devices, i, q)
    BY <1>1 DEF Compiled
  <2>2. Decided(devices, i - 1, q)
        /\ Allowed(devices, i - 1, q) = Allowed(devices, i, q)
    BY <1>1, <1>3, <2>1, OneMoreRule
  <2> QED
    BY <2>1, <2>2 DEF Decides
<1>5. blockID + (i - 1) <= Len(devices)
  BY <1>1, <1>2 DEF Compiled, IInv, TypeOK
<1>6. Compiled'
  BY <1>1, <1>4, <1>5 DEF Compiled
<1>7. TypeOK'
  BY <1>1, <1>3 DEF IInv, TypeOK
<1> QED
  BY <1>6, <1>7

LEMMA FinalizeConforms ==
  ASSUME IInv, Finalize
  PROVE  TypeOK' /\ Conforms(insts', devices')
<1> DEFINE b == blockID
           P == insts
<1>1. /\ Compiled /\ devices \in Lists /\ i = 0 /\ devices' = devices
      /\ P \in Seq(Inst) /\ Len(P) \in Nat /\ b \in Nat /\ Labels(P, b) /\ Jumps(P, b)
      /\ Len(devices) \in Nat
  BY LenProperties, ListFacts, FilterAssumption DEF Finalize, IInv, TypeOK, Compiled
<1>2. CASE hasWildCard
  <2>1. UNCHANGED <<insts, hasWildCard, blockID>> /\ Len(P) > 0
    BY <1>1, <1>2 DEF Finalize, program, Compiled
  <2>2. ASSUME NEW q \in Request
        PROVE  /\ Runs(P, b, q)
               /\ \A f, x : Val(P, q, f, x, b) => f[1] = Allowed(devices, 0, q)
    BY <1>1, <1>2, <2>1, <2>2 DEF Compiled, Decides
  <2>3. Conforms(P, devices)
    BY <1>1, <1>2, <2>1, <2>2, ClosedConforms DEF Compiled
  <2> QED
    BY <1>1, <2>1, <2>3 DEF Finalize, IInv, TypeOK
<1>3. CASE ~hasWildCard
  <2> DEFINE w == Return(FALSE)
             B == [w EXCEPT ![1].label = b]
             Q == P \o B
  <2>1. /\ insts' = Q /\ blockID' = -1 /\ UNCHANGED hasWildCard
    BY <1>3 DEF Finalize
  <2> DEFINE z == [op |-> "ret", arg |-> FALSE, to |-> 0, label |-> -1]
  <2>2. z \in Inst /\ z.op = "ret" /\ z.arg = FALSE /\ w = <<z>>
    BY DEF Inst, Arg, Return
  <2> HIDE DEF z, w
  <2>3. /\ B \in Seq(Inst) /\ Len(B) = 1 /\ B[1].op = "ret" /\ B[1].arg = FALSE
        /\ B[1].label = b
    <3>1. w \in Seq(Inst) /\ Len(w) = 1 /\ w[1] = z /\ 1 \in 1 .. Len(w)
      BY <2>2
    <3>2. [z EXCEPT !.label = b] \in Inst
      BY <1>1, <2>2 DEF Inst
    <3>3. B = [w EXCEPT ![1] = [z EXCEPT !.label = b]]
      BY <3>1
    <3>4. B \in Seq(Inst) /\ Len(B) = 1 /\ B[1] = [z EXCEPT !.label = b]
      BY <3>1, <3>2, <3>3, ExceptSeq, SMTT(60)
    <3> QED
      BY <2>2, <3>4 DEF Inst
  <2> HIDE DEF B
  <2>4. IsBlock(B, b)
    BY <2>3 DEF IsBlock
  <2>5. Extends(Q, P, B, b)
    BY <1>1, <2>4, AddBlock
  <2> HIDE DEF Q
  <2>6. Labels(Q, b + 1) /\ Jumps(Q, b + 1)
    BY <2>5, ExtendShape
  <2>7. Q \in Seq(Inst) /\ Len(Q) > 0 /\ b + 1 \in Nat
    BY <1>1, <2>3, <2>5 DEF Extends
  <2>8. \A n \in 1 .. Len(Q) : Q[n].op # "ret" => Q[n].to < b + 1
    <3>1. ASSUME NEW n \in 1 .. Len(P), Q[n].op # "ret" PROVE Q[n].to < b + 1
      <4>1. Q[n] = P[n] /\ P[n].to \in 1 .. b
        BY <1>1, <2>5, <3>1 DEF Extends, Jumps
      <4> QED
        BY <1>1, <4>1
    <3>2. \A m \in 1 .. Len(B) : Q[Len(P) + m].op = "ret"
      BY <2>3, <2>5 DEF Extends
    <3> QED
      BY <2>5, <3>1, <3>2 DEF Extends
  <2>9. ASSUME NEW q \in Request
        PROVE  /\ Runs(Q, b + 1, q)
               /\ \A f, x : Val(Q, q, f, x, b + 1) => f[1] = Allowed(devices, 0, q)
    <3>1. Runs(P, b, q) /\ Decides(P, b, devices, 0, q)
      BY <1>1 DEF Compiled
    <3>2. Runs(Q, b + 1, q)
      BY <2>5, <3>1, ExtendRuns
    <3>3. ASSUME NEW f, NEW x, Val(Q, q, f, x, b + 1)
          PROVE  f[1] = Allowed(devices, 0, q)
      <4>1. Answers(B, q) => f[Len(P) + 1] = B[Len(B)].arg
        BY <2>5, <3>3, BlockValue
      <4>2. f[Len(P) + 1] = FALSE
        BY <2>3, <4>1 DEF Answers
      <4>3. Val(P, q, f, f[Len(P) + 1], b)
        BY <2>5, <3>3, ExtendVal
      <4>4. CASE Len(P) = 0
        <5>1. Len(devices) = 0
          BY <1>1, <4>4 DEF Compiled
        <5>2. f[1] = FALSE /\ ~Allowed(devices, 0, q)
          BY <4>2, <4>4, <5>1 DEF Allowed
        <5>3. Allowed(devices, 0, q) \in BOOLEAN
          BY DEF Allowed
        <5> QED
          BY <5>2, <5>3
      <4>5. CASE Len(P) > 0
        <5>1. /\ Decided(devices, 0, q) => f[1] = Allowed(devices, 0, q)
              /\ ~Decided(devices, 0, q) => f[1] = f[Len(P) + 1]
          BY <3>1, <4>3, <4>5 DEF Decides
        <5>2. ~Decided(devices, 0, q) => ~Allowed(devices, 0, q)
          BY DEF Decided, Allowed
        <5>3. Allowed(devices, 0, q) \in BOOLEAN
          BY DEF Allowed
        <5> QED
          BY <4>2, <5>1, <5>2, <5>3
      <4> QED
        BY <1>1, <4>4, <4>5
    <3> QED
      BY <3>2, <3>3
  <2>10. Conforms(Q, devices)
    BY <1>1, <2>6, <2>7, <2>8, <2>9, ClosedConforms
  <2>11. -1 \in -1 .. MaxRules
    BY FilterAssumption
  <2> QED
    BY <1>1, <2>1, <2>10, <2>11 DEF Finalize, IInv, TypeOK
<1> QED
  BY <1>2, <1>3

LEMMA InitIInv == Init => IInv
<1> SUFFICES ASSUME Init PROVE IInv
  OBVIOUS
<1>1. << >> \in Lists /\ Len(<< >>) = 0
  <2>1. << >> \in [1 .. 0 -> Rule] /\ 0 \in 0 .. MaxRules
    BY FilterAssumption
  <2> QED
    BY <2>1 DEF Lists
<1>2. << >> \in Seq(Lists) /\ 0 \in -1 .. MaxRules /\ 0 <= MaxAttach /\ 0 \in 0 .. Updates
      /\ 0 \in 0 .. Len(<< >>)
  BY <1>1, FilterAssumption
<1>3. TypeOK
  BY <1>1, <1>2 DEF Init, TypeOK
<1> QED
  BY <1>3 DEF Init, IInv, FilterConforms

LEMMA BeginCompiles ==
  ASSUME IInv, Begin
  PROVE  IInv'
<1>1. devices' \in Lists /\ i' = Len(devices') /\ insts' = << >> /\ blockID' = 0
      /\ hasWildCard' = FALSE /\ at' \in {"idle", "append"}
  BY DEF Begin
<1>2. Len(devices') \in Nat /\ Len(devices') <= MaxRules
  BY <1>1, ListFacts, FilterAssumption
<1>3. Len(<< >>) = 0 /\ << >> \in Seq(Inst) /\ \A n \in 1 .. 0 : FALSE
  OBVIOUS
<1>4. Compiled'
  <2>1. Labels(<< >>, 0) /\ Jumps(<< >>, 0)
    BY <1>3 DEF Labels, Jumps
  <2>2. ASSUME NEW q \in Request
        PROVE  Decides(<< >>, 0, devices', i', q) /\ Runs(<< >>, 0, q)
    BY <1>3 DEF Decides, Runs, Val
  <2> QED
    BY <1>1, <1>2, <1>3, <2>1, <2>2 DEF Compiled
<1>5. TypeOK'
  <2>1. /\ 0 \in -1 .. MaxRules /\ Len(devices') \in 0 .. Len(devices')
        /\ calls + 1 \in 0 .. Updates
    BY <1>2, FilterAssumption DEF Begin, IInv, TypeOK
  <2>2. /\ calls' = calls + 1 /\ res' \in {"none", "ok"} /\ UNCHANGED attached
        /\ attached \in Seq(Lists) /\ Len(attached) <= MaxAttach
    BY DEF Begin, IInv, TypeOK
  <2> QED
    BY <1>1, <2>1, <2>2 DEF TypeOK
<1> QED
  BY <1>1, <1>4, <1>5 DEF IInv, FilterConforms

LEMMA StepIInv == IInv /\ [Next]_vars => IInv'
<1> SUFFICES ASSUME IInv, [Next]_vars PROVE IInv'
  OBVIOUS
<1>1. CASE Begin
  BY <1>1, BeginCompiles
<1>2. CASE Ignore
  BY <1>2, IgnoreCompiles DEF Ignore, IInv, FilterConforms
<1>3. CASE AppendDevice
  BY <1>3, AppendCompiles DEF AppendDevice, IInv, FilterConforms
<1>4. CASE InvalidDevice
  BY <1>4 DEF InvalidDevice, program, IInv, TypeOK, FilterConforms
<1>5. CASE Finalize
  <2>1. TypeOK' /\ Conforms(insts', devices') /\ at' = "attach"
    BY <1>5, FinalizeConforms DEF Finalize
  <2> QED
    BY <2>1 DEF IInv, FilterConforms, Conforms
<1>6. CASE Attach
  <2>1. /\ attached \in Seq(Lists) /\ devices \in Lists /\ Len(attached) < MaxAttach
        /\ attached' = Append(attached, devices) /\ MaxAttach \in Nat
    BY <1>6, FilterAssumption DEF Attach, IInv, TypeOK
  <2>2. attached' \in Seq(Lists) /\ Len(attached') <= MaxAttach
    BY <2>1
  <2> QED
    BY <1>6, <2>2 DEF Attach, program, IInv, TypeOK, FilterConforms
<1>7. CASE AttachFails
  BY <1>7 DEF AttachFails, program, IInv, TypeOK, FilterConforms
<1>8. CASE UNCHANGED vars
  <2>1. Compiled => Compiled'
    BY <1>8 DEF vars, Compiled
  <2> QED
    BY <1>8, <2>1, ConformsIs DEF vars, IInv, TypeOK, FilterConforms
<1> QED
  BY <1>1, <1>2, <1>3, <1>4, <1>5, <1>6, <1>7, <1>8 DEF Next

LEMMA Invariance == Spec => []IInv
<1> QED
  BY InitIInv, StepIInv, PTL DEF Spec

(* The state of the compiler has its type.                                 *)
THEOREM TypeCorrect == Spec => []TypeOK
<1>1. IInv => TypeOK
  BY DEF IInv
<1> QED
  BY <1>1, Invariance, PTL

(* Every program that is attached loads, and answers every request as the  *)
(* last rule of its list that applies to it, or by denying.                *)
THEOREM CompilerIsCorrect == Spec => []FilterConforms
<1>1. IInv => FilterConforms
  BY DEF IInv
<1> QED
  BY <1>1, Invariance, PTL

=============================================================================
