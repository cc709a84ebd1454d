-------------------------- MODULE Settings1_proofs --------------------------
(***************************************************************************)
(* Theorems about the components of Settings that are of package cgroup1.  *)
(***************************************************************************)
EXTENDS Settings, Selection, SequencesExt, FiniteSetTheorems, WellFoundedInduction, TLAPS

-----------------------------------------------------------------------------
(* Induction over the natural numbers, for sets: a set of them that is not *)
(* empty has a least element.                                              *)
LEMMA Least ==
  ASSUME NEW T \in SUBSET Nat, T # {}
  PROVE  \E n \in T : \A m \in T : n <= m
<1> DEFINE R == OpToRel(<, Nat)
<1>1. R = {ss \in Nat \X Nat : ss[1] < ss[2]}
  BY DEF OpToRel
<1>2. IsWellFoundedOn(R, Nat)
  BY NatLessThanWellFounded
<1> HIDE DEF R
<1>3. T \subseteq Nat /\ T # {}
  OBVIOUS
<1>4. PICK x \in T : \A y \in T : <<y, x>> \notin R
  BY <1>2, <1>3, WFMin
<1>5. \A y \in T : ~(y < x)
  BY <1>1, <1>4
<1> QED
  BY <1>5

LEMMA Upwards ==
  ASSUME NEW T, NEW n \in Nat, 0 \in T, \A k \in 0 .. n - 1 : k \in T => k + 1 \in T
  PROVE  \A k \in 0 .. n : k \in T
<1> DEFINE Bad == {k \in Nat : k \in 0 .. n /\ k \notin T}
<1>1. SUFFICES ASSUME Bad # {} PROVE FALSE
  OBVIOUS
<1>2. Bad \in SUBSET Nat
  OBVIOUS
<1> HIDE DEF Bad
<1>3. PICK k \in Bad : \A m \in Bad : k <= m
  BY <1>1, <1>2, Least
<1> USE DEF Bad
<1>4. k \in Nat /\ k - 1 \in 0 .. n - 1 /\ k \in 0 .. n
  BY <1>3
<1>5. k - 1 \notin Bad
  BY <1>3, <1>4
<1>6. k - 1 \in T
  BY <1>4, <1>5
<1> QED
  BY <1>3, <1>4, <1>6

(* A function by recursion on how far the sequence has been gone through.  *)
Loops(f, s, S) ==
    f = [n \in 0 .. Len(s) |->
           IF n = 0 THEN <<>>
           ELSE IF s[n] \in S THEN Append(f[n - 1], s[n]) ELSE f[n - 1]]

LEMMA SelectedDef ==
  ASSUME NEW E, NEW s \in Seq(E), NEW S
  PROVE  \E f : Loops(f, s, S)
<1> DEFINE G(f, n) == IF n = 0 THEN <<>>
                      ELSE IF s[n] \in S THEN Append(f[n - 1], s[n]) ELSE f[n - 1]
           Has == {k \in 0 .. Len(s) : \E f : f = [n \in 0 .. k |-> G(f, n)]}
<1>1. Len(s) \in Nat
  OBVIOUS
<1>2. 0 \in Has
  <2> DEFINE f == [n \in 0 .. 0 |-> <<>>]
  <2>1. f = [n \in 0 .. 0 |-> G(f, n)]
    OBVIOUS
  <2> HIDE DEF f
  <2> QED
    BY <1>1, <2>1
<1>3. ASSUME NEW k \in 0 .. Len(s) - 1, k \in Has PROVE k + 1 \in Has
  <2>1. PICK g : g = [n \in 0 .. k |-> G(g, n)]
    BY <1>3
  <2>2. k \in Nat /\ k + 1 \in 0 .. Len(s)
    BY <1>1
  <2> DEFINE f == [n \in 0 .. k + 1 |-> IF n = k + 1 THEN G(g, n) ELSE g[n]]
  <2>3. ASSUME NEW n \in 0 .. k + 1 PROVE f[n] = G(f, n)
    <3>1. CASE n = k + 1
      <4>1. n # 0 /\ n - 1 \in 0 .. k /\ n - 1 # k + 1 /\ n - 1 \in 0 .. k + 1
        BY <2>2, <3>1
      <4>2. f[n - 1] = g[n - 1]
        BY <4>1
      <4> QED
        BY <3>1, <4>2
    <3>2. CASE n # k + 1
      <4>1. n \in 0 .. k /\ (n # 0 => n - 1 \in 0 .. k + 1 /\ n - 1 # k + 1)
        BY <2>2, <3>2
      <4>2. g[n] = G(g, n) /\ f[n] = g[n]
        BY <2>1, <3>2, <4>1
      <4>3. n # 0 => f[n - 1] = g[n - 1]
        BY <4>1
      <4> QED
        BY <4>2, <4>3
    <3> QED
      BY <3>1, <3>2
  <2>4. f = [n \in 0 .. k + 1 |-> G(f, n)]
    <3>1. f = [n \in 0 .. k + 1 |-> f[n]]
      OBVIOUS
    <3> HIDE DEF f, G
    <3> QED
      BY <2>3, <3>1
  <2> HIDE DEF f, G
  <2> QED
    BY <2>2, <2>4
<1> HIDE DEF Has
<1>4. \A k \in 0 .. Len(s) : k \in Has
  BY <1>1, <1>2, <1>3, Upwards
<1>5. Len(s) \in Has
  BY <1>1, <1>4
<1>6. PICK f : f = [n \in 0 .. Len(s) |-> G(f, n)]
  BY <1>5 DEF Has
<1>7. Loops(f, s, S)
  BY <1>6 DEF Loops
<1> QED
  BY <1>7

(* Selected is the last of a sequence of steps, which go through s.        *)
Steps(f, s, S) ==
    /\ f[0] = <<>>
    /\ \A k \in 0 .. Len(s) - 1 :
          f[k + 1] = IF s[k + 1] \in S THEN Append(f[k], s[k + 1]) ELSE f[k]

LEMMA SelectedSteps ==
  ASSUME NEW E, NEW s \in Seq(E), NEW S
  PROVE  \E f : Steps(f, s, S) /\ Selected(s, S) = f[Len(s)]
<1> DEFINE f == CHOOSE f : Loops(f, s, S)
<1>1. Loops(f, s, S)
  BY SelectedDef, Zenon
<1>2. Selected(s, S) = f[Len(s)]
  BY Zenon DEF Selected, Loops
<1> HIDE DEF f
<1>3. Len(s) \in Nat
  OBVIOUS
<1>4. \A n \in 0 .. Len(s) :
        f[n] = IF n = 0 THEN <<>> ELSE IF s[n] \in S THEN Append(f[n - 1], s[n]) ELSE f[n - 1]
  BY <1>1, Zenon DEF Loops
<1>5. f[0] = <<>>
  BY <1>3, <1>4
<1>6. ASSUME NEW k \in 0 .. Len(s) - 1
      PROVE  f[k + 1] = IF s[k + 1] \in S THEN Append(f[k], s[k + 1]) ELSE f[k]
  <2> DEFINE m == k + 1
  <2>1. m \in 0 .. Len(s) /\ m # 0 /\ m - 1 = k
    BY <1>3
  <2> HIDE DEF m
  <2>2. f[m] = IF s[m] \in S THEN Append(f[m - 1], s[m]) ELSE f[m - 1]
    BY <1>4, <2>1, Zenon
  <2>3. f[m] = IF s[m] \in S THEN Append(f[k], s[m]) ELSE f[k]
    BY <2>1, <2>2, Zenon
  <2> QED
    BY <2>3, Zenon DEF m
<1>7. Steps(f, s, S)
  BY <1>5, <1>6, Zenon DEF Steps
<1> QED
  BY <1>2, <1>7

(* What is selected is of the sequence and in the set, and all that is.    *)
LEMMA SelectedIs ==
  ASSUME NEW E, NEW s \in Seq(E), NEW S
  PROVE  /\ Selected(s, S) \in Seq(E)
         /\ \A z \in 1 .. Len(Selected(s, S)) :
               \E j \in 1 .. Len(s) : Selected(s, S)[z] = s[j] /\ s[j] \in S
         /\ \A j \in 1 .. Len(s) :
               s[j] \in S => \E z \in 1 .. Len(Selected(s, S)) : Selected(s, S)[z] = s[j]
<1>1. PICK f : Steps(f, s, S) /\ Selected(s, S) = f[Len(s)]
  BY SelectedSteps
<1>2. Selected(s, S) = f[Len(s)]
  BY <1>1
<1> DEFINE Good(k) == /\ f[k] \in Seq(E)
                      /\ \A z \in 1 .. Len(f[k]) :
                            \E j \in 1 .. k : f[k][z] = s[j] /\ s[j] \in S
                      /\ \A j \in 1 .. k :
                            s[j] \in S => \E z \in 1 .. Len(f[k]) : f[k][z] = s[j]
           T == {k \in 0 .. Len(s) : Good(k)}
<1>3. Len(s) \in Nat
  OBVIOUS
<1>4. 0 \in T
  <2>1. f[0] = <<>>
    BY <1>1 DEF Steps
  <2>2. f[0] \in Seq(E) /\ Len(f[0]) = 0
    BY <2>1
  <2>3. Good(0)
    BY <2>2
  <2> QED
    BY <1>3, <2>3
<1>5. ASSUME NEW k \in 0 .. Len(s) - 1, k \in T PROVE k + 1 \in T
  <2>1. k \in Nat /\ k + 1 \in 0 .. Len(s) /\ k + 1 \in 1 .. Len(s) /\ s[k + 1] \in E
    BY <1>3
  <2>2. f[k + 1] = IF s[k + 1] \in S THEN Append(f[k], s[k + 1]) ELSE f[k]
    BY <1>1 DEF Steps
  <2>3. Good(k)
    BY <1>5
  <2>4. \A j \in 1 .. k + 1 : j = k + 1 \/ j \in 1 .. k
    BY <2>1
  <2>5. \A j \in 1 .. k : j \in 1 .. k + 1
    BY <2>1
  <2>6. CASE s[k + 1] \notin S
    <3>1. f[k + 1] = f[k]
      BY <2>2, <2>6, Zenon
    <3>2. \A z \in 1 .. Len(f[k]) :
             \E j \in 1 .. k + 1 : f[k][z] = s[j] /\ s[j] \in S
      BY <2>3, <2>5, Zenon
    <3>3. ASSUME NEW j \in 1 .. k + 1, s[j] \in S
          PROVE  \E z \in 1 .. Len(f[k]) : f[k][z] = s[j]
      <4>1. j # k + 1
        BY <2>6, <3>3, Zenon
      <4>2. j \in 1 .. k
        BY <2>4, <4>1, Zenon
      <4> QED
        BY <2>3, <3>3, <4>2, Zenon
    <3>4. Good(k + 1)
      BY <2>3, <3>1, <3>2, <3>3
    <3> QED
      BY <2>1, <3>4
  <2>7. CASE s[k + 1] \in S
    <3> DEFINE g == Append(f[k], s[k + 1])
    <3>1. /\ g \in Seq(E) /\ Len(g) = Len(f[k]) + 1 /\ Len(f[k]) \in Nat
          /\ g[Len(f[k]) + 1] = s[k + 1]
          /\ \A z \in 1 .. Len(f[k]) : g[z] = f[k][z]
      BY <2>1, <2>3
    <3>2. f[k + 1] = g
      BY <2>2, <2>7
    <3> HIDE DEF g
    <3>3. ASSUME NEW z \in 1 .. Len(g)
          PROVE  \E j \in 1 .. k + 1 : g[z] = s[j] /\ s[j] \in S
      <4>1. CASE z = Len(f[k]) + 1
        BY <2>1, <2>7, <3>1, <4>1
      <4>2. CASE z # Len(f[k]) + 1
        <5>1. z \in 1 .. Len(f[k])
          BY <3>1, <4>2
        <5> QED
          BY <2>3, <2>5, <3>1, <5>1
      <4> QED
        BY <4>1, <4>2
    <3>4. ASSUME NEW j \in 1 .. k + 1, s[j] \in S
          PROVE  \E z \in 1 .. Len(g) : g[z] = s[j]
      <4>1. CASE j = k + 1
        BY <3>1, <4>1
      <4>2. CASE j # k + 1
        <5>1. PICK z \in 1 .. Len(f[k]) : f[k][z] = s[j]
          BY <2>3, <2>4, <3>4, <4>2
        <5> QED
          BY <3>1, <5>1
      <4> QED
        BY <4>1, <4>2
    <3>5. Good(k + 1)
      BY <3>1, <3>2, <3>3, <3>4
    <3> QED
      BY <2>1, <3>5
  <2> QED
    BY <2>6, <2>7
<1> HIDE DEF T
<1>6. \A k \in 0 .. Len(s) : k \in T
  BY <1>3, <1>4, <1>5, Upwards
<1>7. Len(s) \in T
  BY <1>3, <1>6
<1> QED
  BY <1>2, <1>7 DEF T

(* What comes first and once, and is selected, is selected first and once. *)
LEMMA SelectedFirst ==
  ASSUME NEW E, NEW s \in Seq(E), NEW S, Len(s) >= 1, s[1] \in S,
         \A j \in 1 .. Len(s) : s[j] = s[1] => j = 1
  PROVE  /\ Selected(s, S) \in Seq(E) /\ Len(Selected(s, S)) >= 1
         /\ \A z \in 1 .. Len(Selected(s, S)) : Selected(s, S)[z] = s[1] <=> z = 1
<1>1. PICK f : Steps(f, s, S) /\ Selected(s, S) = f[Len(s)]
  BY SelectedSteps
<1>2. Selected(s, S) = f[Len(s)]
  BY <1>1
<1> DEFINE Good(k) == /\ f[k] \in Seq(E)
                      /\ k >= 1 => Len(f[k]) >= 1
                      /\ \A z \in 1 .. Len(f[k]) : f[k][z] = s[1] <=> z = 1
                      /\ k = 0 => f[k] = <<>>
           T == {k \in 0 .. Len(s) : Good(k)}
<1>3. Len(s) \in Nat
  OBVIOUS
<1>4. 0 \in T
  <2>1. f[0] = <<>>
    BY <1>1 DEF Steps
  <2>2. f[0] \in Seq(E) /\ Len(f[0]) = 0
    BY <2>1
  <2>3. Good(0)
    BY <2>1, <2>2
  <2> QED
    BY <1>3, <2>3
<1>5. ASSUME NEW k \in 0 .. Len(s) - 1, k \in T PROVE k + 1 \in T
  <2>1. k \in Nat /\ k + 1 \in 0 .. Len(s) /\ k + 1 \in 1 .. Len(s) /\ s[k + 1] \in E
    BY <1>3
  <2>2. f[k + 1] = IF s[k + 1] \in S THEN Append(f[k], s[k + 1]) ELSE f[k]
    BY <1>1 DEF Steps
  <2>3. Good(k)
    BY <1>5
  <2>4. CASE k = 0
    <3>1. f[k + 1] = << s[1] >>
      <4>1. s[k + 1] = s[1] /\ f[k] = <<>>
        BY <2>3, <2>4
      <4> QED
        BY <2>2, <4>1
    <3>2. Len(f[k + 1]) = 1 /\ f[k + 1][1] = s[1] /\ f[k + 1] \in Seq(E)
      BY <2>1, <2>4, <3>1
    <3>3. \A z \in 1 .. Len(f[k + 1]) : z = 1
      BY <3>2
    <3>4. Good(k + 1)
      BY <2>4, <3>2, <3>3
    <3> QED
      BY <2>1, <3>4
  <2>5. CASE k # 0 /\ s[k + 1] \notin S
    <3>1. f[k + 1] = f[k]
      BY <2>2, <2>5
    <3>2. k >= 1 /\ k + 1 # 0
      BY <2>1, <2>5
    <3>3. Good(k + 1)
      BY <2>3, <3>1, <3>2
    <3> QED
      BY <2>1, <3>3
  <2>6. CASE k # 0 /\ s[k + 1] \in S
    <3> DEFINE g == Append(f[k], s[k + 1])
    <3>1. /\ g \in Seq(E) /\ Len(g) = Len(f[k]) + 1 /\ Len(f[k]) \in Nat
          /\ g[Len(f[k]) + 1] = s[k + 1]
          /\ \A z \in 1 .. Len(f[k]) : g[z] = f[k][z]
      BY <2>1, <2>3
    <3>2. f[k + 1] = g
      BY <2>2, <2>6
    <3> HIDE DEF g
    <3>3. k >= 1 /\ k + 1 # 0 /\ k + 1 # 1 /\ Len(f[k]) >= 1 /\ s[k + 1] # s[1]
      BY <2>1, <2>3, <2>6
    <3>4. ASSUME NEW z \in 1 .. Len(g) PROVE g[z] = s[1] <=> z = 1
      <4>1. CASE z = Len(f[k]) + 1
        BY <3>1, <3>3, <4>1
      <4>2. CASE z # Len(f[k]) + 1
        <5>1. z \in 1 .. Len(f[k])
          BY <3>1, <4>2
        <5> QED
          BY <2>3, <3>1, <5>1
      <4> QED
        BY <4>1, <4>2
    <3>5. Len(g) >= 1
      BY <3>1
    <3>6. Good(k + 1)
      BY <3>1, <3>2, <3>3, <3>4, <3>5
    <3> QED
      BY <2>1, <3>6
  <2> QED
    BY <2>4, <2>5, <2>6
<1> HIDE DEF T
<1>6. \A k \in 0 .. Len(s) : k \in T
  BY <1>3, <1>4, <1>5, Upwards
<1>7. Len(s) \in T
  BY <1>3, <1>6
<1> QED
  BY <1>2, <1>7 DEF T

LEMMA UpwardsFrom1 ==
  ASSUME NEW T, NEW n \in Nat, 1 \in T, \A k \in 1 .. n - 1 : k \in T => k + 1 \in T
  PROVE  \A k \in 1 .. n : k \in T
<1> DEFINE U == {k \in Nat : k + 1 \in T \/ k >= n}
<1>1. 0 \in U
  OBVIOUS
<1>2. ASSUME NEW k \in 0 .. n - 1, k \in U PROVE k + 1 \in U
  <2>1. k + 1 \in 1 .. n - 1 \/ k + 1 >= n
    OBVIOUS
  <2>2. k + 1 \in T
    BY <1>2
  <2> QED
    BY <2>1, <2>2
<1> HIDE DEF U
<1>3. \A k \in 0 .. n : k \in U
  BY <1>1, <1>2, Upwards
<1>4. ASSUME NEW k \in 1 .. n PROVE k \in T
  <2>1. k - 1 \in 0 .. n /\ ~(k - 1 >= n) /\ k - 1 + 1 = k
    OBVIOUS
  <2>2. k - 1 \in U
    BY <1>3, <2>1
  <2> QED
    BY <2>1, <2>2 DEF U
<1> QED
  BY <1>4

(* Sequences one after the other are a sequence.                           *)
LEMMA FlattenDef ==
  ASSUME NEW S, NEW s \in Seq(Seq(S)), s # <<>>
  PROVE  \E f : /\ f = [z \in 1 .. Len(s) |-> IF z = 1 THEN s[z] ELSE f[z - 1] \o s[z]]
                /\ f \in [1 .. Len(s) -> Seq(S)]
<1> DEFINE Has == {k \in 1 .. Len(s) : \E f \in [1 .. k -> Seq(S)] :
                     f = [z \in 1 .. k |-> IF z = 1 THEN s[z] ELSE f[z - 1] \o s[z]]}
<1>1. Len(s) \in Nat /\ Len(s) >= 1 /\ \A k \in 1 .. Len(s) : s[k] \in Seq(S)
  OBVIOUS
<1>2. 1 \in Has
  <2> DEFINE f == [z \in 1 .. 1 |-> s[z]]
  <2>1. f \in [1 .. 1 -> Seq(S)]
    <3>1. \A z \in 1 .. 1 : s[z] \in Seq(S)
      BY <1>1
    <3> QED
      BY <3>1
  <2>2. f = [z \in 1 .. 1 |-> IF z = 1 THEN s[z] ELSE f[z - 1] \o s[z]]
    OBVIOUS
  <2>3. \E h \in [1 .. 1 -> Seq(S)] : h = [z \in 1 .. 1 |-> IF z = 1 THEN s[z] ELSE h[z - 1] \o s[z]]
    BY <2>1, <2>2, Zenon
  <2>4. 1 \in 1 .. Len(s)
    BY <1>1
  <2> QED
    BY <2>3, <2>4, Zenon
<1>3. ASSUME NEW k \in 1 .. Len(s) - 1, k \in Has PROVE k + 1 \in Has
  <2>1. PICK g \in [1 .. k -> Seq(S)] :
           g = [z \in 1 .. k |-> IF z = 1 THEN s[z] ELSE g[z - 1] \o s[z]]
    BY <1>3
  <2> DEFINE f == [z \in 1 .. k + 1 |-> IF z = k + 1 THEN g[k] \o s[z] ELSE g[z]]
  <2>2. k \in Nat /\ k >= 1 /\ k + 1 \in 1 .. Len(s)
    BY <1>1
  <2>3. g[k] \in Seq(S) /\ s[k + 1] \in Seq(S)
    BY <2>1, <2>2
  <2>4. g[k] \o s[k + 1] \in Seq(S)
    BY <2>3
  <2>5. f \in [1 .. k + 1 -> Seq(S)]
    <3>1. ASSUME NEW z \in 1 .. k + 1
          PROVE  (IF z = k + 1 THEN g[k] \o s[z] ELSE g[z]) \in Seq(S)
      <4>1. z = k + 1 \/ z \in 1 .. k
        BY <2>2
      <4>2. \A m \in 1 .. k : g[m] \in Seq(S)
        BY <2>1
      <4> QED
        BY <2>4, <4>1, <4>2
    <3> QED
      BY <3>1
  <2>6. ASSUME NEW z \in 1 .. k + 1 PROVE f[z] = IF z = 1 THEN s[z] ELSE f[z - 1] \o s[z]
    <3>1. CASE z = k + 1
      <4>1. z # 1 /\ z - 1 = k /\ k \in 1 .. k + 1 /\ k # k + 1
        BY <2>2, <3>1
      <4>2. f[z] = g[k] \o s[z] /\ f[k] = g[k]
        BY <3>1, <4>1
      <4> HIDE DEF f
      <4> QED
        BY <4>1, <4>2
    <3>2. CASE z # k + 1
      <4>1. z \in 1 .. k /\ f[z] = g[z]
        BY <2>2, <3>2
      <4>2. g[z] = IF z = 1 THEN s[z] ELSE g[z - 1] \o s[z]
        BY <2>1, <4>1
      <4>3. z # 1 => z - 1 \in 1 .. k /\ f[z - 1] = g[z - 1]
        BY <2>2, <4>1
      <4> QED
        BY <4>1, <4>2, <4>3
    <3> QED
      BY <3>1, <3>2
  <2>7. f = [z \in 1 .. k + 1 |-> IF z = 1 THEN s[z] ELSE f[z - 1] \o s[z]]
    BY <2>6
  <2> HIDE DEF f
  <2> QED
    BY <2>2, <2>5, <2>7
<1> HIDE DEF Has
<1>4. \A k \in 1 .. Len(s) : k \in Has
  BY <1>1, <1>2, <1>3, UpwardsFrom1
<1>5. Len(s) \in Has
  BY <1>1, <1>4
<1> QED
  BY <1>5 DEF Has

LEMMA FlattenIn ==
  ASSUME NEW S, NEW s \in Seq(Seq(S))
  PROVE  FlattenSeq(s) \in Seq(S)
<1>1. CASE s = <<>>
  <2>1. Len(s) = 0 /\ <<>> \in Seq(S)
    BY <1>1
  <2>2. FlattenSeq(s) = s
    BY <2>1, Zenon DEF FlattenSeq
  <2> QED
    BY <1>1, <2>1, <2>2
<1>2. CASE s # <<>>
  <2> DEFINE g == CHOOSE f : f = [z \in 1 .. Len(s) |-> IF z = 1 THEN s[z] ELSE f[z - 1] \o s[z]]
  <2>1. \E f : f = [z \in 1 .. Len(s) |-> IF z = 1 THEN s[z] ELSE f[z - 1] \o s[z]]
    <3>1. \E f : /\ f = [z \in 1 .. Len(s) |-> IF z = 1 THEN s[z] ELSE f[z - 1] \o s[z]]
                 /\ f \in [1 .. Len(s) -> Seq(S)]
      BY <1>2, FlattenDef, Zenon
    <3> QED
      BY <3>1, Zenon
  <2>2. g = [z \in 1 .. Len(s) |-> IF z = 1 THEN s[z] ELSE g[z - 1] \o s[z]]
    BY <2>1, Zenon
  <2>3. FlattenSeq(s) = g[Len(s)]
    <3>1. Len(s) # 0
      BY <1>2
    <3> QED
      BY <3>1, Zenon DEF FlattenSeq
  <2> HIDE DEF g
  <2> DEFINE T == {k \in 1 .. Len(s) : g[k] \in Seq(S)}
  <2>4. Len(s) \in Nat /\ Len(s) >= 1 /\ \A k \in 1 .. Len(s) : s[k] \in Seq(S)
    BY <1>2
  <2>5. 1 \in T
    <3>1. 1 \in 1 .. Len(s)
      BY <2>4
    <3>2. g[1] = s[1]
      BY <2>2, <3>1
    <3> QED
      BY <2>4, <3>1, <3>2
  <2>6. ASSUME NEW k \in 1 .. Len(s) - 1, k \in T PROVE k + 1 \in T
    <3>1. k + 1 \in 1 .. Len(s) /\ k + 1 # 1 /\ k + 1 - 1 = k
      BY <2>4
    <3> DEFINE m == k + 1
    <3>2. g[m] = IF m = 1 THEN s[m] ELSE g[m - 1] \o s[m]
      BY <2>2, <3>1
    <3>3. g[k] \in Seq(S) /\ s[k + 1] \in Seq(S)
      BY <2>4, <2>6, <3>1
    <3>4. g[k] \o s[k + 1] \in Seq(S)
      BY <3>3
    <3>5. g[k + 1] \in Seq(S)
      BY <3>1, <3>2, <3>4
    <3> QED
      BY <3>1, <3>5
  <2> HIDE DEF T
  <2>7. \A k \in 1 .. Len(s) : k \in T
    BY <2>4, <2>5, <2>6, UpwardsFrom1
  <2>8. Len(s) \in T
    BY <2>4, <2>7
  <2> QED
    BY <2>3, <2>8 DEF T
<1> QED
  BY <1>1, <1>2

-----------------------------------------------------------------------------
(* The cpusets.                                                            *)

Filled(d, v) == \A f \in {"cpus", "mems"} : v[d][f] # {}

(* The call has the rest of the copying to do, from step k on.             *)
AtStep(r, k) ==
    /\ Len(r.todo) = 7 - k
    /\ \A n \in 1 .. 7 - k : r.todo[n] = Cpuset!Copying[k - 1 + n]

(* What a call has seen at a directory stays true whatever others write:   *)
(* a file that it found full is full, a parent that it read has something, *)
(* and so has a file that it has written.                                  *)
Copies(r, k, v) ==
    /\ k > 1 => "cpus" \in r.empty \/ v[Cpuset!Here(r)]["cpus"] # {}
    /\ k > 2 => "mems" \in r.empty \/ v[Cpuset!Here(r)]["mems"] # {}
    /\ k > 3 => r.par["cpus"] # {}
    /\ k > 4 => r.par["mems"] # {}
    /\ k > 5 => v[Cpuset!Here(r)]["cpus"] # {}

(* A call has filled the path down to where it is.                         *)
Walks(r, v) ==
    /\ r.dir \in Dir \ {Cpuset!Root}
    /\ r.i \in Nat /\ 2 <= r.i /\ r.i <= Len(Path[r.dir]) + 1
    /\ \A n \in 1 .. r.i - 1 : Filled(Path[r.dir][n], v)

Doing(r, ex, v) ==
    /\ r.at \in {"mkdir", "copy", "set"} => Walks(r, v)
    /\ r.at = "copy" =>
          Cpuset!Here(r) \in ex /\ \E k \in Nat : 1 <= k /\ k <= 6 /\ AtStep(r, k) /\ Copies(r, k, v)
    /\ r.at = "set" => r.i = Len(Path[r.dir]) + 1 /\ r.dir \in ex
    /\ r.at = "ok" => \A n \in 1 .. Len(Path[r.dir]) : Filled(Path[r.dir][n], v)

CpusetInv ==
    /\ Cpuset!TypeOK
    /\ \A d \in Dir \ exists : val[d] = Cpuset!Nothing
    /\ Filled(Cpuset!Root, val)
    /\ \A c \in CpusetCaller : Doing(call[c], exists, val)

LEMMA RootFacts ==
  ASSUME NEW d \in Dir
  PROVE  /\ Cpuset!Root \in Dir /\ Len(Path[Cpuset!Root]) = 1
         /\ Path[d] \in Seq(Dir) /\ Len(Path[d]) \in Nat /\ Len(Path[d]) >= 1
         /\ Path[d][1] = Cpuset!Root /\ Path[d][Len(Path[d])] = d
         /\ d # Cpuset!Root => Len(Path[d]) >= 2
<1>1. Cpuset!CpusetAssumption
  BY SettingsAssumption
<1>2. Path \in [Dir -> Seq(Dir)] /\ \A e \in Dir : Len(Path[e]) > 0 /\ Path[e][Len(Path[e])] = e
  BY <1>1 DEF Cpuset!CpusetAssumption
<1>3. /\ Path[d] \in Seq(Dir) /\ Len(Path[d]) \in Nat /\ Len(Path[d]) >= 1
      /\ Path[d][Len(Path[d])] = d /\ Path[d][1] \in Dir
  BY <1>2
<1> DEFINE p == Path[d][1]
<1>4. Path[p] = SubSeq(Path[d], 1, 1)
  <2>1. \A e \in Dir : \A k \in 1 .. Len(Path[e]) : Path[Path[e][k]] = SubSeq(Path[e], 1, k)
    BY <1>1 DEF Cpuset!CpusetAssumption
  <2>2. 1 \in 1 .. Len(Path[d])
    BY <1>3
  <2> QED
    BY <2>1, <2>2
<1>5. Len(Path[p]) = 1
  BY <1>3, <1>4
<1> HIDE DEF p
<1>6. \E e \in Dir : Len(Path[e]) = 1
  BY <1>3, <1>5 DEF p
<1>7. Cpuset!Root \in Dir /\ Len(Path[Cpuset!Root]) = 1
  BY <1>6 DEF Cpuset!Root
<1>8. Path[d][1] = Path[Cpuset!Root][1]
  BY <1>1, <1>7 DEF Cpuset!CpusetAssumption
<1>9. Path[Cpuset!Root][1] = Cpuset!Root
  BY <1>2, <1>7
<1>10. d # Cpuset!Root => Len(Path[d]) # 1
  BY <1>3, <1>8, <1>9
<1> QED
  BY <1>3, <1>7, <1>8, <1>9, <1>10

LEMMA PathFacts ==
  ASSUME NEW d \in Dir, NEW n \in Nat, 2 <= n, n <= Len(Path[d])
  PROVE  /\ Path[d][n] \in Dir \ {Cpuset!Root}
         /\ Cpuset!Parent(Path[d][n]) = Path[d][n - 1] /\ Path[d][n - 1] \in Dir
<1> DEFINE e == Path[d][n]
<1>1. Path[d] \in Seq(Dir) /\ Len(Path[d]) \in Nat
  BY RootFacts
<1>2. e \in Dir /\ Path[d][n - 1] \in Dir /\ n \in 1 .. Len(Path[d])
  BY <1>1
<1>3. Path[e] = SubSeq(Path[d], 1, n)
  BY <1>2, SettingsAssumption DEF Cpuset!CpusetAssumption
<1>4. Len(Path[e]) = n /\ Path[e][n - 1] = Path[d][n - 1]
  BY <1>1, <1>3
<1> HIDE DEF e
<1>5. e # Cpuset!Root
  <2>1. Len(Path[Cpuset!Root]) = 1
    BY RootFacts
  <2>2. ASSUME e = Cpuset!Root PROVE FALSE
    <3>1. Len(Path[e]) = 1
      BY <2>1, <2>2
    <3>2. n = 1
      BY <1>4, <3>1
    <3> QED
      BY <3>2
  <2> QED
    BY <2>2
<1>6. Cpuset!Parent(e) = Path[d][n - 1]
  BY <1>4 DEF Cpuset!Parent
<1> QED
  BY <1>2, <1>5, <1>6 DEF e

LEMMA CopyingIs ==
  /\ Cpuset!Copying[1] = <<"current", "cpus">> /\ Cpuset!Copying[2] = <<"current", "mems">>
  /\ Cpuset!Copying[3] = <<"parent", "cpus">>  /\ Cpuset!Copying[4] = <<"parent", "mems">>
  /\ Cpuset!Copying[5] = <<"write", "cpus">>   /\ Cpuset!Copying[6] = <<"write", "mems">>
  /\ Len(Cpuset!Copying) = 6
  /\ Cpuset!Copying \in Seq({"current", "parent", "write"} \X {"cpus", "mems"})
  BY DEF Cpuset!Copying

(* The directory a call is at, and the one above, which is full.           *)
LEMMA HereFacts ==
  ASSUME NEW r, NEW v, Walks(r, v)
  PROVE  /\ Cpuset!Here(r) \in Dir \ {Cpuset!Root}
         /\ Cpuset!Parent(Cpuset!Here(r)) \in Dir
         /\ Filled(Cpuset!Parent(Cpuset!Here(r)), v)
         /\ r.i <= Len(Path[r.dir]) => Cpuset!Here(r) = Path[r.dir][r.i]
         /\ r.i = Len(Path[r.dir]) + 1 => Cpuset!Here(r) = r.dir /\ Filled(r.dir, v)
<1>1. /\ r.dir \in Dir /\ Path[r.dir] \in Seq(Dir) /\ Len(Path[r.dir]) \in Nat
      /\ Len(Path[r.dir]) >= 2 /\ Path[r.dir][Len(Path[r.dir])] = r.dir
  BY RootFacts DEF Walks
<1> DEFINE n == IF r.i > Len(Path[r.dir]) THEN r.i - 1 ELSE r.i
<1>2. /\ n \in Nat /\ 2 <= n /\ n <= Len(Path[r.dir]) /\ n - 1 \in 1 .. r.i - 1
      /\ r.i <= Len(Path[r.dir]) => n = r.i
      /\ r.i = Len(Path[r.dir]) + 1 => n = Len(Path[r.dir]) /\ n \in 1 .. r.i - 1
  <2>1. r.i \in Nat /\ 2 <= r.i /\ r.i <= Len(Path[r.dir]) + 1
    BY DEF Walks
  <2> DEFINE l == Len(Path[r.dir])
  <2> HIDE DEF l
  <2>2. l \in Nat /\ l >= 2 /\ r.i <= l + 1 /\ n = IF r.i > l THEN r.i - 1 ELSE r.i
    BY <1>1, <2>1 DEF l
  <2> HIDE DEF n
  <2>3. CASE r.i > l
    BY <2>1, <2>2, <2>3 DEF l
  <2>4. CASE ~(r.i > l)
    BY <2>1, <2>2, <2>4 DEF l
  <2> QED
    BY <2>3, <2>4
<1>3. Cpuset!Here(r) = Path[r.dir][n]
  BY DEF Cpuset!Here
<1> HIDE DEF n
<1>4. /\ Path[r.dir][n] \in Dir \ {Cpuset!Root} /\ Path[r.dir][n - 1] \in Dir
      /\ Cpuset!Parent(Path[r.dir][n]) = Path[r.dir][n - 1]
  BY <1>1, <1>2, PathFacts
<1> QED
  BY <1>1, <1>2, <1>3, <1>4 DEF Walks

Keeps(v, w) == \A d \in Dir, f \in {"cpus", "mems"} : v[d][f] # {} => w[d][f] # {}

(* What has been seen lasts as long as nothing is emptied.                 *)
LEMMA StillDoing ==
  ASSUME NEW r, NEW ex, NEW fx, NEW v, NEW w, r.dir \in Dir,
         Doing(r, ex, v), ex \subseteq fx, Keeps(v, w)
  PROVE  Doing(r, fx, w)
<1>1. Path[r.dir] \in Seq(Dir)
  BY RootFacts
<1>2. \A n \in 1 .. Len(Path[r.dir]) : Path[r.dir][n] \in Dir
  BY <1>1
<1>3. \A d \in Dir : Filled(d, v) => Filled(d, w)
  BY DEF Filled, Keeps
<1>4. ASSUME Walks(r, v) PROVE Walks(r, w)
  <2>1. Len(Path[r.dir]) \in Nat
    BY <1>1
  <2>2. \A n \in 1 .. r.i - 1 : n \in 1 .. Len(Path[r.dir])
    BY <1>4, <2>1 DEF Walks
  <2> QED
    BY <1>2, <1>3, <1>4, <2>2 DEF Walks
<1>5. ASSUME Walks(r, v), NEW k, Copies(r, k, v) PROVE Copies(r, k, w)
  <2>1. Cpuset!Here(r) \in Dir
    BY <1>5, HereFacts
  <2> QED
    BY <1>5, <2>1 DEF Copies, Keeps
<1> QED
  BY <1>2, <1>3, <1>4, <1>5 DEF Doing

(* After a step of the copying.                                            *)
LEMMA OnwardsDoes ==
  ASSUME NEW r \in Cpuset!Call, NEW ex, NEW v, r.at = "copy", Walks(r, v), Cpuset!Here(r) \in ex,
         NEW k \in Nat, 1 <= k, k <= 6, AtStep(r, k),
         k < 6 => Copies(r, k + 1, v), k = 6 => Filled(Cpuset!Here(r), v)
  PROVE  /\ Cpuset!Onwards(r) \in Cpuset!Call /\ Doing(Cpuset!Onwards(r), ex, v)
         /\ Cpuset!Onwards(r).at = "copy" => Cpuset!Onwards(r).todo # <<>>
<1>1. /\ r.todo \in Seq({"current", "parent", "write"} \X {"cpus", "mems"}) /\ r.dir \in Dir
      /\ r.i \in Nat /\ r.todo # <<>> /\ Len(r.todo) = 7 - k
  BY DEF Cpuset!Call, Cpuset!File, AtStep
<1>2. CASE k < 6
  <2> DEFINE s == [r EXCEPT !.todo = Tail(@)]
  <2>1. Cpuset!Onwards(r) = s
    BY <1>1, <1>2 DEF Cpuset!Onwards
  <2>2. /\ s \in Cpuset!Call /\ s.at = "copy" /\ s.dir = r.dir /\ s.i = r.i /\ s.todo = Tail(r.todo)
        /\ s.empty = r.empty /\ s.par = r.par
    <3>1. Tail(r.todo) \in Seq({"current", "parent", "write"} \X {"cpus", "mems"})
      BY <1>1
    <3> QED
      BY <3>1 DEF Cpuset!Call, Cpuset!File
  <2> HIDE DEF s
  <2>3. s.todo # <<>>
    <3>1. Len(Tail(r.todo)) = 7 - k - 1
      BY <1>1
    <3>2. 7 - k - 1 # 0
      BY <1>2
    <3>3. Len(s.todo) # 0
      BY <2>2, <3>1, <3>2
    <3> QED
      BY <3>3
  <2>4. AtStep(s, k + 1)
    <3>1. Len(s.todo) = 7 - (k + 1)
      BY <1>1, <1>2, <2>2
    <3>2. ASSUME NEW n \in 1 .. 7 - (k + 1) PROVE s.todo[n] = Cpuset!Copying[k + 1 - 1 + n]
      <4>1. n + 1 \in 1 .. 7 - k /\ k - 1 + (n + 1) = k + 1 - 1 + n
        OBVIOUS
      <4>2. s.todo[n] = r.todo[n + 1]
        BY <1>1, <2>2, <4>1
      <4>3. r.todo[n + 1] = Cpuset!Copying[k - 1 + (n + 1)]
        BY <4>1 DEF AtStep
      <4> QED
        BY <4>1, <4>2, <4>3
    <3> QED
      BY <3>1, <3>2 DEF AtStep
  <2>5. Cpuset!Here(s) = Cpuset!Here(r)
    BY <2>2 DEF Cpuset!Here
  <2>6. Copies(s, k + 1, v)
    BY <1>2, <2>2, <2>5 DEF Copies
  <2>7. Walks(s, v)
    BY <2>2 DEF Walks
  <2> QED
    BY <1>2, <2>1, <2>2, <2>3, <2>4, <2>5, <2>6, <2>7 DEF Doing
<1>3. CASE k = 6 /\ r.i <= Len(Path[r.dir])
  <2> DEFINE s == [r EXCEPT !.at = "mkdir", !.todo = <<>>, !.i = @ + 1, !.empty = {},
                            !.par = Cpuset!Nothing]
  <2>1. Cpuset!Onwards(r) = s
    BY <1>1, <1>3 DEF Cpuset!Onwards
  <2>2. s \in Cpuset!Call /\ s.at = "mkdir" /\ s.dir = r.dir /\ s.i = r.i + 1
    <3>1. Cpuset!Nothing \in [{"cpus", "mems"} -> SUBSET Cpu] /\ r.i + 1 \in Nat
      BY <1>1 DEF Cpuset!Nothing, Cpuset!File
    <3>2. <<>> \in Seq({"current", "parent", "write"} \X {"cpus", "mems"})
      OBVIOUS
    <3> QED
      BY <3>1, <3>2 DEF Cpuset!Call, Cpuset!File
  <2> HIDE DEF s
  <2>3. Filled(Path[r.dir][r.i], v)
    BY <1>3, HereFacts
  <2>4. Walks(s, v)
    <3>1. r.dir \in Dir \ {Cpuset!Root} /\ 2 <= s.i /\ s.i <= Len(Path[r.dir]) + 1 /\ s.i \in Nat
      <4>1. Len(Path[r.dir]) \in Nat /\ r.dir \in Dir \ {Cpuset!Root} /\ 2 <= r.i
        BY <1>1, RootFacts DEF Walks
      <4> QED
        BY <1>1, <1>3, <2>2, <4>1
    <3>2. \A n \in 1 .. s.i - 1 : n = r.i \/ n \in 1 .. r.i - 1
      BY <1>1, <2>2
    <3> QED
      BY <2>2, <2>3, <3>1, <3>2 DEF Walks
  <2> QED
    BY <2>1, <2>2, <2>4 DEF Doing
<1>4. CASE k = 6 /\ ~(r.i <= Len(Path[r.dir]))
  <2> DEFINE s == [r EXCEPT !.at = "set", !.todo = << <<"write", "cpus">>, <<"write", "mems">> >>,
                            !.empty = {}, !.par = Cpuset!Nothing]
  <2>1. Cpuset!Onwards(r) = s
    BY <1>1, <1>4 DEF Cpuset!Onwards
  <2>2. << <<"write", "cpus">>, <<"write", "mems">> >>
          \in Seq({"current", "parent", "write"} \X {"cpus", "mems"})
    OBVIOUS
  <2>3. s \in Cpuset!Call /\ s.at = "set" /\ s.dir = r.dir /\ s.i = r.i
    BY <1>1, <2>2 DEF Cpuset!Call, Cpuset!Nothing, Cpuset!File
  <2> HIDE DEF s
  <2>4. r.i = Len(Path[r.dir]) + 1
    <3>1. Len(Path[r.dir]) \in Nat /\ r.i <= Len(Path[r.dir]) + 1
      BY <1>1, RootFacts DEF Walks
    <3> QED
      BY <1>1, <1>4, <3>1
  <2>5. r.dir \in ex
    BY <2>4, HereFacts
  <2> QED
    BY <2>1, <2>3, <2>4, <2>5 DEF Doing, Walks
<1> QED
  BY <1>2, <1>3, <1>4

(* What a write that the kernel takes does to the files.                   *)
LEMMA WriteKeeps ==
  ASSUME CpusetInv, NEW d \in exists \ {Cpuset!Root}, NEW f \in {"cpus", "mems"},
         NEW v \in SUBSET Cpu, v # {}, Cpuset!MayWrite(d, f, v),
         val' = [val EXCEPT ![d][f] = v], UNCHANGED exists
  PROVE  /\ val' \in [Dir -> [{"cpus", "mems"} -> SUBSET Cpu]] /\ Keeps(val, val')
         /\ val'[d][f] = v
         /\ \A e \in exists, g \in {"cpus", "mems"} :
               e # Cpuset!Root => val'[e][g] \subseteq val'[Cpuset!Parent(e)][g]
         /\ \A e \in Dir \ exists' : val'[e] = Cpuset!Nothing
         /\ Filled(Cpuset!Root, val')
<1>1. /\ exists \subseteq Dir /\ val \in [Dir -> [{"cpus", "mems"} -> SUBSET Cpu]]
      /\ \A e \in exists, g \in {"cpus", "mems"} :
            e # Cpuset!Root => val[e][g] \subseteq val[Cpuset!Parent(e)][g]
      /\ \A e \in Dir \ exists : val[e] = Cpuset!Nothing
      /\ Filled(Cpuset!Root, val)
  BY DEF CpusetInv, Cpuset!TypeOK, Cpuset!File
<1>2. /\ val' \in [Dir -> [{"cpus", "mems"} -> SUBSET Cpu]]
      /\ \A e \in Dir, g \in {"cpus", "mems"} :
            val'[e][g] = IF e = d /\ g = f THEN v ELSE val[e][g]
  BY <1>1
<1>3. ASSUME NEW e \in exists, NEW g \in {"cpus", "mems"}, e # Cpuset!Root
      PROVE  val'[e][g] \subseteq val'[Cpuset!Parent(e)][g]
  <2>1. Cpuset!Parent(e) \in Dir
    <3>1. Path[e] \in Seq(Dir) /\ Len(Path[e]) \in Nat /\ Len(Path[e]) >= 2
          /\ Path[e][Len(Path[e])] = e
      BY <1>1, <1>3, RootFacts
    <3> QED
      BY <1>1, <3>1, PathFacts
  <2>2. val[e][g] \subseteq val[Cpuset!Parent(e)][g]
    BY <1>1, <1>3
  <2>3. CASE e = d /\ g = f
    BY <1>2, <2>1, <2>3 DEF Cpuset!MayWrite
  <2>4. CASE ~(e = d /\ g = f) /\ Cpuset!Parent(e) = d /\ g = f
    <3>1. e \in Cpuset!Children(d)
      BY <1>3, <2>4 DEF Cpuset!Children
    <3>2. val[e][f] \subseteq v
      BY <3>1 DEF Cpuset!MayWrite
    <3> QED
      BY <1>1, <1>2, <2>1, <2>4, <3>2
  <2>5. CASE ~(e = d /\ g = f) /\ ~(Cpuset!Parent(e) = d /\ g = f)
    BY <1>1, <1>2, <2>1, <2>2, <2>5
  <2> QED
    BY <2>3, <2>4, <2>5
<1>4. \A e \in Dir \ exists' : val'[e] = Cpuset!Nothing
  BY <1>1
<1>5. Filled(Cpuset!Root, val') /\ Keeps(val, val')
  BY <1>1, <1>2, RootFacts DEF Filled, Keeps
<1> QED
  BY <1>1, <1>2, <1>3, <1>4, <1>5

(* A step of one call, from what it does to the files and to its record.   *)
LEMMA CpusetStepGood ==
  ASSUME CpusetInv, NEW c \in CpusetCaller, NEW r \in Cpuset!Call,
         call' = [call EXCEPT ![c] = r],
         r.at = "copy" => r.todo # <<>>, Doing(r, exists', val'),
         exists \subseteq exists', exists' \subseteq Dir,
         val' \in [Dir -> [{"cpus", "mems"} -> SUBSET Cpu]], Keeps(val, val'),
         \A e \in exists', g \in {"cpus", "mems"} :
               e # Cpuset!Root => val'[e][g] \subseteq val'[Cpuset!Parent(e)][g],
         \A e \in Dir \ exists' : val'[e] = Cpuset!Nothing,
         Filled(Cpuset!Root, val')
  PROVE  CpusetInv'
<1>1. /\ call \in [CpusetCaller -> Cpuset!Call]
      /\ \A k \in CpusetCaller : call[k].at = "copy" => call[k].todo # <<>>
      /\ \A k \in CpusetCaller : Doing(call[k], exists, val)
  BY DEF CpusetInv, Cpuset!TypeOK
<1>2. /\ call' \in [CpusetCaller -> Cpuset!Call]
      /\ \A k \in CpusetCaller : call'[k] = IF k = c THEN r ELSE call[k]
  BY <1>1
<1>3. \A k \in CpusetCaller : call'[k].at = "copy" => call'[k].todo # <<>>
  BY <1>1, <1>2
<1>4. ASSUME NEW k \in CpusetCaller PROVE Doing(call'[k], exists', val')
  <2>1. CASE k = c
    BY <1>2, <2>1
  <2>2. CASE k # c
    <3>1. call[k].dir \in Dir
      BY <1>1 DEF Cpuset!Call
    <3>2. Doing(call[k], exists', val')
      BY <1>1, <3>1, StillDoing
    <3> QED
      BY <1>2, <2>2, <3>2
  <2> QED
    BY <2>1, <2>2
<1>5. Cpuset!TypeOK'
  BY <1>2, <1>3 DEF Cpuset!TypeOK, Cpuset!File
<1> QED
  BY <1>4, <1>5 DEF CpusetInv

LEMMA IdleFacts ==
  ASSUME NEW r \in {"idle", "err"}, NEW ex, NEW v
  PROVE  /\ [Cpuset!Idle EXCEPT !.at = r] \in Cpuset!Call /\ Cpuset!Idle \in Cpuset!Call
         /\ [Cpuset!Idle EXCEPT !.at = r].at = r
         /\ Doing([Cpuset!Idle EXCEPT !.at = r], ex, v)
<1>1. Cpuset!Idle \in Cpuset!Call
  <2>1. Dir # {} => Cpuset!Root \in Dir
    BY RootFacts
  <2>2. Dir # {}
    <3>1. Cpuset!CpusetAssumption
      BY SettingsAssumption
    <3> QED
      BY <3>1 DEF Cpuset!CpusetAssumption
  <2>3. <<>> \in Seq({"current", "parent", "write"} \X Cpuset!File)
    OBVIOUS
  <2>4. Cpuset!Nothing \in [Cpuset!File -> SUBSET Cpu]
    BY DEF Cpuset!Nothing
  <2> QED
    BY <2>1, <2>2, <2>3, <2>4 DEF Cpuset!Idle, Cpuset!Call
<1> DEFINE s == [Cpuset!Idle EXCEPT !.at = r]
<1>2. s \in Cpuset!Call /\ s.at = r
  BY <1>1 DEF Cpuset!Call
<1> HIDE DEF s
<1>3. Doing(s, ex, v)
  BY <1>2 DEF Doing
<1> QED
  BY <1>1, <1>2, <1>3 DEF s

(* The files stay: only the call moves, and directories are added.         *)
LEMMA MoveGood ==
  ASSUME CpusetInv, NEW c \in CpusetCaller, NEW r \in Cpuset!Call,
         call' = [call EXCEPT ![c] = r], UNCHANGED val,
         r.at = "copy" => r.todo # <<>>, Doing(r, exists', val'),
         exists \subseteq exists', exists' \subseteq Dir
  PROVE  CpusetInv'
<1>1. /\ val \in [Dir -> [{"cpus", "mems"} -> SUBSET Cpu]]
      /\ \A e \in exists, g \in {"cpus", "mems"} :
            e # Cpuset!Root => val[e][g] \subseteq val[Cpuset!Parent(e)][g]
      /\ \A e \in Dir \ exists : val[e] = Cpuset!Nothing
      /\ Filled(Cpuset!Root, val)
  BY DEF CpusetInv, Cpuset!TypeOK, Cpuset!File
<1>2. Keeps(val, val') /\ Filled(Cpuset!Root, val') /\ val' = val
  BY <1>1 DEF Keeps, Filled
<1>3. ASSUME NEW e \in exists', NEW g \in {"cpus", "mems"}, e # Cpuset!Root
      PROVE  val'[e][g] \subseteq val'[Cpuset!Parent(e)][g]
  <2>1. CASE e \in exists
    BY <1>1, <1>2, <1>3, <2>1
  <2>2. CASE e \notin exists
    <3>1. val[e] = Cpuset!Nothing
      BY <1>1, <2>2
    <3>2. val[e][g] = {}
      BY <3>1 DEF Cpuset!Nothing, Cpuset!File
    <3> QED
      BY <1>2, <3>2
  <2> QED
    BY <2>1, <2>2
<1>4. \A e \in Dir \ exists' : val'[e] = Cpuset!Nothing
  BY <1>1, <1>2
<1>5. val' \in [Dir -> [{"cpus", "mems"} -> SUBSET Cpu]]
  BY <1>1, <1>2
<1> QED
  BY <1>2, <1>3, <1>4, <1>5, CpusetStepGood

LEMMA CpusetBegin ==
  ASSUME CpusetInv, NEW c \in CpusetCaller, Cpuset!Begin(c)
  PROVE  CpusetInv'
<1>1. PICK m \in CpusetMenu :
         Cpuset!Set(c, [Cpuset!Idle EXCEPT !.at = "mkdir", !.dir = m.dir,
                          !.req = [f \in Cpuset!File |-> IF f = "cpus" THEN m.cpus ELSE m.mems]])
  BY DEF Cpuset!Begin
<1>2. m.dir \in Dir \ {Cpuset!Root} /\ m.cpus \in SUBSET Cpu /\ m.mems \in SUBSET Cpu
  <2>1. Cpuset!CpusetAssumption
    BY SettingsAssumption
  <2>2. m \in [dir : Dir \ {Cpuset!Root}, cpus : SUBSET Cpu, mems : SUBSET Cpu]
    BY <2>1 DEF Cpuset!CpusetAssumption
  <2> QED
    BY <2>2
<1> DEFINE q == [f \in Cpuset!File |-> IF f = "cpus" THEN m.cpus ELSE m.mems]
           r == [Cpuset!Idle EXCEPT !.at = "mkdir", !.dir = m.dir, !.req = q]
<1>3. q \in [Cpuset!File -> SUBSET Cpu]
  BY <1>2
<1>4. call' = [call EXCEPT ![c] = r]
  BY <1>1 DEF Cpuset!Set
<1> HIDE DEF q
<1>5. r \in Cpuset!Call /\ r.at = "mkdir" /\ r.dir = m.dir /\ r.i = 2
  BY <1>2, <1>3, IdleFacts DEF Cpuset!Call, Cpuset!Idle
<1> HIDE DEF r
<1>6. Walks(r, val)
  <2>1. Len(Path[r.dir]) \in Nat /\ Len(Path[r.dir]) >= 2 /\ Path[r.dir][1] = Cpuset!Root
    BY <1>2, <1>5, RootFacts
  <2>2. \A n \in 1 .. r.i - 1 : n = 1
    BY <1>5
  <2>3. Filled(Cpuset!Root, val)
    BY DEF CpusetInv
  <2> QED
    BY <1>2, <1>5, <2>1, <2>2, <2>3 DEF Walks
<1>7. UNCHANGED val /\ UNCHANGED exists
  BY DEF Cpuset!Begin
<1>8. Doing(r, exists', val')
  BY <1>5, <1>6, <1>7 DEF Doing
<1>9. exists \subseteq Dir
  BY DEF CpusetInv, Cpuset!TypeOK
<1> QED
  BY <1>4, <1>5, <1>7, <1>8, <1>9, MoveGood

(* What the invariant says of a call that is under way.                    *)
LEMMA DoingIs ==
  ASSUME CpusetInv, NEW c \in CpusetCaller
  PROVE  /\ call[c] \in Cpuset!Call /\ Doing(call[c], exists, val)
         /\ exists \subseteq Dir /\ val \in [Dir -> [{"cpus", "mems"} -> SUBSET Cpu]]
         /\ call[c].at \in {"mkdir", "copy", "set"} =>
               /\ Walks(call[c], val) /\ Cpuset!Here(call[c]) \in Dir \ {Cpuset!Root}
               /\ Cpuset!Parent(Cpuset!Here(call[c])) \in Dir
               /\ Filled(Cpuset!Parent(Cpuset!Here(call[c])), val)
<1>1. /\ call[c] \in Cpuset!Call /\ Doing(call[c], exists, val)
      /\ exists \subseteq Dir /\ val \in [Dir -> [{"cpus", "mems"} -> SUBSET Cpu]]
  BY DEF CpusetInv, Cpuset!TypeOK, Cpuset!File
<1>2. call[c].at \in {"mkdir", "copy", "set"} => Walks(call[c], val)
  BY <1>1 DEF Doing
<1> QED
  BY <1>1, <1>2, HereFacts

LEMMA CpusetMkdir ==
  ASSUME CpusetInv, NEW c \in CpusetCaller, Cpuset!Mkdir(c)
  PROVE  CpusetInv'
<1> DEFINE r == [call[c] EXCEPT !.at = "copy", !.todo = Cpuset!Copying, !.empty = {},
                                !.par = Cpuset!Nothing]
<1>1. /\ call[c].at = "mkdir" /\ exists' = exists \cup {Cpuset!Here(call[c])}
      /\ call' = [call EXCEPT ![c] = r] /\ UNCHANGED val
  BY DEF Cpuset!Mkdir, Cpuset!Set
<1>2. /\ call[c] \in Cpuset!Call /\ exists \subseteq Dir
      /\ Walks(call[c], val) /\ Cpuset!Here(call[c]) \in Dir
  BY <1>1, DoingIs
<1>3. /\ r \in Cpuset!Call /\ r.at = "copy" /\ r.dir = call[c].dir /\ r.i = call[c].i
      /\ r.todo = Cpuset!Copying
  <2>1. Cpuset!Nothing \in [Cpuset!File -> SUBSET Cpu]
    BY DEF Cpuset!Nothing
  <2>2. Cpuset!Copying \in Seq({"current", "parent", "write"} \X Cpuset!File)
    BY CopyingIs DEF Cpuset!File
  <2> QED
    BY <1>2, <2>1, <2>2 DEF Cpuset!Call
<1> HIDE DEF r
<1>4. Walks(r, val') /\ Cpuset!Here(r) = Cpuset!Here(call[c])
  BY <1>1, <1>2, <1>3 DEF Walks, Cpuset!Here
<1>5. AtStep(r, 1) /\ Copies(r, 1, val')
  BY <1>3, CopyingIs DEF AtStep, Copies
<1>6. Doing(r, exists', val')
  BY <1>1, <1>3, <1>4, <1>5 DEF Doing
<1>7. r.todo # <<>>
  BY <1>3, CopyingIs
<1> QED
  BY <1>1, <1>2, <1>3, <1>6, <1>7, MoveGood

(* A call of the copying is at one of its six steps, at one directory.     *)
LEMMA CopyIs ==
  ASSUME CpusetInv, NEW c \in CpusetCaller, call[c].at = "copy"
  PROVE  \E k \in Nat :
           /\ 1 <= k /\ k <= 6 /\ AtStep(call[c], k) /\ Copies(call[c], k, val)
           /\ Head(call[c].todo) = Cpuset!Copying[k]
           /\ Cpuset!Here(call[c]) \in exists
<1>1. PICK k \in Nat : 1 <= k /\ k <= 6 /\ AtStep(call[c], k) /\ Copies(call[c], k, val)
  BY DoingIs DEF Doing
<1>2. Cpuset!Here(call[c]) \in exists
  BY DoingIs DEF Doing
<1>3. call[c].todo \in Seq({"current", "parent", "write"} \X Cpuset!File) /\ call[c].todo # <<>>
  BY DoingIs DEF CpusetInv, Cpuset!TypeOK, Cpuset!Call
<1>4. 1 \in 1 .. 7 - k /\ k - 1 + 1 = k
  BY <1>1
<1>5. call[c].todo[1] = Cpuset!Copying[k]
  BY <1>1, <1>4 DEF AtStep
<1>6. Head(call[c].todo) = call[c].todo[1]
  BY <1>3
<1> QED
  BY <1>1, <1>2, <1>5, <1>6

LEMMA CpusetReadCurrent ==
  ASSUME CpusetInv, NEW c \in CpusetCaller, Cpuset!ReadCurrent(c)
  PROVE  CpusetInv'
<1> DEFINE f == Head(call[c].todo)[2]
           d == Cpuset!Here(call[c])
           m == IF val[d][f] = {} THEN call[c].empty \cup {f} ELSE call[c].empty
           s == [call[c] EXCEPT !.empty = m]
<1>1. /\ call[c].at = "copy" /\ Head(call[c].todo)[1] = "current"
      /\ Cpuset!Set(c, Cpuset!Onwards([call[c] EXCEPT !.empty =
                          IF val[d][f] = {} THEN @ \cup {f} ELSE @]))
      /\ UNCHANGED <<exists, val>>
  BY DEF Cpuset!ReadCurrent
<1>2. call' = [call EXCEPT ![c] = Cpuset!Onwards(s)]
  BY <1>1 DEF Cpuset!Set
<1>3. PICK k \in Nat : /\ 1 <= k /\ k <= 6 /\ AtStep(call[c], k) /\ Copies(call[c], k, val)
                       /\ Head(call[c].todo) = Cpuset!Copying[k] /\ d \in exists
  BY <1>1, CopyIs
<1>4. k \in {1, 2} /\ (k = 1 => f = "cpus") /\ (k = 2 => f = "mems")
  <2>1. k = 1 \/ k = 2 \/ k = 3 \/ k = 4 \/ k = 5 \/ k = 6
    BY <1>3
  <2> QED
    BY <1>1, <1>3, <2>1, CopyingIs
<1>5. call[c] \in Cpuset!Call /\ Walks(call[c], val) /\ call[c].empty \subseteq {"cpus", "mems"}
  BY <1>1, DoingIs DEF Cpuset!Call, Cpuset!File
<1>6. m \subseteq {"cpus", "mems"} /\ call[c].empty \subseteq m /\ (f \in m \/ val[d][f] # {})
  BY <1>4, <1>5
<1> HIDE DEF m, d, f
<1>7. /\ s \in Cpuset!Call /\ s.at = "copy" /\ s.todo = call[c].todo /\ s.empty = m
      /\ s.dir = call[c].dir /\ s.i = call[c].i /\ s.par = call[c].par
  BY <1>1, <1>5, <1>6 DEF Cpuset!Call, Cpuset!File
<1> HIDE DEF s
<1>8. Cpuset!Here(s) = d /\ Walks(s, val) /\ AtStep(s, k)
  BY <1>3, <1>5, <1>7 DEF d, Cpuset!Here, Walks, AtStep
<1>9. Copies(s, k + 1, val)
  <2>1. k = 1 \/ k = 2
    BY <1>4
  <2>2. CASE k = 1
    BY <1>4, <1>6, <1>7, <1>8, <2>2 DEF Copies
  <2>3. CASE k = 2
    <3>1. "cpus" \in m \/ val[d]["cpus"] # {}
      BY <1>3, <1>6, <2>3 DEF Copies, d
    <3>2. "mems" \in m \/ val[d]["mems"] # {}
      BY <1>4, <1>6, <2>3
    <3> QED
      BY <1>7, <1>8, <2>3, <3>1, <3>2 DEF Copies
  <2> QED
    BY <2>1, <2>2, <2>3
<1>10. k # 6
  BY <1>4
<1>11. /\ Cpuset!Onwards(s) \in Cpuset!Call /\ Doing(Cpuset!Onwards(s), exists, val)
       /\ Cpuset!Onwards(s).at = "copy" => Cpuset!Onwards(s).todo # <<>>
  BY <1>3, <1>7, <1>8, <1>9, <1>10, OnwardsDoes
<1>12. exists \subseteq Dir /\ UNCHANGED exists /\ UNCHANGED val
  BY <1>1, DoingIs
<1> QED
  BY <1>2, <1>11, <1>12, MoveGood

LEMMA CpusetReadParent ==
  ASSUME CpusetInv, NEW c \in CpusetCaller, Cpuset!ReadParent(c)
  PROVE  CpusetInv'
<1> DEFINE f == Head(call[c].todo)[2]
           d == Cpuset!Here(call[c])
           w == val[Cpuset!Parent(d)][f]
           s == [call[c] EXCEPT !.par[f] = w]
<1>1. /\ call[c].at = "copy" /\ Head(call[c].todo)[1] = "parent"
      /\ call' = [call EXCEPT ![c] = Cpuset!Onwards(s)]
      /\ UNCHANGED <<exists, val>>
  BY DEF Cpuset!ReadParent, Cpuset!Set
<1>2. PICK k \in Nat : /\ 1 <= k /\ k <= 6 /\ AtStep(call[c], k) /\ Copies(call[c], k, val)
                       /\ Head(call[c].todo) = Cpuset!Copying[k] /\ d \in exists
  BY <1>1, CopyIs
<1>3. (k = 3 /\ f = "cpus") \/ (k = 4 /\ f = "mems")
  <2>1. k = 1 \/ k = 2 \/ k = 3 \/ k = 4 \/ k = 5 \/ k = 6
    BY <1>2
  <2> QED
    BY <1>1, <1>2, <2>1, CopyingIs
<1>4. /\ call[c] \in Cpuset!Call /\ Walks(call[c], val)
      /\ call[c].par \in [{"cpus", "mems"} -> SUBSET Cpu]
      /\ w \in SUBSET Cpu /\ w # {}
  <2>1. /\ Cpuset!Parent(d) \in Dir /\ Filled(Cpuset!Parent(d), val)
        /\ val \in [Dir -> [{"cpus", "mems"} -> SUBSET Cpu]]
        /\ call[c] \in Cpuset!Call /\ Walks(call[c], val)
    BY <1>1, DoingIs
  <2>2. f \in {"cpus", "mems"}
    BY <1>3
  <2> QED
    BY <2>1, <2>2 DEF Filled, Cpuset!Call, Cpuset!File
<1> HIDE DEF w, d, f
<1>5. /\ s \in Cpuset!Call /\ s.at = "copy" /\ s.todo = call[c].todo
      /\ s.empty = call[c].empty /\ s.dir = call[c].dir /\ s.i = call[c].i
      /\ s.par = [call[c].par EXCEPT ![f] = w]
  <2>1. [call[c].par EXCEPT ![f] = w] \in [{"cpus", "mems"} -> SUBSET Cpu]
    BY <1>3, <1>4
  <2> QED
    BY <1>1, <1>4, <2>1 DEF Cpuset!Call, Cpuset!File
<1>6. /\ s.par[f] # {}
      /\ \A g \in {"cpus", "mems"} : call[c].par[g] # {} => s.par[g] # {}
  BY <1>3, <1>4, <1>5
<1> HIDE DEF s
<1>7. Cpuset!Here(s) = d /\ Walks(s, val) /\ AtStep(s, k) /\ Cpuset!Here(call[c]) = d
  BY <1>2, <1>4, <1>5 DEF d, Cpuset!Here, Walks, AtStep
<1>8. Copies(s, k + 1, val)
  <2>1. CASE k = 3 /\ f = "cpus"
    BY <1>2, <1>5, <1>6, <1>7, <2>1 DEF Copies
  <2>2. CASE k = 4 /\ f = "mems"
    BY <1>2, <1>5, <1>6, <1>7, <2>2 DEF Copies
  <2> QED
    BY <1>3, <2>1, <2>2
<1>9. k # 6
  BY <1>3
<1>10. /\ Cpuset!Onwards(s) \in Cpuset!Call /\ Doing(Cpuset!Onwards(s), exists, val)
       /\ Cpuset!Onwards(s).at = "copy" => Cpuset!Onwards(s).todo # <<>>
  BY <1>2, <1>5, <1>7, <1>8, <1>9, OnwardsDoes
<1>11. exists \subseteq Dir /\ UNCHANGED exists /\ UNCHANGED val
  BY <1>1, DoingIs
<1> QED
  BY <1>1, <1>10, <1>11, MoveGood

(* A write to a file is taken, or the call ends with an error.             *)
LEMMA WriteGood ==
  ASSUME CpusetInv, NEW c \in CpusetCaller, NEW d \in exists \ {Cpuset!Root},
         NEW f \in {"cpus", "mems"}, NEW w \in SUBSET Cpu, w # {}, NEW r \in Cpuset!Call,
         Cpuset!Write(c, d, f, w, r), UNCHANGED exists, r.at = "copy" => r.todo # <<>>,
         Keeps(val, val') /\ val'[d][f] = w => Doing(r, exists', val')
  PROVE  CpusetInv'
<1>1. CASE Cpuset!MayWrite(d, f, w)
  <2>1. val' = [val EXCEPT ![d][f] = w] /\ call' = [call EXCEPT ![c] = r]
    BY <1>1 DEF Cpuset!Write, Cpuset!Set
  <2>2. /\ val' \in [Dir -> [{"cpus", "mems"} -> SUBSET Cpu]] /\ Keeps(val, val')
        /\ val'[d][f] = w
        /\ \A e \in exists, g \in {"cpus", "mems"} :
              e # Cpuset!Root => val'[e][g] \subseteq val'[Cpuset!Parent(e)][g]
        /\ \A e \in Dir \ exists' : val'[e] = Cpuset!Nothing
        /\ Filled(Cpuset!Root, val')
    BY <1>1, <2>1, WriteKeeps
  <2>3. \A e \in exists', g \in {"cpus", "mems"} :
              e # Cpuset!Root => val'[e][g] \subseteq val'[Cpuset!Parent(e)][g]
    BY <2>2
  <2>4. Doing(r, exists', val') /\ exists \subseteq exists' /\ exists' \subseteq Dir
    BY <2>2 DEF CpusetInv, Cpuset!TypeOK
  <2> QED
    BY <2>1, <2>2, <2>3, <2>4, CpusetStepGood
<1>2. CASE ~Cpuset!MayWrite(d, f, w)
  <2> DEFINE s == [Cpuset!Idle EXCEPT !.at = "err"]
  <2>1. UNCHANGED val /\ call' = [call EXCEPT ![c] = s]
    BY <1>2 DEF Cpuset!Write, Cpuset!Set
  <2>2. s \in Cpuset!Call /\ s.at = "err" /\ Doing(s, exists', val')
    BY IdleFacts
  <2> HIDE DEF s
  <2>3. exists \subseteq exists' /\ exists' \subseteq Dir
    BY DEF CpusetInv, Cpuset!TypeOK
  <2> QED
    BY <2>1, <2>2, <2>3, MoveGood
<1> QED
  BY <1>1, <1>2

LEMMA CpusetCopy ==
  ASSUME CpusetInv, NEW c \in CpusetCaller, Cpuset!Copy(c)
  PROVE  CpusetInv'
<1> DEFINE r == call[c]
           f == Head(r.todo)[2]
           d == Cpuset!Here(r)
           s == Cpuset!Onwards(r)
<1>1. /\ r.at = "copy" /\ Head(r.todo)[1] = "write" /\ UNCHANGED exists
      /\ f \in r.empty => Cpuset!Write(c, d, f, r.par[f], s)
      /\ f \notin r.empty => UNCHANGED val /\ call' = [call EXCEPT ![c] = s]
  BY DEF Cpuset!Copy, Cpuset!Set
<1>2. PICK k \in Nat : /\ 1 <= k /\ k <= 6 /\ AtStep(r, k) /\ Copies(r, k, val)
                       /\ Head(r.todo) = Cpuset!Copying[k] /\ d \in exists
  BY <1>1, CopyIs
<1>3. (k = 5 /\ f = "cpus") \/ (k = 6 /\ f = "mems")
  <2>1. k = 1 \/ k = 2 \/ k = 3 \/ k = 4 \/ k = 5 \/ k = 6
    BY <1>2
  <2> QED
    BY <1>1, <1>2, <2>1, CopyingIs
<1>4. /\ r \in Cpuset!Call /\ Walks(r, val) /\ d \in exists \ {Cpuset!Root} /\ d \in Dir
      /\ r.par \in [{"cpus", "mems"} -> SUBSET Cpu] /\ Doing(r, exists, val)
      /\ exists \subseteq Dir
  <2>1. r \in Cpuset!Call /\ Walks(r, val) /\ d \in Dir \ {Cpuset!Root} /\ Doing(r, exists, val)
        /\ exists \subseteq Dir
    BY <1>1, DoingIs
  <2> QED
    BY <1>2, <2>1 DEF Cpuset!Call, Cpuset!File
<1>5. r.par[f] # {} /\ r.par[f] \in SUBSET Cpu /\ f \in {"cpus", "mems"}
  <2>1. r.par["cpus"] # {} /\ r.par["mems"] # {}
    BY <1>2, <1>3 DEF Copies
  <2> QED
    BY <1>3, <1>4, <2>1
(* Once the file at this step has something, the step is done.             *)
<1>6. ASSUME NEW w, Keeps(val, w), w[d][f] # {}
      PROVE  s \in Cpuset!Call /\ (s.at = "copy" => s.todo # <<>>) /\ Doing(s, exists', w)
  <2>1. Doing(r, exists', w)
    <3>1. r.dir \in Dir /\ exists \subseteq exists'
      BY <1>1, <1>4 DEF Cpuset!Call
    <3> QED
      BY <1>4, <1>6, <3>1, StillDoing
  <2>2. Walks(r, w) /\ d \in exists'
    BY <1>1, <1>2, <2>1 DEF Doing
  <2>3. k < 6 => Copies(r, k + 1, w)
    <3>1. ASSUME k = 5 PROVE Copies(r, k + 1, w)
      <4>1. /\ "cpus" \in r.empty \/ w[d]["cpus"] # {}
            /\ "mems" \in r.empty \/ w[d]["mems"] # {}
            /\ r.par["cpus"] # {} /\ r.par["mems"] # {}
        BY <1>2, <1>4, <1>6, <3>1 DEF Copies, Keeps
      <4>2. w[d]["cpus"] # {}
        BY <1>3, <1>6, <3>1
      <4> QED
        BY <3>1, <4>1, <4>2 DEF Copies
    <3> QED
      BY <1>3, <3>1
  <2>4. k = 6 => Filled(d, w)
    <3>1. ASSUME k = 6 PROVE Filled(d, w)
      <4>1. w[d]["cpus"] # {}
        BY <1>2, <1>4, <1>6, <3>1 DEF Copies, Keeps
      <4>2. w[d]["mems"] # {}
        BY <1>3, <1>6, <3>1
      <4> QED
        BY <4>1, <4>2 DEF Filled
    <3> QED
      BY <3>1
  <2> QED
    BY <1>1, <1>2, <1>4, <2>2, <2>3, <2>4, OnwardsDoes
<1>7. s \in Cpuset!Call /\ (s.at = "copy" => s.todo # <<>>)
  <2> DEFINE w == [val EXCEPT ![d] = r.par]
  <2>1. val \in [Dir -> [{"cpus", "mems"} -> SUBSET Cpu]]
    BY DoingIs
  <2>2. r.par["cpus"] # {} /\ r.par["mems"] # {}
    BY <1>2, <1>3 DEF Copies
  <2>3. Keeps(val, w) /\ w[d][f] # {}
    BY <1>3, <1>4, <2>1, <2>2 DEF Keeps
  <2> HIDE DEF w
  <2> QED
    BY <1>6, <2>3
<1>8. CASE f \in r.empty
  <2>1. Cpuset!Write(c, d, f, r.par[f], s)
    BY <1>1, <1>8
  <2> HIDE DEF s, d, f, r
  <2>2. Keeps(val, val') /\ val'[d][f] = r.par[f] => Doing(s, exists', val')
    BY <1>5, <1>6
  <2> QED
    BY <1>1, <1>4, <1>5, <1>7, <2>1, <2>2, WriteGood
<1>9. CASE f \notin r.empty
  <2>1. UNCHANGED val /\ call' = [call EXCEPT ![c] = s]
    BY <1>1, <1>9
  <2>2. val[d][f] # {}
    BY <1>2, <1>3, <1>9 DEF Copies
  <2>3. Keeps(val, val') /\ val'[d][f] # {}
    BY <2>1, <2>2 DEF Keeps
  <2>4. Doing(s, exists', val')
    BY <1>6, <2>3
  <2>5. exists \subseteq exists' /\ exists' \subseteq Dir
    BY <1>1, <1>4
  <2> HIDE DEF s
  <2> QED
    BY <1>7, <2>1, <2>4, <2>5, MoveGood
<1> QED
  BY <1>8, <1>9

LEMMA CpusetSetValue ==
  ASSUME CpusetInv, NEW c \in CpusetCaller, Cpuset!SetValue(c)
  PROVE  CpusetInv'
<1> DEFINE r == call[c]
           f == Head(r.todo)[2]
           s == [r EXCEPT !.todo = Tail(@)]
<1>1. /\ r.at = "set" /\ r.todo # <<>> /\ UNCHANGED exists
      /\ r.req[f] = {} => UNCHANGED val /\ call' = [call EXCEPT ![c] = s]
      /\ r.req[f] # {} => Cpuset!Write(c, r.dir, f, r.req[f], s)
  BY DEF Cpuset!SetValue, Cpuset!Set
<1>2. /\ r \in Cpuset!Call /\ Walks(r, val) /\ Doing(r, exists, val) /\ exists \subseteq Dir
      /\ r.todo \in Seq({"current", "parent", "write"} \X {"cpus", "mems"})
      /\ r.req \in [{"cpus", "mems"} -> SUBSET Cpu]
  BY <1>1, DoingIs DEF Cpuset!Call, Cpuset!File
<1>3. f \in {"cpus", "mems"} /\ r.req[f] \in SUBSET Cpu /\ r.dir \in exists \ {Cpuset!Root}
  <2>1. Head(r.todo) \in {"current", "parent", "write"} \X {"cpus", "mems"}
    BY <1>1, <1>2
  <2> QED
    BY <1>1, <1>2, <2>1 DEF Doing, Walks
<1>4. s \in Cpuset!Call /\ s.at = "set" /\ s.dir = r.dir /\ s.i = r.i
  <2>1. Tail(r.todo) \in Seq({"current", "parent", "write"} \X {"cpus", "mems"})
    BY <1>1, <1>2
  <2> QED
    BY <1>1, <1>2, <2>1 DEF Cpuset!Call, Cpuset!File
<1> HIDE DEF s
<1>5. ASSUME Keeps(val, val') PROVE Doing(s, exists', val')
  <2>1. r.dir \in Dir /\ exists \subseteq exists'
    BY <1>1, <1>2 DEF Cpuset!Call
  <2>2. Doing(r, exists', val')
    BY <1>2, <1>5, <2>1, StillDoing
  <2> QED
    BY <1>1, <1>4, <2>2 DEF Doing, Walks
<1>6. CASE r.req[f] = {}
  <2>1. UNCHANGED val /\ call' = [call EXCEPT ![c] = s] /\ Keeps(val, val')
    BY <1>1, <1>6 DEF Keeps
  <2>2. exists \subseteq exists' /\ exists' \subseteq Dir
    BY <1>1, <1>2
  <2> QED
    BY <1>4, <1>5, <2>1, <2>2, MoveGood
<1>7. CASE r.req[f] # {}
  <2>1. Cpuset!Write(c, r.dir, f, r.req[f], s)
    BY <1>1, <1>7
  <2> HIDE DEF f, r
  <2> QED
    BY <1>1, <1>3, <1>4, <1>5, <1>7, <2>1, WriteGood
<1> QED
  BY <1>6, <1>7

LEMMA CpusetReturn ==
  ASSUME CpusetInv, NEW c \in CpusetCaller, Cpuset!Return(c)
  PROVE  CpusetInv'
<1> DEFINE s == [Cpuset!Idle EXCEPT !.at = "ok", !.dir = call[c].dir]
<1>1. call[c].at = "set" /\ UNCHANGED <<exists, val>> /\ call' = [call EXCEPT ![c] = s]
  BY DEF Cpuset!Return, Cpuset!Set
<1>2. /\ call[c] \in Cpuset!Call /\ Walks(call[c], val) /\ Doing(call[c], exists, val)
      /\ exists \subseteq Dir /\ call[c].dir \in Dir
  BY <1>1, DoingIs DEF Cpuset!Call
<1>3. s \in Cpuset!Call /\ s.at = "ok" /\ s.dir = call[c].dir
  BY <1>2, IdleFacts DEF Cpuset!Call, Cpuset!Idle
<1> HIDE DEF s
<1>4. Doing(s, exists', val')
  <2>1. call[c].i = Len(Path[call[c].dir]) + 1 /\ Len(Path[call[c].dir]) \in Nat
    BY <1>1, <1>2, RootFacts DEF Doing
  <2>2. call[c].i - 1 = Len(Path[call[c].dir])
    BY <2>1
  <2> QED
    BY <1>1, <1>2, <1>3, <2>2 DEF Doing, Walks
<1> QED
  BY <1>1, <1>2, <1>3, <1>4, MoveGood

LEMMA CpusetStarts ==
  ASSUME Cpuset!Init
  PROVE  CpusetInv
<1>1. /\ exists \subseteq Dir /\ Cpuset!Root \in exists
      /\ val = [d \in Dir |-> [f \in Cpuset!File |-> IF d = Cpuset!Root THEN Cpu ELSE {}]]
      /\ call = [c \in CpusetCaller |-> Cpuset!Idle]
  BY DEF Cpuset!Init
<1>2. /\ Cpuset!Idle \in Cpuset!Call /\ Cpuset!Idle.at = "idle"
      /\ [Cpuset!Idle EXCEPT !.at = "idle"] = Cpuset!Idle
  <2>1. Cpuset!Idle \in Cpuset!Call
    BY IdleFacts
  <2> QED
    BY <2>1 DEF Cpuset!Idle, Cpuset!Call
<1>3. Doing(Cpuset!Idle, exists, val)
  BY <1>2 DEF Doing
<1>4. Cpu # {}
  BY SettingsAssumption DEF Cpuset!CpusetAssumption
<1>5. Filled(Cpuset!Root, val)
  BY <1>1, <1>4 DEF Filled, Cpuset!File
<1>6. \A d \in Dir \ exists : val[d] = Cpuset!Nothing
  BY <1>1 DEF Cpuset!Nothing
<1>7. Cpuset!TypeOK
  <2>1. \A d \in exists, f \in Cpuset!File : d # Cpuset!Root => val[d][f] = {}
    BY <1>1
  <2>2. val \in [Dir -> [Cpuset!File -> SUBSET Cpu]]
    BY <1>1
  <2>3. call \in [CpusetCaller -> Cpuset!Call] /\ \A c \in CpusetCaller : call[c].at # "copy"
    BY <1>1, <1>2
  <2> QED
    BY <1>1, <2>1, <2>2, <2>3 DEF Cpuset!TypeOK
<1>8. \A c \in CpusetCaller : Doing(call[c], exists, val)
  BY <1>1, <1>3
<1> QED
  BY <1>5, <1>6, <1>7, <1>8 DEF CpusetInv

LEMMA CpusetNext ==
  CpusetInv /\ [Cpuset!Next]_(Cpuset!vars) => CpusetInv'
<1> SUFFICES ASSUME CpusetInv, [Cpuset!Next]_(Cpuset!vars) PROVE CpusetInv'
  OBVIOUS
<1>1. CASE UNCHANGED Cpuset!vars
  <2>1. /\ Cpuset!TypeOK' /\ Filled(Cpuset!Root, val)'
        /\ (\A d \in Dir \ exists : val[d] = Cpuset!Nothing)'
    BY <1>1 DEF Cpuset!vars, CpusetInv, Cpuset!TypeOK, Filled
  <2>2. call' = call /\ exists' = exists /\ val' = val
    BY <1>1 DEF Cpuset!vars
  <2>3. \A c \in CpusetCaller : Doing(call'[c], exists', val')
    BY <2>2 DEF CpusetInv
  <2> QED
    BY <2>1, <2>3 DEF CpusetInv
<1>2. ASSUME NEW c \in CpusetCaller,
             \/ Cpuset!Begin(c) \/ Cpuset!Mkdir(c) \/ Cpuset!ReadCurrent(c)
             \/ Cpuset!ReadParent(c) \/ Cpuset!Copy(c) \/ Cpuset!SetValue(c) \/ Cpuset!Return(c)
      PROVE  CpusetInv'
  BY <1>2, CpusetBegin, CpusetMkdir, CpusetReadCurrent, CpusetReadParent, CpusetCopy,
     CpusetSetValue, CpusetReturn
<1> QED
  BY <1>1, <1>2 DEF Cpuset!Next

LEMMA CpusetPopulated ==
  CpusetInv => Cpuset!Populated
  BY DEF CpusetInv, Doing, Filled, Cpuset!Populated, Cpuset!File

-----------------------------------------------------------------------------
(* A behaviour of all is, for each component, one of its own.              *)
LEMMA CpusetBehaves ==
  SpecAll => Cpuset!Init /\ [][Cpuset!Next]_(Cpuset!vars)
<1>1. StartAll => Cpuset!Init
  BY DEF StartAll
<1>2. [NextAll]_allVars => [Cpuset!Next]_(Cpuset!vars)
  BY DEF NextAll, allVars, cpusetVars, Cpuset!vars, Others, CpusetStep, MemoryStep, DevicesStep,
         ControlStep, ReaderStep, ResourceStep, StatStep
<1> QED
  BY <1>1, <1>2, PTL DEF SpecAll

(* Create returns with cpus and memory nodes in every cgroup of the path,  *)
(* however its steps interleave with those of other calls (cpuset.go:46).  *)
THEOREM PathsAreFilled == SpecAll => []Populated
<1>1. Cpuset!Init => CpusetInv
  BY CpusetStarts
<1>2. CpusetInv /\ [Cpuset!Next]_(Cpuset!vars) => CpusetInv'
  BY CpusetNext
<1>3. CpusetInv => Populated
  BY CpusetPopulated DEF Populated
<1> QED
  BY <1>1, <1>2, <1>3, CpusetBehaves, PTL

-----------------------------------------------------------------------------
(* The memory controller.                                                  *)

MemCall(files) ==
    [at : {"idle", "begin", "write", "ok", "err"}, op : {"create", "update"},
     want : [Memory!File -> SUBSET Int], todo : Seq(Memory!File), old : [files -> Nat]]

(* Nothing that is asked for is lost: it is in place, or still to be done. *)
InPlace(r, m) ==
    r.at \in {"write", "ok"} =>
        \A f \in Memory!File : \A v \in r.want[f] :
            \/ f \in DOMAIN m /\ m[f] = Memory!Content(v)
            \/ r.at = "write" /\ \E z \in 1 .. Len(r.todo) : r.todo[z] = f

(* The two limits are lowered, with no more in use than they allow.        *)
Lowers(r, m) ==
    /\ "memsw" \in DOMAIN m
    /\ \E l \in r.want["limit"], s \in r.want["memsw"] :
          0 < l /\ InUse <= l /\ l <= s /\ s <= r.old["limit"]

(* The memory limit goes first; once it is there the other has room.       *)
LimitFirst(r, m) ==
    /\ r.at = "begin" => m = r.old
    /\ r.at = "write" =>
          \/ /\ Len(r.todo) >= 1 /\ m["limit"] = r.old["limit"]
             /\ \A z \in 1 .. Len(r.todo) : r.todo[z] = "limit" <=> z = 1
          \/ /\ \A l \in r.want["limit"] : m["limit"] = l
             /\ \A z \in 1 .. Len(r.todo) : r.todo[z] # "limit"
    /\ r.at = "err" => Head(r.todo) \notin {"limit", "memsw"}

(* What the kernel keeps of the files.                                     *)
Kept(m, u) ==
    /\ m \in [DOMAIN m -> Nat] /\ DOMAIN m \in {Memory!File, Memory!File \ {"memsw"}}
    /\ Memory!Fits(m) /\ u \in Nat /\ u <= InUse /\ u <= m["limit"]
    /\ \A f \in DOMAIN m : m[f] <= IF f \in Memory!Limit THEN Bytes
                                   ELSE IF f = "oom_control" THEN 1 ELSE 100

Wanted(want) ==
    /\ \A f \in Memory!File : IsPointer(want[f])
    /\ \A f \in Memory!Limit : \A v \in want[f] : v <= Bytes
    /\ want["oom_control"] \subseteq {0, 1}

MemoryInv ==
    /\ Kept(mem, usage)
    /\ update \in [MemoryCaller -> MemCall(DOMAIN mem)]
    /\ \A c \in MemoryCaller :
          /\ Wanted(update[c].want)
          /\ Memory!Alone(c) => InPlace(update[c], mem)
          /\ Memory!Alone(c) /\ Lowers(update[c], mem) => LimitFirst(update[c], mem)

LEMMA MemFiles ==
  /\ Memory!File = {"limit", "soft", "memsw", "kmem", "kmem.tcp", "oom_control", "swappiness"}
  /\ Memory!Limit = {"limit", "soft", "memsw", "kmem", "kmem.tcp"}
  /\ Memory!Files \in Seq(Memory!File) /\ Len(Memory!Files) = 7
  /\ Memory!Files[1] = "limit" /\ Memory!Files[2] = "soft" /\ Memory!Files[3] = "memsw"
  /\ \A j \in 1 .. 7 : Memory!Files[j] = "limit" => j = 1
  /\ \A f \in Memory!File : \E j \in 1 .. 7 : Memory!Files[j] = f
<1>1. DOMAIN Memory!Files = 1 .. 7
  BY DEF Memory!Files
<1>2. \A j \in 1 .. 7 : j = 1 \/ j = 2 \/ j = 3 \/ j = 4 \/ j = 5 \/ j = 6 \/ j = 7
  OBVIOUS
<1>3. /\ Memory!Files[1] = "limit" /\ Memory!Files[2] = "soft" /\ Memory!Files[3] = "memsw"
      /\ Memory!Files[4] = "kmem" /\ Memory!Files[5] = "kmem.tcp"
      /\ Memory!Files[6] = "oom_control" /\ Memory!Files[7] = "swappiness"
  BY DEF Memory!Files
<1>4. Memory!File = {"limit", "soft", "memsw", "kmem", "kmem.tcp", "oom_control", "swappiness"}
  BY <1>1, <1>2, <1>3 DEF Memory!File
<1>5. Memory!Limit = {"limit", "soft", "memsw", "kmem", "kmem.tcp"}
  BY <1>4 DEF Memory!Limit
<1>6. Memory!Files \in Seq(Memory!File) /\ Len(Memory!Files) = 7
  BY <1>4 DEF Memory!Files
<1>7. \A f \in Memory!File : \E j \in 1 .. 7 : Memory!Files[j] = f
  BY <1>1 DEF Memory!File
<1>8. \A j \in 1 .. 7 : Memory!Files[j] = "limit" => j = 1
  BY <1>2, <1>3
<1> QED
  BY <1>3, <1>4, <1>5, <1>6, <1>7, <1>8

LEMMA MemorySelected ==
  ASSUME NEW s, NEW S
  PROVE  Memory!Selected(s, S) = Selected(s, S)
  BY DEF Memory!Selected, Selected

LEMMA MemoryMenuIs ==
  /\ Bytes \in Nat /\ Bytes > 0 /\ InUse \in Nat /\ InUse <= Bytes
  /\ \A r \in MemoryMenu :
        r.op \in {"create", "update"} /\ r.want \in [Memory!File -> SUBSET Int] /\ Wanted(r.want)
<1>1. Memory!MemoryAssumption
  BY SettingsAssumption
<1>2. \A r \in MemoryMenu : r \in [op : {"create", "update"}, want : [Memory!File -> SUBSET Int]]
  BY <1>1 DEF Memory!MemoryAssumption
<1>3. \A r \in MemoryMenu : Wanted(r.want)
  BY <1>1 DEF Memory!MemoryAssumption, Memory!IsPointer, IsPointer, Wanted
<1>4. Bytes \in Nat /\ Bytes > 0 /\ InUse \in Nat /\ InUse <= Bytes
  BY <1>1 DEF Memory!MemoryAssumption
<1> QED
  BY <1>2, <1>3, <1>4

LEMMA MemoryTypes ==
  MemoryInv => Memory!TypeOK
<1> SUFFICES ASSUME MemoryInv PROVE Memory!TypeOK
  OBVIOUS
<1>1. /\ mem \in [DOMAIN mem -> Nat] /\ DOMAIN mem \in {Memory!File, Memory!File \ {"memsw"}}
      /\ Memory!Fits(mem) /\ usage \in Nat /\ usage <= InUse /\ usage <= mem["limit"]
      /\ \A f \in DOMAIN mem : mem[f] <= IF f \in Memory!Limit THEN Bytes
                                       ELSE IF f = "oom_control" THEN 1 ELSE 100
      /\ update \in [MemoryCaller -> MemCall(DOMAIN mem)]
  BY DEF MemoryInv, Kept
<1>2. usage \in 0 .. Bytes
  BY <1>1, MemoryMenuIs
<1>3. \A f \in DOMAIN mem : mem[f] \in 0 .. (IF f \in Memory!Limit THEN Bytes
                                             ELSE IF f = "oom_control" THEN 1 ELSE 100)
  BY <1>1, MemoryMenuIs
<1>4. ASSUME NEW c \in MemoryCaller
      PROVE  /\ update[c].at \in {"idle", "begin", "write", "ok", "err"}
             /\ update[c].op \in {"create", "update"} /\ update[c].want \in [Memory!File -> SUBSET Int]
             /\ update[c].todo \in Seq(Memory!File) /\ DOMAIN update[c].old = DOMAIN mem
  BY <1>1 DEF MemCall
<1> QED
  BY <1>1, <1>2, <1>3, <1>4 DEF Memory!TypeOK

(* A step of one caller: where it is alone, it has to keep its promises.   *)
LEMMA MemoryStepGood ==
  ASSUME MemoryInv, NEW c \in MemoryCaller, NEW r \in MemCall(DOMAIN mem),
         update' = [update EXCEPT ![c] = r], Wanted(r.want),
         Kept(mem', usage'), DOMAIN mem' = DOMAIN mem,
         Memory!Alone(c) => InPlace(r, mem'),
         Memory!Alone(c) /\ Lowers(r, mem') => LimitFirst(r, mem')
  PROVE  MemoryInv'
<1>1. update' \in [MemoryCaller -> MemCall(DOMAIN mem')]
      /\ \A k \in MemoryCaller : update'[k] = IF k = c THEN r ELSE update[k]
  BY DEF MemoryInv
<1>2. ASSUME NEW k \in MemoryCaller
      PROVE  /\ Wanted(update'[k].want)
             /\ Memory!Alone(k) => InPlace(update'[k], mem')
             /\ Memory!Alone(k) /\ Lowers(update'[k], mem') => LimitFirst(update'[k], mem')
  <2>1. CASE k = c
    BY <1>1, <2>1
  <2>2. CASE k # c
    <3>1. ~Memory!Alone(k)
      BY <2>2 DEF Memory!Alone
    <3> QED
      BY <1>1, <2>2, <3>1 DEF MemoryInv
  <2> QED
    BY <2>1, <2>2
<1> QED
  BY <1>1, <1>2 DEF MemoryInv, Memory!Alone

LEMMA MemoryUse ==
  ASSUME MemoryInv, Memory!Use
  PROVE  MemoryInv'
<1>1. usage' \in 0 .. InUse /\ usage' <= mem["limit"] /\ mem' = mem /\ update' = update
  BY DEF Memory!Use
<1>2. Kept(mem', usage')
  BY <1>1, MemoryMenuIs DEF Kept, MemoryInv
<1> QED
  BY <1>1, <1>2 DEF MemoryInv, Memory!Alone

LEMMA MemoryBegin ==
  ASSUME MemoryInv, NEW c \in MemoryCaller, Memory!Begin(c)
  PROVE  MemoryInv'
<1>1. PICK q \in MemoryMenu :
         update' = [update EXCEPT ![c] = [at |-> "begin", op |-> q.op, want |-> q.want,
                                          todo |-> <<>>, old |-> mem]]
  BY DEF Memory!Begin
<1>2. mem' = mem /\ usage' = usage /\ Kept(mem, usage) /\ mem \in [DOMAIN mem -> Nat]
  BY DEF Memory!Begin, MemoryInv, Kept
<1> DEFINE r == [at |-> "begin", op |-> q.op, want |-> q.want, todo |-> <<>>, old |-> mem]
<1>3. r \in MemCall(DOMAIN mem) /\ r.at = "begin" /\ r.old = mem /\ r.want = q.want
  <2>1. <<>> \in Seq(Memory!File)
    OBVIOUS
  <2> QED
    BY <1>2, <2>1, MemoryMenuIs DEF MemCall
<1>4. update' = [update EXCEPT ![c] = r]
  BY <1>1
<1> HIDE DEF r
<1>5. Wanted(r.want)
  BY <1>3, MemoryMenuIs
<1>6. InPlace(r, mem') /\ LimitFirst(r, mem')
  BY <1>2, <1>3 DEF InPlace, LimitFirst
<1> QED
  BY <1>2, <1>3, <1>4, <1>5, <1>6, MemoryStepGood

LEMMA MemoryReturn ==
  ASSUME MemoryInv, NEW c \in MemoryCaller, Memory!Return(c)
  PROVE  MemoryInv'
<1> DEFINE r == [update[c] EXCEPT !.at = "ok"]
<1>1. /\ update' = [update EXCEPT ![c] = r] /\ mem' = mem /\ usage' = usage
      /\ update[c].at = "write" /\ update[c].todo = <<>>
  BY DEF Memory!Return
<1>2. /\ update[c] \in MemCall(DOMAIN mem) /\ Kept(mem, usage) /\ Wanted(update[c].want)
      /\ Memory!Alone(c) => InPlace(update[c], mem)
  BY DEF MemoryInv
<1>3. r \in MemCall(DOMAIN mem) /\ r.at = "ok" /\ r.want = update[c].want
  BY <1>2 DEF MemCall
<1> HIDE DEF r
<1>4. LimitFirst(r, mem')
  BY <1>3 DEF LimitFirst
<1>5. ASSUME Memory!Alone(c) PROVE InPlace(r, mem')
  <2>1. ~\E z \in 1 .. Len(update[c].todo) : TRUE
    BY <1>1
  <2> QED
    BY <1>1, <1>2, <1>3, <1>5, <2>1 DEF InPlace
<1> QED
  BY <1>1, <1>2, <1>3, <1>4, <1>5, MemoryStepGood

LEMMA MemoryOrder ==
  ASSUME MemoryInv, NEW c \in MemoryCaller, Memory!Order(c)
  PROVE  MemoryInv'
<1> DEFINE w == update[c].want
           swapped == /\ update[c].op = "update"
                      /\ \E l \in w["limit"], s \in w["memsw"] : l > 0 /\ s > 0 /\ mem["limit"] < s
           files == IF swapped THEN Memory!Swap01(Memory!Files) ELSE Memory!Files
           S == {f \in Memory!File : w[f] # {}}
           r == [update[c] EXCEPT !.at = "write", !.todo = Selected(files, S)]
<1>1. /\ update[c].at = "begin" /\ mem' = mem /\ usage' = usage
      /\ update' = [update EXCEPT ![c].at = "write", ![c].todo = Selected(files, S)]
  BY MemorySelected DEF Memory!Order, Memory!Writes
<1>2. /\ update[c] \in MemCall(DOMAIN mem) /\ Kept(mem, usage) /\ Wanted(w)
      /\ Memory!Alone(c) /\ Lowers(update[c], mem) => LimitFirst(update[c], mem)
      /\ update \in [MemoryCaller -> MemCall(DOMAIN mem)]
  BY DEF MemoryInv
<1>3. /\ files \in Seq(Memory!File)
      /\ \A f \in Memory!File : \E j \in 1 .. Len(files) : files[j] = f
  <2>1. CASE ~swapped
    BY <2>1, MemFiles
  <2>2. CASE swapped
    <3> DEFINE g == Memory!Swap01(Memory!Files)
    <3>1. /\ g \in Seq(Memory!File) /\ Len(g) = 7
          /\ g[1] = Memory!Files[2] /\ g[2] = Memory!Files[1]
          /\ \A j \in 1 .. 7 : j # 1 /\ j # 2 => g[j] = Memory!Files[j]
      <4>1. Memory!Files \in [1 .. 7 -> Memory!File]
        BY MemFiles
      <4>2. g = [Memory!Files EXCEPT ![1] = Memory!Files[2], ![2] = Memory!Files[1]]
        BY DEF Memory!Swap01
      <4>3. 1 \in 1 .. 7 /\ 2 \in 1 .. 7
        OBVIOUS
      <4>4. g \in [1 .. 7 -> Memory!File]
        BY <4>1, <4>2, <4>3
      <4> QED
        BY <4>1, <4>2, <4>3, <4>4
    <3> HIDE DEF g
    <3>2. ASSUME NEW f \in Memory!File PROVE \E j \in 1 .. Len(g) : g[j] = f
      <4>1. PICK j \in 1 .. 7 : Memory!Files[j] = f
        BY MemFiles
      <4>2. CASE j = 1
        BY <3>1, <4>1, <4>2
      <4>3. CASE j = 2
        BY <3>1, <4>1, <4>3
      <4>4. CASE j # 1 /\ j # 2
        BY <3>1, <4>1, <4>4
      <4> QED
        BY <4>2, <4>3, <4>4
    <3>3. files = g
      BY <2>2 DEF g
    <3> QED
      BY <3>1, <3>2, <3>3
  <2> QED
    BY <2>1, <2>2
<1>4. /\ Selected(files, S) \in Seq(Memory!File)
      /\ \A f \in S : \E z \in 1 .. Len(Selected(files, S)) : Selected(files, S)[z] = f
  <2> HIDE DEF files
  <2>1. /\ Selected(files, S) \in Seq(Memory!File)
        /\ \A j \in 1 .. Len(files) :
             files[j] \in S => \E z \in 1 .. Len(Selected(files, S)) : Selected(files, S)[z] = files[j]
    <3> HIDE DEF S
    <3>1. files \in Seq(Memory!File)
      BY <1>3
    <3> QED
      BY <3>1, SelectedIs
  <2> QED
    BY <1>3, <2>1
<1>5. /\ r \in MemCall(DOMAIN mem) /\ r.at = "write" /\ r.want = w /\ r.old = update[c].old
      /\ r.todo = Selected(files, S) /\ update' = [update EXCEPT ![c] = r]
  <2> DEFINE q == Selected(files, S)
  <2>1. q \in Seq(Memory!File)
    BY <1>4
  <2>2. update' = [update EXCEPT ![c].at = "write", ![c].todo = q]
    BY <1>1
  <2>3. r = [update[c] EXCEPT !.at = "write", !.todo = q]
    OBVIOUS
  <2> HIDE DEF q
  <2>4. r \in MemCall(DOMAIN mem) /\ r.at = "write" /\ r.want = w /\ r.old = update[c].old /\ r.todo = q
    BY <1>2, <2>1, <2>3 DEF MemCall
  <2>5. update' = [update EXCEPT ![c] = r]
    BY <2>2, <2>3
  <2> QED
    BY <2>4, <2>5 DEF q
<1> HIDE DEF r
<1>6. InPlace(r, mem')
  BY <1>4, <1>5 DEF InPlace
<1>7. ASSUME Memory!Alone(c), Lowers(r, mem') PROVE LimitFirst(r, mem')
  <2>1. "memsw" \in DOMAIN mem /\ Lowers(update[c], mem)
    BY <1>1, <1>5, <1>7 DEF Lowers
  <2>2. mem = update[c].old
    BY <1>1, <1>2, <1>7, <2>1 DEF LimitFirst
  <2>3. PICK l \in w["limit"], s \in w["memsw"] : 0 < l /\ l <= s /\ s <= mem["limit"]
    BY <2>1, <2>2 DEF Lowers
  <2>4. ~swapped
    <3>1. ASSUME NEW t \in w["memsw"] PROVE ~(mem["limit"] < t)
      <4>1. t = s
        BY <1>2, MemFiles DEF Wanted, IsPointer
      <4>2. s \in Int /\ mem["limit"] \in Nat
        BY <1>2, MemFiles DEF MemCall, Kept
      <4> QED
        BY <2>3, <4>1, <4>2
    <3> QED
      BY <3>1
  <2>5. files = Memory!Files /\ "limit" \in S
    BY <2>3, <2>4, MemFiles
  <2> HIDE DEF files, S
  <2>6. /\ Len(Selected(files, S)) >= 1
        /\ \A z \in 1 .. Len(Selected(files, S)) : Selected(files, S)[z] = "limit" <=> z = 1
    BY <2>5, MemFiles, SelectedFirst
  <2> QED
    BY <1>1, <1>5, <2>2, <2>6 DEF LimitFirst
<1> QED
  BY <1>1, <1>2, <1>5, <1>6, <1>7, MemoryStepGood

(* A setting that the kernel takes.                                        *)
LEMMA MemoryTaken ==
  ASSUME MemoryInv, NEW c \in MemoryCaller, update[c].at = "write", update[c].todo # <<>>,
         NEW v \in update[c].want[Head(update[c].todo)],
         Memory!MayWrite(Head(update[c].todo), Memory!Content(v)),
         mem' = [mem EXCEPT ![Head(update[c].todo)] = Memory!Content(v)],
         update' = [update EXCEPT ![c].todo = Tail(@)], usage' = usage
  PROVE  MemoryInv'
<1> DEFINE f == Head(update[c].todo)
           w == update[c].want
           x == Memory!Content(v)
           r == [update[c] EXCEPT !.todo = Tail(@)]
<1>1. /\ update[c] \in MemCall(DOMAIN mem) /\ Kept(mem, usage) /\ Wanted(w)
      /\ update \in [MemoryCaller -> MemCall(DOMAIN mem)]
      /\ Memory!Alone(c) => InPlace(update[c], mem)
      /\ Memory!Alone(c) /\ Lowers(update[c], mem) => LimitFirst(update[c], mem)
  BY DEF MemoryInv
<1>2. /\ update[c].todo \in Seq(Memory!File) /\ f = update[c].todo[1] /\ f \in Memory!File
      /\ Tail(update[c].todo) \in Seq(Memory!File)
      /\ Len(Tail(update[c].todo)) = Len(update[c].todo) - 1
      /\ \A z \in 1 .. Len(Tail(update[c].todo)) :
            z + 1 \in 1 .. Len(update[c].todo) /\ Tail(update[c].todo)[z] = update[c].todo[z + 1]
  BY <1>1 DEF MemCall
<1>3. /\ r \in MemCall(DOMAIN mem) /\ r.at = "write" /\ r.want = w /\ r.old = update[c].old
      /\ r.todo = Tail(update[c].todo) /\ update' = [update EXCEPT ![c] = r]
  BY <1>1, <1>2 DEF MemCall
<1>4. v \in Int /\ f \in DOMAIN mem /\ x \in Nat /\ (v >= 0 => x = v)
  <2>1. w[f] \subseteq Int
    BY <1>1, <1>2 DEF MemCall
  <2> QED
    BY <2>1, MemoryMenuIs DEF Memory!Content, Memory!MayWrite
<1>5. /\ mem' \in [DOMAIN mem -> Nat] /\ DOMAIN mem' = DOMAIN mem
      /\ \A g \in DOMAIN mem : mem'[g] = IF g = f THEN x ELSE mem[g]
  <2>1. mem \in [DOMAIN mem -> Nat]
    BY <1>1 DEF Kept
  <2> HIDE DEF x, f
  <2>2. mem' = [mem EXCEPT ![f] = x]
    BY DEF x, f
  <2> QED
    BY <1>4, <2>1, <2>2
<1> HIDE DEF r, x, f
<1>6. Kept(mem', usage')
  <2>1. Memory!Fits(mem') /\ (f = "limit" => usage <= x) /\ (f = "swappiness" => x <= 100)
    BY DEF Memory!MayWrite, x, f
  <2>2. x <= IF f \in Memory!Limit THEN Bytes ELSE IF f = "oom_control" THEN 1 ELSE 100
    <3>1. CASE f \in Memory!Limit
      <4>1. v <= Bytes
        BY <1>1, <3>1 DEF Wanted, f, w
      <4> QED
        BY <1>4, <3>1, <4>1, MemoryMenuIs DEF Memory!Content, x
    <3>2. CASE f = "oom_control"
      <4>1. v \in {0, 1}
        BY <1>1, <3>2 DEF Wanted, f, w
      <4> QED
        BY <1>4, <3>2, <4>1, MemFiles
    <3>3. CASE f = "swappiness"
      BY <2>1, <3>3, MemFiles
    <3> QED
      BY <1>2, <3>1, <3>2, <3>3, MemFiles
  <2>3. \A g \in DOMAIN mem' : mem'[g] <= IF g \in Memory!Limit THEN Bytes
                                        ELSE IF g = "oom_control" THEN 1 ELSE 100
    BY <1>1, <1>5, <2>2 DEF Kept
  <2>4. usage' <= mem'["limit"]
    <3>1. "limit" \in DOMAIN mem
      BY <1>1, MemFiles DEF Kept
    <3> QED
      BY <1>1, <1>5, <2>1, <3>1 DEF Kept
  <2> QED
    BY <1>1, <1>5, <2>1, <2>3, <2>4 DEF Kept
<1>7. ASSUME Memory!Alone(c) PROVE InPlace(r, mem')
  <2>1. ASSUME NEW g \in Memory!File, NEW y \in w[g]
        PROVE  \/ g \in DOMAIN mem' /\ mem'[g] = Memory!Content(y)
               \/ \E z \in 1 .. Len(r.todo) : r.todo[z] = g
    <3>1. CASE g = f
      <4>1. y = v
        BY <1>1, <1>2, <3>1 DEF Wanted, IsPointer, w, f
      <4> QED
        BY <1>4, <1>5, <3>1, <4>1 DEF x
    <3>2. CASE g # f /\ g \in DOMAIN mem /\ mem[g] = Memory!Content(y)
      BY <1>5, <3>2
    <3>3. CASE g # f /\ \E z \in 1 .. Len(update[c].todo) : update[c].todo[z] = g
      <4>1. PICK z \in 1 .. Len(update[c].todo) : update[c].todo[z] = g
        BY <3>3
      <4>2. z # 1 /\ z - 1 \in 1 .. Len(Tail(update[c].todo)) /\ z - 1 + 1 = z
        BY <1>2, <3>3, <4>1
      <4>3. r.todo[z - 1] = g
        BY <1>2, <1>3, <4>1, <4>2
      <4> QED
        BY <1>3, <4>2, <4>3
    <3> QED
      BY <1>1, <1>7, <3>1, <3>2, <3>3 DEF InPlace, w
  <2> QED
    BY <1>3, <2>1 DEF InPlace

<1>8. ASSUME Memory!Alone(c), Lowers(r, mem') PROVE LimitFirst(r, mem')
  <2>1. "memsw" \in DOMAIN mem /\ Lowers(update[c], mem)
    BY <1>3, <1>5, <1>8 DEF Lowers, w
  <2>2. LimitFirst(update[c], mem)
    BY <1>1, <1>8, <2>1
  <2>3. "limit" \in DOMAIN mem
    BY <1>1, MemFiles DEF Kept
  <2>4. CASE /\ Len(update[c].todo) >= 1
             /\ \A z \in 1 .. Len(update[c].todo) : update[c].todo[z] = "limit" <=> z = 1
    <3>1. f = "limit"
      <4>1. 1 \in 1 .. Len(update[c].todo)
        BY <1>2, <2>4
      <4> QED
        BY <1>2, <2>4, <4>1
    <3>2. PICK l \in w["limit"] : 0 < l
      BY <2>1 DEF Lowers, w
    <3>3. v = l /\ \A y \in w["limit"] : y = v
      BY <1>1, <1>2, <3>1, <3>2 DEF Wanted, IsPointer, w, f
    <3>4. x = v
      BY <1>4, <3>2, <3>3
    <3>5. mem'["limit"] = v
      BY <1>5, <2>3, <3>1, <3>4
    <3>6. \A z \in 1 .. Len(r.todo) : r.todo[z] # "limit"
      <4>1. \A z \in 1 .. Len(Tail(update[c].todo)) : z + 1 # 1
        BY <1>2
      <4> QED
        BY <1>2, <1>3, <2>4, <4>1
    <3> QED
      BY <1>3, <3>3, <3>5, <3>6 DEF LimitFirst
  <2>5. CASE /\ \A l \in w["limit"] : mem["limit"] = l
             /\ \A z \in 1 .. Len(update[c].todo) : update[c].todo[z] # "limit"
    <3>1. f # "limit"
      <4>1. 1 \in 1 .. Len(update[c].todo)
        BY <1>2
      <4> QED
        BY <1>2, <2>5, <4>1
    <3>2. mem'["limit"] = mem["limit"]
      BY <1>5, <2>3, <3>1
    <3>3. \A z \in 1 .. Len(r.todo) : r.todo[z] # "limit"
      BY <1>2, <1>3, <2>5
    <3> QED
      BY <1>3, <2>5, <3>2, <3>3 DEF LimitFirst
  <2> QED
    BY <2>2, <2>4, <2>5 DEF LimitFirst, w
<1> QED
  BY <1>1, <1>3, <1>5, <1>6, <1>7, <1>8, MemoryStepGood

(* A setting that the kernel refuses: not one of the two limits, if they   *)
(* are lowered.                                                            *)
LEMMA MemoryRefused ==
  ASSUME MemoryInv, NEW c \in MemoryCaller, update[c].at = "write", update[c].todo # <<>>,
         NEW v \in update[c].want[Head(update[c].todo)],
         Memory!MayRefuse(Head(update[c].todo), Memory!Content(v)),
         update' = [update EXCEPT ![c].at = "err"], UNCHANGED mem, UNCHANGED usage
  PROVE  MemoryInv'
<1> DEFINE f == Head(update[c].todo)
           w == update[c].want
           x == Memory!Content(v)
           r == [update[c] EXCEPT !.at = "err"]
<1>1. /\ update[c] \in MemCall(DOMAIN mem) /\ Kept(mem, usage) /\ Wanted(w)
      /\ update \in [MemoryCaller -> MemCall(DOMAIN mem)]
      /\ Memory!Alone(c) /\ Lowers(update[c], mem) => LimitFirst(update[c], mem)
  BY DEF MemoryInv
<1>2. update[c].todo \in Seq(Memory!File) /\ f = update[c].todo[1] /\ f \in Memory!File
  BY <1>1 DEF MemCall
<1>3. /\ r \in MemCall(DOMAIN mem) /\ r.at = "err" /\ r.want = w /\ r.old = update[c].old
      /\ r.todo = update[c].todo /\ update' = [update EXCEPT ![c] = r]
  BY <1>1 DEF MemCall
<1>4. v \in Int /\ (v >= 0 => x = v)
  <2>1. w[f] \subseteq Int
    BY <1>1, <1>2 DEF MemCall
  <2> QED
    BY <2>1 DEF Memory!Content
<1> HIDE DEF r, x, f
<1>5. InPlace(r, mem')
  BY <1>3 DEF InPlace
<1>6. ASSUME Memory!Alone(c), Lowers(r, mem') PROVE LimitFirst(r, mem')
  <2>1. Lowers(update[c], mem) /\ LimitFirst(update[c], mem)
    BY <1>1, <1>3, <1>6 DEF Lowers, w
  <2>2. PICK l \in w["limit"], s \in w["memsw"] :
           0 < l /\ InUse <= l /\ l <= s /\ s <= update[c].old["limit"]
    BY <2>1 DEF Lowers, w
  <2>3. /\ "limit" \in DOMAIN mem /\ "memsw" \in DOMAIN mem /\ l \in Int /\ s \in Int
        /\ mem["limit"] \in Nat /\ mem["memsw"] \in Nat /\ mem["limit"] <= mem["memsw"]
        /\ mem \in [DOMAIN mem -> Nat] /\ usage <= InUse /\ usage \in Nat
    <3>1. "memsw" \in DOMAIN mem /\ "limit" \in DOMAIN mem
      BY <1>1, <2>1, MemFiles DEF Lowers, Kept
    <3>2. w["limit"] \subseteq Int /\ w["memsw"] \subseteq Int
      BY <1>1, MemFiles DEF MemCall, w
    <3> QED
      BY <1>1, <3>1, <3>2 DEF Kept, Memory!Fits
  <2>4. f = "limit" => v = l
    BY <1>1, <1>2, <2>2 DEF Wanted, IsPointer, w, f
  <2>5. f = "memsw" => v = s
    BY <1>1, <1>2, <2>2 DEF Wanted, IsPointer, w, f
  <2>6. ~Memory!MayWrite(f, x) \/ f \in {"kmem", "kmem.tcp"}
    BY DEF Memory!MayRefuse, f, x
  <2>7. CASE /\ Len(update[c].todo) >= 1 /\ mem["limit"] = update[c].old["limit"]
             /\ \A z \in 1 .. Len(update[c].todo) : update[c].todo[z] = "limit" <=> z = 1
    <3>1. f = "limit" /\ v = l /\ x = l
      <4>1. 1 \in 1 .. Len(update[c].todo)
        BY <2>7
      <4>2. f = "limit"
        BY <1>2, <2>7, <4>1
      <4> QED
        BY <1>4, <2>2, <2>4, <4>2
    <3> DEFINE m == [mem EXCEPT ![f] = x]
    <3>2. m["limit"] = l /\ m["memsw"] = mem["memsw"]
      BY <2>3, <3>1
    <3> HIDE DEF m
    <3>3. l <= mem["memsw"] /\ usage <= l
      BY <2>2, <2>3, <2>7, MemoryMenuIs
    <3>4. Memory!Fits(m)
      BY <3>2, <3>3 DEF Memory!Fits
    <3>5. Memory!MayWrite(f, x)
      BY <2>3, <3>1, <3>3, <3>4 DEF Memory!MayWrite, m
    <3> QED
      BY <2>6, <3>1, <3>5
  <2>8. CASE /\ \A y \in w["limit"] : mem["limit"] = y
             /\ \A z \in 1 .. Len(update[c].todo) : update[c].todo[z] # "limit"
    <3>1. f # "limit"
      <4>1. 1 \in 1 .. Len(update[c].todo)
        BY <1>2
      <4> QED
        BY <1>2, <2>8, <4>1
    <3>2. ASSUME f = "memsw" PROVE FALSE
      <4>1. v = s /\ x = s
        BY <1>4, <2>2, <2>3, <2>5, <3>2
      <4> DEFINE m == [mem EXCEPT ![f] = x]
      <4>2. m["limit"] = l /\ m["memsw"] = s
        BY <2>2, <2>3, <2>8, <3>2, <4>1
      <4> HIDE DEF m
      <4>3. Memory!Fits(m)
        BY <2>2, <4>2 DEF Memory!Fits
      <4>4. Memory!MayWrite(f, x)
        BY <2>3, <3>2, <4>3 DEF Memory!MayWrite, m
      <4> QED
        BY <2>6, <3>2, <4>4
    <3> QED
      BY <1>3, <3>1, <3>2 DEF LimitFirst, f
  <2> QED
    BY <2>1, <2>7, <2>8 DEF LimitFirst, w
<1>7. Kept(mem', usage') /\ DOMAIN mem' = DOMAIN mem /\ Wanted(r.want)
  BY <1>1, <1>3
<1> QED
  BY <1>3, <1>5, <1>6, <1>7, MemoryStepGood

LEMMA MemoryStarts ==
  ASSUME Memory!Init
  PROVE  MemoryInv
<1>1. PICK limit \in 1 .. Bytes :
         \/ \E memsw \in limit .. Bytes : mem = Memory!Start(limit, memsw)
         \/ mem = [f \in Memory!File \ {"memsw"} |-> Memory!Start(limit, limit)[f]]
  BY DEF Memory!Init
<1>2. Bytes \in Nat /\ Bytes > 0 /\ limit \in Nat /\ limit <= Bytes /\ InUse \in Nat
  BY MemoryMenuIs
<1>3. ASSUME NEW s \in limit .. Bytes
      PROVE  /\ Memory!Start(limit, s) \in [Memory!File -> Nat]
             /\ Memory!Start(limit, s)["limit"] = limit /\ Memory!Start(limit, s)["memsw"] = s
             /\ \A f \in Memory!File :
                   Memory!Start(limit, s)[f] <= IF f \in Memory!Limit THEN Bytes
                                                ELSE IF f = "oom_control" THEN 1 ELSE 100
  <2>1. s \in Nat /\ s <= Bytes
    BY <1>2
  <2> QED
    BY <1>2, <2>1, MemFiles DEF Memory!Start
<1>4. limit \in limit .. Bytes
  BY <1>2
<1>5. Kept(mem, usage)
  <2>1. usage = 0
    BY DEF Memory!Init
  <2>2. CASE \E s \in limit .. Bytes : mem = Memory!Start(limit, s)
    <3>1. PICK s \in limit .. Bytes : mem = Memory!Start(limit, s)
      BY <2>2
    <3>2. limit <= s
      BY <1>2
    <3> QED
      BY <1>2, <1>3, <2>1, <3>1, <3>2 DEF Kept, Memory!Fits
  <2>3. CASE mem = [f \in Memory!File \ {"memsw"} |-> Memory!Start(limit, limit)[f]]
    <3>1. DOMAIN mem = Memory!File \ {"memsw"} /\ mem["limit"] = limit
          /\ \A f \in DOMAIN mem : mem[f] = Memory!Start(limit, limit)[f]
      BY <1>3, <1>4, <2>3, MemFiles
    <3> QED
      BY <1>2, <1>3, <1>4, <2>1, <2>3, <3>1 DEF Kept, Memory!Fits
  <2> QED
    BY <1>1, <2>2, <2>3
<1> DEFINE r == [at |-> "idle", op |-> "create", want |-> [f \in Memory!File |-> {}],
                 todo |-> <<>>, old |-> mem]
<1>6. update = [c \in MemoryCaller |-> r]
  BY DEF Memory!Init
<1>7. /\ r \in MemCall(DOMAIN mem) /\ r.at = "idle"
      /\ \A f \in Memory!File : r.want[f] = {}
  <2>1. mem \in [DOMAIN mem -> Nat] /\ <<>> \in Seq(Memory!File)
    BY <1>5 DEF Kept
  <2> QED
    BY <2>1 DEF MemCall
<1> HIDE DEF r
<1>8. Wanted(r.want) /\ InPlace(r, mem) /\ LimitFirst(r, mem)
  BY <1>7, MemFiles DEF Wanted, IsPointer, InPlace, LimitFirst
<1> QED
  BY <1>5, <1>6, <1>7, <1>8 DEF MemoryInv

LEMMA MemoryNext ==
  MemoryInv /\ [Memory!Next]_(Memory!vars) => MemoryInv'
<1> SUFFICES ASSUME MemoryInv, [Memory!Next]_(Memory!vars) PROVE MemoryInv'
  OBVIOUS
<1>1. CASE UNCHANGED Memory!vars
  <2>1. mem' = mem /\ usage' = usage /\ update' = update
    BY <1>1 DEF Memory!vars
  <2> QED
    BY <2>1 DEF MemoryInv, Memory!Alone
<1>2. ASSUME NEW c \in MemoryCaller, Memory!Write(c) PROVE MemoryInv'
  <2>1. update[c].at = "write" /\ update[c].todo # <<>> /\ usage' = usage
    BY <1>2 DEF Memory!Write
  <2>2. PICK v \in update[c].want[Head(update[c].todo)] :
          \/ /\ Memory!MayWrite(Head(update[c].todo), Memory!Content(v))
             /\ mem' = [mem EXCEPT ![Head(update[c].todo)] = Memory!Content(v)]
             /\ update' = [update EXCEPT ![c].todo = Tail(@)]
          \/ /\ Memory!MayRefuse(Head(update[c].todo), Memory!Content(v))
             /\ update' = [update EXCEPT ![c].at = "err"]
             /\ UNCHANGED mem
    BY <1>2 DEF Memory!Write
  <2> QED
    BY <2>1, <2>2, MemoryTaken, MemoryRefused
<1>3. ASSUME NEW c \in MemoryCaller, Memory!Begin(c) \/ Memory!Order(c) \/ Memory!Return(c)
      PROVE  MemoryInv'
  BY <1>3, MemoryBegin, MemoryOrder, MemoryReturn
<1> QED
  BY <1>1, <1>2, <1>3, MemoryUse DEF Memory!Next

LEMMA MemoryPromises ==
  MemoryInv => Memory!AllInPlace /\ Memory!LoweringSucceeds
<1> SUFFICES ASSUME MemoryInv PROVE Memory!AllInPlace /\ Memory!LoweringSucceeds
  OBVIOUS
<1>1. Memory!AllInPlace
  BY DEF MemoryInv, InPlace, Memory!AllInPlace
<1>2. ASSUME NEW c \in MemoryCaller, Memory!LimitRefused(c),
             NEW l \in update[c].want["limit"], NEW s \in update[c].want["memsw"],
             0 < l, InUse <= l, l <= s, s <= update[c].old["limit"]
      PROVE  FALSE
  <2>1. Lowers(update[c], mem) /\ Memory!Alone(c)
    BY <1>2 DEF Lowers, Memory!LimitRefused
  <2> QED
    BY <1>2, <2>1 DEF MemoryInv, LimitFirst, Memory!LimitRefused
<1> QED
  BY <1>1, <1>2 DEF Memory!LoweringSucceeds

-----------------------------------------------------------------------------
(* The other controllers: what their settings are.                         *)

Value ==
    Int \cup ((SUBSET Nat) \X (SUBSET Nat))
    \cup ((STRING \cup {"a"}) \X (SUBSET Int) \X (SUBSET Int) \X STRING)

CpuCells    == {"cpu.cfs_period_us", "cpu.cfs_quota_us", "cpu.rt_period_us", "cpu.rt_runtime_us"}
DeviceFiles == {"devices.allow", "devices.deny"}
PlainFiles  ==
    {"cpu.shares", "pids.max", "rdma.max", "hugetlb.limit_in_bytes", "net_cls.classid",
     "net_prio.ifpriomap", "blkio.weight", "blkio.leaf_weight", "blkio.weight_device",
     "blkio.leaf_weight_device", "blkio.throttle.read_bps_device",
     "blkio.throttle.read_iops_device", "blkio.throttle.write_bps_device",
     "blkio.throttle.write_iops_device"}
Setting1    ==
    [file : CpuCells \cup DeviceFiles \cup PlainFiles, key : {Control!Blank} \cup STRING, v : Value]

(* The settings that a controller may have: the files that limit the time  *)
(* of CPU are the cpu controller's, and those of devices devices'.         *)
SettingsOf(c) ==
    {x \in Setting1 : /\ x.file \in CpuCells => c = "cpu" /\ x.key = Control!Blank /\ x.v \in Int
                      /\ x.file \in DeviceFiles <=> c = "devices"}

LEMMA ControlFacts ==
  /\ V1Specs \subseteq Control!LinuxResources /\ V1Specs # {}
  /\ V1Order \in Seq(Control!Controllers)
  /\ Above \in [quota : Int, period : Nat \ {0}] /\ AboveRt \in [quota : Int, period : Nat \ {0}]
  /\ Period \in Nat /\ Period > 0 /\ Calls \in Nat /\ Removals \in Nat
<1>1. Control!ControllersAssumption
  BY SettingsAssumption
<1> QED
  BY <1>1 DEF Control!ControllersAssumption, Control!Bandwidth

LEMMA EachIs ==
  ASSUME NEW f, NEW k, NEW p \in SUBSET Int
  PROVE  /\ p = {} => Control!Each(f, k, p) = <<>>
         /\ p # {} => /\ Control!Deref(p) \in p
                      /\ Control!Each(f, k, p) = << [file |-> f, key |-> k, v |-> Control!Deref(p)] >>
<1>1. p # {} => Control!Deref(p) \in p
  BY DEF Control!Deref
<1> QED
  BY <1>1 DEF Control!Each, Control!Setting

(* A setting of a controller that is not cpu or devices.                   *)
LEMMA EachOf ==
  ASSUME NEW c \in Control!Controllers, NEW f \in CpuCells \cup PlainFiles,
         NEW k \in {Control!Blank} \cup STRING, NEW p \in SUBSET Int,
         c # "devices", f \in CpuCells => c = "cpu" /\ k = Control!Blank
  PROVE  Control!Each(f, k, p) \in Seq(SettingsOf(c))
<1>1. CASE p = {}
  <2>1. Control!Each(f, k, p) = <<>>
    BY <1>1, EachIs
  <2>2. <<>> \in Seq(SettingsOf(c))
    OBVIOUS
  <2> QED
    BY <2>1, <2>2, Zenon
<1>2. CASE p # {}
  <2> DEFINE x == [file |-> f, key |-> k, v |-> Control!Deref(p)]
  <2>1. Control!Deref(p) \in Int /\ Control!Each(f, k, p) = <<x>>
    BY <1>2, EachIs
  <2>2. x \in SettingsOf(c)
    BY <2>1 DEF SettingsOf, Setting1, Value, CpuCells, DeviceFiles, PlainFiles
  <2> HIDE DEF x
  <2>3. <<x>> \in Seq(SettingsOf(c))
    BY <2>2
  <2> QED
    BY <2>1, <2>3, Zenon
<1> QED
  BY <1>1, <1>2

LEMMA OneOf ==
  ASSUME NEW c \in Control!Controllers, NEW f \in CpuCells \cup PlainFiles,
         NEW p \in SUBSET Int, c # "devices", f \in CpuCells => c = "cpu"
  PROVE  Control!One(f, p) \in Seq(SettingsOf(c))
<1>1. Control!Blank \in {Control!Blank} \cup STRING
  OBVIOUS
<1> QED
  BY <1>1, EachOf DEF Control!One

LEMMA CpuOf ==
  ASSUME NEW s \in Control!LinuxResources
  PROVE  Control!CpuSettings(s) \in Seq(SettingsOf("cpu"))
<1>1. /\ s.rtPeriod \in SUBSET Int /\ s.rtRuntime \in SUBSET Int /\ s.shares \in SUBSET Int
      /\ s.period \in SUBSET Int /\ s.quota \in SUBSET Int
  BY DEF Control!LinuxResources
<1> DEFINE T == Seq(SettingsOf("cpu"))
<1>2. "cpu" \in Control!Controllers
  BY DEF Control!Controllers
<1>3. /\ Control!One("cpu.rt_period_us", s.rtPeriod) \in T
      /\ Control!One("cpu.rt_runtime_us", s.rtRuntime) \in T
      /\ Control!One("cpu.shares", s.shares) \in T
      /\ Control!One("cpu.cfs_period_us", s.period) \in T
      /\ Control!One("cpu.cfs_quota_us", s.quota) \in T
  BY <1>1, <1>2, OneOf DEF CpuCells, PlainFiles
<1> QED
  BY <1>3 DEF Control!CpuSettings

LEMMA BlkioOf ==
  ASSUME NEW s \in Control!LinuxResources
  PROVE  Control!BlkioSettings(s) \in Seq(SettingsOf("blkio"))
<1> DEFINE T == Seq(SettingsOf("blkio"))
<1>1. "blkio" \in Control!Controllers
  BY DEF Control!Controllers
<1>2. /\ Control!One("blkio.weight", s.weight) \in T
      /\ Control!One("blkio.leaf_weight", s.leafWeight) \in T
  <2>1. s.weight \in SUBSET Int /\ s.leafWeight \in SUBSET Int
    BY DEF Control!LinuxResources
  <2> QED
    BY <1>1, <2>1, OneOf DEF CpuCells, PlainFiles
<1> DEFINE g == [z \in DOMAIN s.weightDevice |->
                   Control!Each("blkio.weight_device", s.weightDevice[z].dev, s.weightDevice[z].weight)
                   \o Control!Each("blkio.leaf_weight_device", s.weightDevice[z].dev,
                                   s.weightDevice[z].leafWeight)]
<1>3. Control!FlattenSeq(g) \in T
  <2>1. s.weightDevice \in Seq([dev : STRING, weight : SUBSET Nat, leafWeight : SUBSET Nat])
    BY DEF Control!LinuxResources
  <2>2. ASSUME NEW z \in DOMAIN s.weightDevice PROVE g[z] \in T
    <3> DEFINE d == s.weightDevice[z]
    <3>1. /\ d.dev \in {Control!Blank} \cup STRING /\ d.weight \in SUBSET Int /\ d.leafWeight \in SUBSET Int
      <4> DEFINE R == [dev : STRING, weight : SUBSET Nat, leafWeight : SUBSET Nat]
      <4>1. d \in R
        <5>1. s.weightDevice \in Seq(R)
          BY <2>1
        <5> HIDE DEF R
        <5> QED
          BY <2>2, <5>1
      <4> HIDE DEF d
      <4> QED
        BY <4>1
    <3> HIDE DEF d
    <3>2. /\ Control!Each("blkio.weight_device", d.dev, d.weight) \in T
          /\ Control!Each("blkio.leaf_weight_device", d.dev, d.leafWeight) \in T
      BY <1>1, <3>1, EachOf DEF CpuCells, PlainFiles
    <3>3. Control!Each("blkio.weight_device", d.dev, d.weight)
          \o Control!Each("blkio.leaf_weight_device", d.dev, d.leafWeight) \in T
      BY <3>2
    <3>4. g[z] = Control!Each("blkio.weight_device", d.dev, d.weight)
                 \o Control!Each("blkio.leaf_weight_device", d.dev, d.leafWeight)
      BY <2>2 DEF d
    <3> HIDE DEF g, T
    <3> QED
      BY <3>3, <3>4
  <2>3. DOMAIN g = 1 .. Len(s.weightDevice) /\ Len(s.weightDevice) \in Nat
    BY <2>1
  <2>4. g = [z \in 1 .. Len(s.weightDevice) |-> g[z]]
    BY <2>3
  <2> HIDE DEF g
  <2>5. g \in Seq(T)
    BY <2>2, <2>3, <2>4
  <2>6. FlattenSeq(g) \in T
    BY <2>5, FlattenIn
  <2>7. Control!FlattenSeq(g) = FlattenSeq(g)
    BY DEF Control!FlattenSeq, FlattenSeq
  <2> QED
    BY <2>6, <2>7
<1>4. ASSUME NEW f \in PlainFiles,
             NEW l \in Seq([dev : STRING, rate : Nat])
      PROVE  Control!Throttled(f, l) \in T
  <2>1. ASSUME NEW z \in DOMAIN l PROVE Control!Setting(f, l[z].dev, l[z].rate) \in SettingsOf("blkio")
    <3> DEFINE R == [dev : STRING, rate : Nat]
    <3>1. l[z] \in R
      <4>1. l \in Seq(R)
        BY <1>4
      <4> HIDE DEF R
      <4> QED
        BY <4>1
    <3>2. l[z].dev \in STRING /\ l[z].rate \in Int
      BY <3>1
    <3> QED
      BY <1>4, <3>2 DEF Control!Setting, SettingsOf, Setting1, Value, CpuCells, DeviceFiles, PlainFiles
  <2>2. DOMAIN l = 1 .. Len(l) /\ Len(l) \in Nat
    OBVIOUS
  <2> QED
    BY <2>1, <2>2 DEF Control!Throttled
<1>5. /\ Control!Throttled("blkio.throttle.read_bps_device", s.readBps) \in T
      /\ Control!Throttled("blkio.throttle.read_iops_device", s.readIops) \in T
      /\ Control!Throttled("blkio.throttle.write_bps_device", s.writeBps) \in T
      /\ Control!Throttled("blkio.throttle.write_iops_device", s.writeIops) \in T
  BY <1>4 DEF PlainFiles, Control!LinuxResources
<1>6. Control!BlkioSettings(s) =
        Control!One("blkio.weight", s.weight) \o Control!One("blkio.leaf_weight", s.leafWeight)
        \o Control!FlattenSeq(g)
        \o Control!Throttled("blkio.throttle.read_bps_device", s.readBps)
        \o Control!Throttled("blkio.throttle.read_iops_device", s.readIops)
        \o Control!Throttled("blkio.throttle.write_bps_device", s.writeBps)
        \o Control!Throttled("blkio.throttle.write_iops_device", s.writeIops)
  BY DEF Control!BlkioSettings
<1> HIDE DEF g
<1> QED
  BY <1>2, <1>3, <1>5, <1>6

LEMMA SimpleOf ==
  ASSUME NEW s \in Control!LinuxResources
  PROVE  /\ Control!PidsSettings(s) \in Seq(SettingsOf("pids"))
         /\ Control!NetClsSettings(s) \in Seq(SettingsOf("net_cls"))
<1>1. {p \in s.pids : p > 0} \in SUBSET Int /\ {c \in s.classID : c > 0} \in SUBSET Int
  BY DEF Control!LinuxResources
<1>2. "pids" \in Control!Controllers /\ "net_cls" \in Control!Controllers
  BY DEF Control!Controllers
<1> QED
  BY <1>1, <1>2, OneOf
     DEF Control!PidsSettings, Control!NetClsSettings, PlainFiles, CpuCells

LEMMA ListsOf ==
  ASSUME NEW s \in Control!LinuxResources
  PROVE  /\ Control!NetPrioSettings(s) \in Seq(SettingsOf("net_prio"))
         /\ Control!HugetlbSettings(s) \in Seq(SettingsOf("hugetlb"))
<1>1. Control!NetPrioSettings(s) \in Seq(SettingsOf("net_prio"))
  <2> DEFINE R == [name : STRING, prio : Nat]
  <2>1. s.prios \in Seq(R)
    BY DEF Control!LinuxResources
  <2>2. DOMAIN s.prios = 1 .. Len(s.prios) /\ Len(s.prios) \in Nat
    BY <2>1
  <2>3. ASSUME NEW z \in DOMAIN s.prios
        PROVE  Control!Setting("net_prio.ifpriomap", s.prios[z].name, s.prios[z].prio)
                 \in SettingsOf("net_prio")
    <3>1. s.prios[z] \in R
      <4> HIDE DEF R
      <4> QED
        BY <2>1, <2>3
    <3>2. s.prios[z].name \in STRING /\ s.prios[z].prio \in Int
      BY <3>1
    <3> QED
      BY <3>2 DEF Control!Setting, SettingsOf, Setting1, Value, CpuCells, DeviceFiles, PlainFiles
  <2> QED
    BY <2>2, <2>3 DEF Control!NetPrioSettings
<1>2. Control!HugetlbSettings(s) \in Seq(SettingsOf("hugetlb"))
  <2> DEFINE R == [size : STRING, limit : Nat]
  <2>1. s.huge \in Seq(R)
    BY DEF Control!LinuxResources
  <2>2. DOMAIN s.huge = 1 .. Len(s.huge) /\ Len(s.huge) \in Nat
    BY <2>1
  <2>3. ASSUME NEW z \in DOMAIN s.huge
        PROVE  Control!Setting("hugetlb.limit_in_bytes", s.huge[z].size, s.huge[z].limit)
                 \in SettingsOf("hugetlb")
    <3>1. s.huge[z] \in R
      <4> HIDE DEF R
      <4> QED
        BY <2>1, <2>3
    <3>2. s.huge[z].size \in STRING /\ s.huge[z].limit \in Int
      BY <3>1
    <3> QED
      BY <3>2 DEF Control!Setting, SettingsOf, Setting1, Value, CpuCells, DeviceFiles, PlainFiles
  <2> QED
    BY <2>2, <2>3 DEF Control!HugetlbSettings
<1> QED
  BY <1>1, <1>2

LEMMA DevicesOf ==
  ASSUME NEW s \in Control!LinuxResources
  PROVE  Control!DevicesSettings(s) \in Seq(SettingsOf("devices"))
<1> DEFINE R == [allow : BOOLEAN, type : STRING, major : SUBSET Int, minor : SUBSET Int,
                 access : STRING]
           x(d) == Control!Setting(IF d.allow THEN "devices.allow" ELSE "devices.deny",
                     Control!Blank,
                     <<IF d.type = Control!Blank THEN "a" ELSE d.type,
                       Control!Number(d.major), Control!Number(d.minor), d.access>>)
<1>1. s.devices \in Seq(R)
  BY DEF Control!LinuxResources
<1>2. DOMAIN s.devices = 1 .. Len(s.devices) /\ Len(s.devices) \in Nat
  BY <1>1
<1>3. ASSUME NEW z \in DOMAIN s.devices PROVE s.devices[z] \in R
  <2> HIDE DEF R
  <2> QED
    BY <1>1, <1>3
<1>4. ASSUME NEW d \in R PROVE x(d) \in SettingsOf("devices")
  <2> DEFINE v == <<IF d.type = Control!Blank THEN "a" ELSE d.type,
                    Control!Number(d.major), Control!Number(d.minor), d.access>>
             f == IF d.allow THEN "devices.allow" ELSE "devices.deny"
  <2>1. v \in (STRING \cup {"a"}) \X (SUBSET Int) \X (SUBSET Int) \X STRING
    <3>1. /\ d.type \in STRING /\ d.access \in STRING
          /\ d.major \in SUBSET Int /\ d.minor \in SUBSET Int
      BY <1>4
    <3>2. Control!Number(d.major) \in SUBSET Int /\ Control!Number(d.minor) \in SUBSET Int
      BY <3>1 DEF Control!Number
    <3>3. (IF d.type = Control!Blank THEN "a" ELSE d.type) \in STRING \cup {"a"}
      BY <3>1
    <3> QED
      BY <3>1, <3>2, <3>3
  <2>2. f \in DeviceFiles
    BY DEF DeviceFiles
  <2> HIDE DEF v, f
  <2>3. v \in Value
    BY <2>1 DEF Value
  <2>4. Control!Setting(f, Control!Blank, v) \in SettingsOf("devices")
    BY <2>2, <2>3 DEF Control!Setting, SettingsOf, Setting1, CpuCells, DeviceFiles, PlainFiles
  <2> QED
    BY <2>4 DEF v, f
<1>5. Control!DevicesSettings(s) = [z \in DOMAIN s.devices |-> x(s.devices[z])]
  BY DEF Control!DevicesSettings
<1> HIDE DEF x, R
<1> QED
  BY <1>2, <1>3, <1>4, <1>5

LEMMA RdmaOf ==
  ASSUME NEW s \in Control!LinuxResources, NEW q \in Control!RdmaSettings(s)
  PROVE  q \in Seq(SettingsOf("rdma"))
<1> DEFINE limited == {r \in s.rdma : r.device # Control!Blank /\ r.handles \cup r.objects # {}}
           x(r) == Control!Setting("rdma.max", r.device, <<r.handles, r.objects>>)
<1>1. ASSUME NEW r \in s.rdma PROVE x(r) \in SettingsOf("rdma")
  <2>1. r \in [device : STRING, handles : SUBSET Nat, objects : SUBSET Nat]
    BY DEF Control!LinuxResources
  <2>2. r.device \in STRING /\ r.handles \in SUBSET Nat /\ r.objects \in SUBSET Nat
    BY <2>1
  <2>3. <<r.handles, r.objects>> \in (SUBSET Nat) \X (SUBSET Nat)
    BY <2>2
  <2>4. <<r.handles, r.objects>> \in Value
    BY <2>3 DEF Value
  <2> HIDE DEF x
  <2>5. x(r) = [file |-> "rdma.max", key |-> r.device, v |-> <<r.handles, r.objects>>]
    BY DEF x, Control!Setting
  <2> QED
    BY <2>2, <2>4, <2>5 DEF SettingsOf, Setting1, Value, CpuCells, DeviceFiles, PlainFiles
<1>2. Control!RdmaSettings(s) = IF limited = {} THEN {<<>>} ELSE {<<x(r)>> : r \in limited}
  BY DEF Control!RdmaSettings
<1>3. limited \subseteq s.rdma
  OBVIOUS
<1> HIDE DEF x, limited
<1>4. CASE limited = {}
  BY <1>2, <1>4
<1>5. CASE limited # {}
  <2>1. PICK r \in limited : q = <<x(r)>>
    BY <1>2, <1>5
  <2> QED
    BY <1>1, <1>3, <2>1
<1> QED
  BY <1>4, <1>5

LEMMA SettingsTyped ==
  ASSUME NEW c \in Control!Controllers, NEW s \in V1Specs, NEW q \in Control!RdmaSettings(s)
  PROVE  Control!Settings(c, s, q) \in Seq(SettingsOf(c))
<1>1. s \in Control!LinuxResources
  BY ControlFacts
<1>2. /\ Control!CpuSettings(s) \in Seq(SettingsOf("cpu"))
      /\ Control!PidsSettings(s) \in Seq(SettingsOf("pids"))
      /\ Control!NetClsSettings(s) \in Seq(SettingsOf("net_cls"))
      /\ Control!NetPrioSettings(s) \in Seq(SettingsOf("net_prio"))
      /\ Control!HugetlbSettings(s) \in Seq(SettingsOf("hugetlb"))
      /\ Control!DevicesSettings(s) \in Seq(SettingsOf("devices"))
      /\ Control!BlkioSettings(s) \in Seq(SettingsOf("blkio"))
      /\ q \in Seq(SettingsOf("rdma"))
  BY <1>1, CpuOf, SimpleOf, ListsOf, DevicesOf, BlkioOf, RdmaOf
<1> QED
  BY <1>2 DEF Control!Settings, Control!Controllers

(* In what the cpu controller writes, the settings of a quota and of its   *)
(* period are those asked for, and the period is before the quota.         *)
PeriodFirst(t, per, quo, p, q) ==
    \A j \in 1 .. Len(t) :
       /\ t[j].file = per => p # {} /\ t[j].v = Control!Deref(p)
       /\ t[j].file = quo => /\ q # {} /\ t[j].v = Control!Deref(q)
                             /\ p = {} \/ \E z \in 1 .. j - 1 : t[z].file = per

Names(t, f, p) == p = {} \/ \E z \in 1 .. Len(t) : t[z].file = f

LEMMA OneMore ==
  ASSUME NEW t \in Seq(SettingsOf("cpu")), NEW f \in CpuCells \cup PlainFiles, NEW w \in SUBSET Int
  PROVE  /\ t \o Control!One(f, w) \in Seq(SettingsOf("cpu"))
         /\ \A g, p : Names(t, g, p) => Names(t \o Control!One(f, w), g, p)
         /\ Names(t \o Control!One(f, w), f, w)
         /\ \A per, quo, p, q :
               /\ PeriodFirst(t, per, quo, p, q)
               /\ f = per => w = p
               /\ f = quo => w = q /\ Names(t, per, p)
               => PeriodFirst(t \o Control!One(f, w), per, quo, p, q)
<1>1. CASE w = {}
  <2>1. Control!One(f, w) = <<>>
    BY <1>1, EachIs DEF Control!One
  <2>2. t \o <<>> = t
    OBVIOUS
  <2>3. Names(t, f, w)
    BY <1>1 DEF Names
  <2> QED
    BY <2>1, <2>2, <2>3
<1>2. CASE w # {}
  <2> DEFINE x == [file |-> f, key |-> Control!Blank, v |-> Control!Deref(w)]
             u == Append(t, x)
  <2>1. Control!One(f, w) = <<x>>
    BY <1>2, EachIs DEF Control!One
  <2>2. x.file = f /\ x.v = Control!Deref(w)
    OBVIOUS
  <2>3. x \in SettingsOf("cpu")
    <3>1. Control!One(f, w) \in Seq(SettingsOf("cpu"))
      BY OneOf DEF Control!Controllers
    <3>2. <<x>> \in Seq(SettingsOf("cpu"))
      BY <2>1, <3>1, Zenon
    <3> HIDE DEF x
    <3>3. Len(<<x>>) = 1 /\ <<x>>[1] = x
      OBVIOUS
    <3> QED
      BY <3>2, <3>3
  <2> HIDE DEF x
  <2>4. t \o <<x>> = u
    OBVIOUS
  <2>5. /\ u \in Seq(SettingsOf("cpu")) /\ Len(u) = Len(t) + 1 /\ Len(t) \in Nat
        /\ u[Len(t) + 1] = x /\ \A z \in 1 .. Len(t) : u[z] = t[z]
    BY <2>3
  <2> HIDE DEF u
  <2>6. ASSUME NEW g, NEW p, Names(t, g, p) PROVE Names(u, g, p)
    BY <2>5, <2>6 DEF Names
  <2>7. Names(u, f, w)
    <3>1. Len(t) + 1 \in 1 .. Len(u)
      BY <2>5
    <3> QED
      BY <2>2, <2>5, <3>1 DEF Names
  <2>8. ASSUME NEW per, NEW quo, NEW p, NEW q, PeriodFirst(t, per, quo, p, q),
               f = per => w = p, f = quo => w = q /\ Names(t, per, p)
        PROVE  PeriodFirst(u, per, quo, p, q)
    <3> SUFFICES ASSUME NEW j \in 1 .. Len(u)
                 PROVE  /\ u[j].file = per => p # {} /\ u[j].v = Control!Deref(p)
                        /\ u[j].file = quo =>
                             /\ q # {} /\ u[j].v = Control!Deref(q)
                             /\ p = {} \/ \E z \in 1 .. j - 1 : u[z].file = per
      BY DEF PeriodFirst
    <3>1. CASE j \in 1 .. Len(t)
      <4>1. u[j] = t[j] /\ \A z \in 1 .. j - 1 : u[z] = t[z]
        BY <2>5, <3>1
      <4> QED
        BY <2>8, <3>1, <4>1 DEF PeriodFirst
    <3>2. CASE j = Len(t) + 1
      <4>1. u[j] = x /\ \A z \in 1 .. j - 1 : u[z] = t[z]
        BY <2>5, <3>2
      <4>2. f = quo => p = {} \/ \E z \in 1 .. j - 1 : u[z].file = per
        BY <2>5, <2>8, <3>2, <4>1 DEF Names
      <4> QED
        BY <1>2, <2>2, <2>8, <4>1, <4>2
    <3> QED
      BY <2>5, <3>1, <3>2
  <2>9. t \o Control!One(f, w) = u
    BY <2>1, <2>4
  <2> QED
    BY <2>5, <2>6, <2>7, <2>8, <2>9
<1> QED
  BY <1>1, <1>2

LEMMA CpuOrder ==
  ASSUME NEW s \in Control!LinuxResources
  PROVE  /\ PeriodFirst(Control!CpuSettings(s), "cpu.cfs_period_us", "cpu.cfs_quota_us",
                        s.period, s.quota)
         /\ PeriodFirst(Control!CpuSettings(s), "cpu.rt_period_us", "cpu.rt_runtime_us",
                        s.rtPeriod, s.rtRuntime)
<1>1. /\ s.rtPeriod \in SUBSET Int /\ s.rtRuntime \in SUBSET Int /\ s.shares \in SUBSET Int
      /\ s.period \in SUBSET Int /\ s.quota \in SUBSET Int
  BY DEF Control!LinuxResources
<1> DEFINE T == Seq(SettingsOf("cpu"))
           Cfs(t) == PeriodFirst(t, "cpu.cfs_period_us", "cpu.cfs_quota_us", s.period, s.quota)
           Rt(t)  == PeriodFirst(t, "cpu.rt_period_us", "cpu.rt_runtime_us", s.rtPeriod, s.rtRuntime)
           t0 == <<>>
           t1 == t0 \o Control!One("cpu.rt_period_us", s.rtPeriod)
           t2 == t1 \o Control!One("cpu.rt_runtime_us", s.rtRuntime)
           t3 == t2 \o Control!One("cpu.shares", s.shares)
           t4 == t3 \o Control!One("cpu.cfs_period_us", s.period)
           t5 == t4 \o Control!One("cpu.cfs_quota_us", s.quota)
<1>2. t0 \in T /\ Cfs(t0) /\ Rt(t0)
  BY DEF PeriodFirst
<1>3. {"cpu.rt_period_us", "cpu.rt_runtime_us", "cpu.shares", "cpu.cfs_period_us",
       "cpu.cfs_quota_us"} \subseteq CpuCells \cup PlainFiles
  BY DEF CpuCells, PlainFiles
<1> HIDE DEF t0
<1>4. t1 \in T /\ Names(t1, "cpu.rt_period_us", s.rtPeriod) /\ Cfs(t1) /\ Rt(t1)
  BY <1>1, <1>2, <1>3, OneMore
<1> HIDE DEF t1
<1>5. t2 \in T /\ Cfs(t2) /\ Rt(t2)
  BY <1>1, <1>3, <1>4, OneMore
<1> HIDE DEF t2
<1>6. t3 \in T /\ Cfs(t3) /\ Rt(t3)
  BY <1>1, <1>3, <1>5, OneMore
<1> HIDE DEF t3
<1>7. t4 \in T /\ Names(t4, "cpu.cfs_period_us", s.period) /\ Cfs(t4) /\ Rt(t4)
  BY <1>1, <1>3, <1>6, OneMore
<1> HIDE DEF t4
<1>8. t5 \in T /\ Cfs(t5) /\ Rt(t5)
  BY <1>1, <1>3, <1>7, OneMore
<1>9. Control!CpuSettings(s) = t5
  <2>1. /\ Control!One("cpu.rt_period_us", s.rtPeriod) \in T
        /\ Control!One("cpu.rt_runtime_us", s.rtRuntime) \in T
        /\ Control!One("cpu.shares", s.shares) \in T
        /\ Control!One("cpu.cfs_period_us", s.period) \in T
        /\ Control!One("cpu.cfs_quota_us", s.quota) \in T
    BY <1>1, <1>3, OneOf DEF Control!Controllers
  <2>2. <<>> \o Control!One("cpu.rt_period_us", s.rtPeriod) = Control!One("cpu.rt_period_us", s.rtPeriod)
    BY <2>1
  <2> QED
    BY <2>2 DEF Control!CpuSettings, t0, t1, t2, t3, t4
<1> QED
  BY <1>8, <1>9

(* What fits in a period fits in a longer one.                             *)
LEMMA FitsLonger ==
  ASSUME NEW q \in Int, NEW p \in Int, NEW r \in Int, p <= r,
         NEW l \in [quota : Int, period : Nat \ {0}], Control!Fits(q, p, l)
  PROVE  Control!Fits(q, r, l)
<1> DEFINE a == l.quota
           b == q * l.period
<1>1. a \in Int /\ b \in Int /\ r > 0
  BY DEF Control!Fits
<1>2. CASE q < 0 \/ a < 0
  BY <1>1, <1>2 DEF Control!Fits
<1>3. CASE ~(q < 0 \/ a < 0)
  <2>1. b <= a * p /\ a >= 0
    BY <1>1, <1>3 DEF Control!Fits
  <2> HIDE DEF a, b
  <2>2. a * (r - p) >= 0
    BY <1>1, <2>1
  <2>3. a * (r - p) = a * r - a * p /\ a * r \in Int /\ a * p \in Int
    BY <1>1
  <2>4. b <= a * r
    BY <1>1, <2>1, <2>2, <2>3
  <2> QED
    BY <1>1, <2>4 DEF Control!Fits, a, b
<1> QED
  BY <1>2, <1>3

Cell(g, f) == g[<<f, Control!Blank>>]

Cells(g) ==
    /\ DOMAIN Control!Fresh \subseteq DOMAIN g
    /\ \A f \in CpuCells : <<f, Control!Blank>> \in DOMAIN g /\ Cell(g, f) \in Int
    /\ Control!CfsFits(g) /\ Control!RtFits(g)

ControlCall ==
    [at : {"idle", "next", "write", "nil", "err"}, op : {"new", "update"}, spec : V1Specs,
     rdma : Seq(SettingsOf("rdma")), ctrls : Seq(Control!Controllers), todo : Seq(Setting1)]

Asked(c, r) == Control!Settings(c, r.spec, r.rdma)

Holds(g, x) == <<x.file, x.key>> \in DOMAIN g /\ g[<<x.file, x.key>>] = x.v

(* The last k rules are the first k settings.                              *)
EndsWith(rs, t, k) ==
    k <= Len(rs) /\ \A z \in 1 .. k : rs[Len(rs) - k + z] = <<t[z].file, t[z].v>>

(* The first k settings of a controller have been written.                 *)
Written(c, r, g, rs, k) ==
    /\ c = "devices" => EndsWith(rs, Asked(c, r), k)
    /\ c # "devices" => \A z \in 1 .. k : Holds(g, Asked(c, r)[z])

Over(r) == Len(Asked(Head(r.ctrls), r)) - Len(r.todo)

(* What a call has still to write is the rest of what its controller asks. *)
Sequel(r) ==
    /\ r.ctrls # <<>> /\ Over(r) >= 0
    /\ \A z \in 1 .. Len(r.todo) : r.todo[z] = Asked(Head(r.ctrls), r)[Over(r) + z]

Going(op) ==
    Control!Selected(V1Order, IF op = "new" THEN Control!Controllers ELSE Control!Updaters)

Progress(r, g, rs) ==
    /\ r.at \in {"next", "write", "nil"} =>
         \A c \in Control!Controllers :
            \/ \A j \in 1 .. Len(Going(r.op)) : Going(r.op)[j] # c
            \/ \E j \in 1 .. Len(r.ctrls) : r.ctrls[j] = c
            \/ Written(c, r, g, rs, Len(Asked(c, r)))
    /\ r.at = "write" => Written(Head(r.ctrls), r, g, rs, Over(r))
    /\ r.at = "nil" => r.ctrls = <<>>

(* A quota and its period are as they were, or as asked; the quota only    *)
(* when the period is; and the period comes before the quota.              *)
Band(r, g, b, per, quo, p, q) ==
    /\ \/ Cell(g, per) = Cell(b, per) /\ Cell(g, quo) = Cell(b, quo)
       \/ Cell(g, per) = Control!Or(p, Cell(b, per)) /\ Cell(g, quo) = Cell(b, quo)
       \/ /\ Cell(g, per) = Control!Or(p, Cell(b, per))
          /\ Cell(g, quo) = Control!Or(q, Cell(b, quo))
    /\ r.at = "write" =>
         \A j \in 1 .. Len(r.todo) :
            /\ r.todo[j].file = per => p # {} /\ r.todo[j].v = Control!Deref(p)
            /\ r.todo[j].file = quo =>
                 /\ q # {} /\ r.todo[j].v = Control!Deref(q)
                 /\ \/ Cell(g, per) = Control!Or(p, Cell(b, per))
                    \/ \E z \in 1 .. j - 1 : r.todo[z].file = per

Bands(r, g, b) ==
    r.at \in {"next", "write"} =>
      /\ Band(r, g, b, "cpu.cfs_period_us", "cpu.cfs_quota_us", r.spec.period, r.spec.quota)
      /\ Band(r, g, b, "cpu.rt_period_us", "cpu.rt_runtime_us", r.spec.rtPeriod, r.spec.rtRuntime)

ControlInv ==
    /\ dirs \subseteq Control!Controllers /\ rules \in Seq(DeviceFiles \X Value)
    /\ v1call \in ControlCall
    /\ v1calls \in 0 .. Calls /\ removals \in 0 .. Removals /\ still \in BOOLEAN
    /\ Cells(written) /\ Cells(before)
    /\ v1call.at # "idle" => v1call.rdma \in Control!RdmaSettings(v1call.spec)
    /\ v1call.at = "write" => Sequel(v1call)
    /\ still /\ v1call.at = "write" => Head(v1call.ctrls) \in dirs
    /\ still => Bands(v1call, written, before)
    /\ still /\ Control!OneValueEach => Progress(v1call, written, rules)
    /\ Control!OrderIsAccepted

LEMMA WithIs ==
  ASSUME NEW g, NEW e, NEW v
  PROVE  /\ DOMAIN Control!With(g, e, v) = DOMAIN g \cup {e} /\ Control!With(g, e, v)[e] = v
         /\ \A o \in DOMAIN g : o # e => Control!With(g, e, v)[o] = g[o]
  BY DEF Control!With

LEMMA FreshIs ==
  /\ DOMAIN Control!Fresh = CpuCells \X {Control!Blank}
  /\ Cell(Control!Fresh, "cpu.cfs_quota_us") = -1 /\ Cell(Control!Fresh, "cpu.rt_runtime_us") = 0
  /\ Cell(Control!Fresh, "cpu.cfs_period_us") = Period
  /\ Cell(Control!Fresh, "cpu.rt_period_us") = Period
  BY DEF Control!Fresh, CpuCells, Cell

LEMMA CellsFresh == Cells(Control!Fresh)
<1>1. Period \in Int /\ Period > 0 /\ -1 \in Int /\ 0 \in Int
  BY ControlFacts
<1>2. \A f \in CpuCells : <<f, Control!Blank>> \in DOMAIN Control!Fresh /\ Cell(Control!Fresh, f) \in Int
  BY <1>1, FreshIs DEF CpuCells
<1>3. Control!CfsFits(Control!Fresh)
  BY <1>1, FreshIs DEF Control!CfsFits, Control!Fits, Cell
<1>4. Control!RtFits(Control!Fresh)
  <2> DEFINE l == AboveRt
  <2>1. l.quota \in Int /\ l.period \in Nat
    BY ControlFacts
  <2>2. 0 * l.period = 0 /\ (l.quota >= 0 => l.quota * Period >= 0)
    BY <1>1, <2>1
  <2>3. Control!Fits(0, Period, l)
    BY <1>1, <2>1, <2>2 DEF Control!Fits
  <2> QED
    BY <2>3, FreshIs DEF Control!RtFits, Cell
<1> QED
  BY <1>2, <1>3, <1>4 DEF Cells

LEMMA GoingIs ==
  ASSUME NEW op
  PROVE  /\ Going(op) \in Seq(Control!Controllers)
         /\ \A c \in Control!Controllers :
               /\ op = "new" \/ c \in Control!Updaters
               /\ \E z \in 1 .. Len(V1Order) : V1Order[z] = c
               => \E z \in 1 .. Len(Going(op)) : Going(op)[z] = c
<1> DEFINE S == IF op = "new" THEN Control!Controllers ELSE Control!Updaters
<1>1. V1Order \in Seq(Control!Controllers)
  BY ControlFacts
<1>2. Going(op) = Selected(V1Order, S)
  BY DEF Going, Control!Selected, Selected
<1>3. \A c \in Control!Controllers : op = "new" \/ c \in Control!Updaters => c \in S
  OBVIOUS
<1> HIDE DEF S
<1>4. /\ Selected(V1Order, S) \in Seq(Control!Controllers)
      /\ \A j \in 1 .. Len(V1Order) :
            V1Order[j] \in S => \E z \in 1 .. Len(Selected(V1Order, S)) : Selected(V1Order, S)[z] = V1Order[j]
  BY <1>1, SelectedIs
<1> QED
  BY <1>2, <1>3, <1>4

LEMMA ControlStarts ==
  ASSUME Control!Init
  PROVE  ControlInv
<1> DEFINE r == [at |-> "idle", op |-> "new", spec |-> CHOOSE s \in V1Specs : TRUE,
                 rdma |-> <<>>, ctrls |-> <<>>, todo |-> <<>>]
<1>1. /\ dirs = {} /\ written = Control!Fresh /\ rules = <<>> /\ v1calls = 0 /\ removals = 0
      /\ before = Control!Fresh /\ still = TRUE /\ v1call = r
  BY DEF Control!Init
<1>2. r \in ControlCall /\ r.at = "idle"
  <2>1. (CHOOSE s \in V1Specs : TRUE) \in V1Specs
    BY ControlFacts
  <2> QED
    BY <2>1 DEF ControlCall
<1> HIDE DEF r
<1>3. Cells(written) /\ Cells(before)
  BY <1>1, CellsFresh
<1>4. Calls \in Nat /\ Removals \in Nat
  BY ControlFacts
<1>5. Control!OrderIsAccepted
  BY <1>1, <1>2 DEF Control!OrderIsAccepted
<1> QED
  BY <1>1, <1>2, <1>3, <1>4, <1>5 DEF ControlInv, Bands, Progress

LEMMA ControlRmdir ==
  ASSUME ControlInv, NEW c \in Control!Controllers, Control!Rmdir(c)
  PROVE  ControlInv'
<1>1. /\ dirs' = dirs \ {c} /\ still' = FALSE /\ removals' = removals + 1 /\ removals < Removals
      /\ written' = IF c # "cpu" THEN written
                    ELSE [f \in DOMAIN written |->
                            IF f \in DOMAIN Control!Fresh THEN Control!Fresh[f] ELSE written[f]]
      /\ rules' = rules /\ v1call' = v1call /\ v1calls' = v1calls /\ before' = before
  BY DEF Control!Rmdir
<1>2. Cells(written')
  <2>1. CASE c # "cpu"
    BY <1>1, <2>1 DEF ControlInv
  <2>2. CASE c = "cpu"
    <3> DEFINE g == [f \in DOMAIN written |->
                       IF f \in DOMAIN Control!Fresh THEN Control!Fresh[f] ELSE written[f]]
    <3>1. DOMAIN Control!Fresh \subseteq DOMAIN written
      BY DEF ControlInv, Cells
    <3>2. DOMAIN g = DOMAIN written /\ \A f \in DOMAIN Control!Fresh : g[f] = Control!Fresh[f]
      BY <3>1
    <3> HIDE DEF g
    <3>3. /\ \A f \in CpuCells : <<f, Control!Blank>> \in DOMAIN Control!Fresh
          /\ \A f \in CpuCells : Cell(g, f) = Cell(Control!Fresh, f)
      BY <3>2, CellsFresh DEF Cells, Cell
    <3>4. Control!CfsFits(g) /\ Control!RtFits(g)
      BY <3>3, CellsFresh DEF Cells, Cell, CpuCells, Control!CfsFits, Control!RtFits
    <3>5. Cells(g)
      BY <3>1, <3>2, <3>3, <3>4, CellsFresh DEF Cells
    <3> QED
      BY <1>1, <2>2, <3>5 DEF g
  <2> QED
    BY <2>1, <2>2
<1>3. removals' \in 0 .. Removals
  BY <1>1, ControlFacts DEF ControlInv
<1>4. Control!OrderIsAccepted'
  BY <1>1 DEF Control!OrderIsAccepted
<1> QED
  BY <1>1, <1>2, <1>3, <1>4 DEF ControlInv

(* Before anything is written, cells are as they were.                     *)
LEMMA ControlBegin ==
  ASSUME ControlInv, NEW op \in {"new", "update"}, Control!Begin(op)
  PROVE  ControlInv'
<1>1. /\ dirs' = dirs /\ written' = written /\ rules' = rules /\ removals' = removals
      /\ v1calls' = v1calls + 1 /\ v1calls < Calls /\ before' = written /\ still' = TRUE
  BY DEF Control!Begin
<1>2. PICK s \in V1Specs : \E q \in Control!RdmaSettings(s) :
        v1call' = [at |-> "next", op |-> op, spec |-> s, rdma |-> q, ctrls |-> Going(op),
                   todo |-> <<>>]
  BY DEF Control!Begin, Going
<1>3. PICK q \in Control!RdmaSettings(s) :
        v1call' = [at |-> "next", op |-> op, spec |-> s, rdma |-> q, ctrls |-> Going(op),
                   todo |-> <<>>]
  BY <1>2
<1> DEFINE r == [at |-> "next", op |-> op, spec |-> s, rdma |-> q, ctrls |-> Going(op),
                 todo |-> <<>>]
<1>4. q \in Seq(SettingsOf("rdma"))
  <2>1. s \in Control!LinuxResources
    BY ControlFacts
  <2> QED
    BY <2>1, RdmaOf
<1>5. /\ r \in ControlCall /\ r.at = "next" /\ r.op = op /\ r.ctrls = Going(op)
      /\ r.spec = s /\ r.rdma = q
  BY <1>4, GoingIs DEF ControlCall
<1>6. v1call' = r
  BY <1>3
<1> HIDE DEF r
<1>7. Progress(r, written, rules)
  BY <1>5 DEF Progress
<1>8. Bands(r, written, written)
  BY <1>5 DEF Bands, Band
<1>9. Control!OrderIsAccepted'
  BY <1>5, <1>6 DEF Control!OrderIsAccepted
<1>10. v1calls' \in 0 .. Calls
  BY <1>1, ControlFacts DEF ControlInv
<1>11. Cells(written') /\ Cells(before')
  BY <1>1 DEF ControlInv
<1> QED
  BY <1>1, <1>5, <1>6, <1>7, <1>8, <1>9, <1>10, <1>11 DEF ControlInv

(* The settings of a controller keep a quota behind its period.            *)
LEMMA BandStarts ==
  ASSUME NEW r, NEW m, NEW g, NEW b, NEW per, NEW quo, NEW p, NEW q,
         Band(r, g, b, per, quo, p, q),
         PeriodFirst(m.todo, per, quo, p, q)
  PROVE  Band(m, g, b, per, quo, p, q)
<1>1. p = {} => Cell(g, per) = Control!Or(p, Cell(b, per))
  BY DEF Band, Control!Or
<1> QED
  BY <1>1 DEF Band, PeriodFirst

LEMMA ControlMkdir ==
  ASSUME ControlInv, Control!Mkdir
  PROVE  ControlInv'
<1> DEFINE r == v1call
           h == Head(r.ctrls)
           m == [r EXCEPT !.at = "write", !.todo = Asked(h, r)]
<1>1. /\ r.at = "next" /\ r.ctrls # <<>> /\ dirs' = dirs \cup {h} /\ v1call' = m
      /\ written' = written /\ rules' = rules /\ v1calls' = v1calls /\ removals' = removals
      /\ before' = before /\ still' = still
  BY DEF Control!Mkdir, Asked
<1>2. r \in ControlCall /\ r.rdma \in Control!RdmaSettings(r.spec) /\ r.spec \in V1Specs
  BY <1>1 DEF ControlInv, ControlCall
<1>3. h \in Control!Controllers
  <2>1. r.ctrls \in Seq(Control!Controllers)
    BY <1>2 DEF ControlCall
  <2> QED
    BY <1>1, <2>1
<1> DEFINE t == Asked(h, r)
<1>4. t \in Seq(SettingsOf(h)) /\ t \in Seq(Setting1)
  <2>1. t \in Seq(SettingsOf(h))
    BY <1>2, <1>3, SettingsTyped DEF Asked
  <2> HIDE DEF t
  <2>2. \A z \in 1 .. Len(t) : t[z] \in Setting1
    BY <2>1 DEF SettingsOf
  <2> QED
    BY <2>1, <2>2
<1> HIDE DEF t
<1>5. /\ m \in ControlCall /\ m.at = "write" /\ m.todo = t /\ m.ctrls = r.ctrls
      /\ m.op = r.op /\ m.spec = r.spec /\ m.rdma = r.rdma
  BY <1>2, <1>4 DEF ControlCall, t
<1> HIDE DEF m
<1>6. \A c : Asked(c, m) = Asked(c, r)
  BY <1>5 DEF Asked
<1>7. Head(m.ctrls) = h /\ Asked(h, m) = t /\ Over(m) = 0
  BY <1>4, <1>5, <1>6 DEF Over, t
<1>8. Sequel(m)
  BY <1>1, <1>4, <1>5, <1>7 DEF Sequel
<1>9. ASSUME still, Control!OneValueEach PROVE Progress(m, written, rules)
  <2>1. Progress(r, written, rules)
    BY <1>9 DEF ControlInv
  <2>2. Written(h, m, written, rules, 0)
    <3>1. rules \in Seq(DeviceFiles \X Value)
      BY DEF ControlInv
    <3>2. Len(rules) \in Nat
      BY <3>1
    <3> QED
      BY <3>2 DEF Written, EndsWith
  <2>3. \A c \in Control!Controllers :
            \/ \A j \in 1 .. Len(Going(m.op)) : Going(m.op)[j] # c
            \/ \E j \in 1 .. Len(m.ctrls) : m.ctrls[j] = c
            \/ Written(c, m, written, rules, Len(Asked(c, m)))
    BY <1>1, <1>5, <1>6, <2>1 DEF Progress, Written
  <2> QED
    BY <1>5, <1>7, <2>2, <2>3 DEF Progress
<1>10. ASSUME still PROVE Bands(m, written, before)
  <2>1. Bands(r, written, before)
    BY <1>10 DEF ControlInv
  <2>2. /\ PeriodFirst(t, "cpu.cfs_period_us", "cpu.cfs_quota_us", r.spec.period, r.spec.quota)
        /\ PeriodFirst(t, "cpu.rt_period_us", "cpu.rt_runtime_us", r.spec.rtPeriod, r.spec.rtRuntime)
    <3>1. CASE h = "cpu"
      <4>1. t = Control!CpuSettings(r.spec)
        BY <3>1 DEF t, Asked, Control!Settings
      <4> QED
        BY <1>2, <4>1, CpuOrder, ControlFacts
    <3>2. CASE h # "cpu"
      <4>1. \A j \in 1 .. Len(t) : t[j].file \notin CpuCells
        BY <1>4, <3>2 DEF SettingsOf
      <4> QED
        BY <4>1 DEF PeriodFirst, CpuCells
    <3> QED
      BY <3>1, <3>2
  <2> QED
    BY <1>1, <1>5, <2>1, <2>2, BandStarts DEF Bands
<1>11. Control!OrderIsAccepted'
  BY <1>1, <1>5 DEF Control!OrderIsAccepted
<1>12. dirs' \subseteq Control!Controllers /\ Head(m.ctrls) \in dirs'
  BY <1>1, <1>3, <1>7 DEF ControlInv
<1> QED
  BY <1>1, <1>2, <1>5, <1>8, <1>9, <1>10, <1>11, <1>12 DEF ControlInv

LEMMA ControlNextController ==
  ASSUME ControlInv, Control!NextController
  PROVE  ControlInv'
<1> DEFINE r == v1call
           h == Head(r.ctrls)
           m == [r EXCEPT !.at = "next", !.ctrls = Tail(r.ctrls)]
<1>1. /\ r.at = "write" /\ r.todo = <<>> /\ dirs' = dirs /\ v1call' = m
      /\ written' = written /\ rules' = rules /\ v1calls' = v1calls /\ removals' = removals
      /\ before' = before /\ still' = still
  BY DEF Control!NextController
<1>2. /\ r \in ControlCall /\ r.rdma \in Control!RdmaSettings(r.spec) /\ r.ctrls # <<>>
      /\ r.ctrls \in Seq(Control!Controllers)
  BY <1>1 DEF ControlInv, ControlCall, Sequel
<1>3. Tail(r.ctrls) \in Seq(Control!Controllers)
  BY <1>2
<1>4. /\ m \in ControlCall /\ m.at = "next" /\ m.ctrls = Tail(r.ctrls)
      /\ m.op = r.op /\ m.spec = r.spec /\ m.rdma = r.rdma
  BY <1>2, <1>3 DEF ControlCall
<1> HIDE DEF m
<1>5. \A c : Asked(c, m) = Asked(c, r)
  BY <1>4 DEF Asked
<1>6. ASSUME still, Control!OneValueEach PROVE Progress(m, written, rules)
  <2>1. Progress(r, written, rules)
    BY <1>6 DEF ControlInv
  <2>2. Written(h, r, written, rules, Len(Asked(h, r)))
    <3>1. Len(r.todo) = 0
      BY <1>1
    <3>2. Over(r) = Len(Asked(h, r))
      <4>1. h \in Control!Controllers /\ r.spec \in V1Specs
        BY <1>2 DEF ControlCall
      <4>2. Asked(h, r) \in Seq(SettingsOf(h))
        BY <1>2, <4>1, SettingsTyped DEF Asked
      <4>3. Len(Asked(h, r)) \in Nat
        BY <4>2
      <4> HIDE DEF h
      <4> QED
        BY <3>1, <4>3 DEF Over, h
    <3> QED
      BY <1>1, <2>1, <3>2 DEF Progress
  <2>3. ASSUME NEW c \in Control!Controllers
        PROVE  \/ \A j \in 1 .. Len(Going(m.op)) : Going(m.op)[j] # c
               \/ \E j \in 1 .. Len(m.ctrls) : m.ctrls[j] = c
               \/ Written(c, m, written, rules, Len(Asked(c, m)))
    <3>1. CASE c = h
      BY <1>5, <2>2, <3>1 DEF Written
    <3>2. CASE (\E j \in 1 .. Len(r.ctrls) : r.ctrls[j] = c) /\ c # h
      <4>1. PICK j \in 1 .. Len(r.ctrls) : r.ctrls[j] = c
        BY <3>2
      <4>2. r.ctrls[1] = h
        BY <1>2
      <4>3. j - 1 \in 1 .. Len(m.ctrls) /\ m.ctrls[j - 1] = c
        BY <1>2, <1>4, <3>2, <4>1, <4>2
      <4> QED
        BY <4>3
    <3>3. CASE ~\E j \in 1 .. Len(r.ctrls) : r.ctrls[j] = c
      BY <1>1, <1>4, <1>5, <2>1, <3>3 DEF Progress, Written
    <3> QED
      BY <3>1, <3>2, <3>3
  <2> QED
    BY <1>4, <2>3 DEF Progress
<1>7. ASSUME still PROVE Bands(m, written, before)
  <2>1. Bands(r, written, before)
    BY <1>7 DEF ControlInv
  <2> QED
    BY <1>1, <1>4, <2>1 DEF Bands, Band
<1>8. Control!OrderIsAccepted'
  BY <1>1, <1>4 DEF Control!OrderIsAccepted
<1> QED
  BY <1>1, <1>2, <1>4, <1>6, <1>7, <1>8 DEF ControlInv

LEMMA ControlReturn ==
  ASSUME ControlInv, Control!Return
  PROVE  ControlInv'
<1> DEFINE r == v1call
           m == [r EXCEPT !.at = "nil"]
<1>1. /\ r.at = "next" /\ r.ctrls = <<>> /\ dirs' = dirs /\ v1call' = m
      /\ written' = written /\ rules' = rules /\ v1calls' = v1calls /\ removals' = removals
      /\ before' = before /\ still' = still
  BY DEF Control!Return
<1>2. r \in ControlCall /\ r.rdma \in Control!RdmaSettings(r.spec)
  BY <1>1 DEF ControlInv
<1>3. /\ m \in ControlCall /\ m.at = "nil" /\ m.ctrls = r.ctrls
      /\ m.op = r.op /\ m.spec = r.spec /\ m.rdma = r.rdma
  BY <1>2 DEF ControlCall
<1> HIDE DEF m
<1>4. \A c : Asked(c, m) = Asked(c, r)
  BY <1>3 DEF Asked
<1>5. ASSUME still, Control!OneValueEach PROVE Progress(m, written, rules)
  <2>1. Progress(r, written, rules)
    BY <1>5 DEF ControlInv
  <2> QED
    BY <1>1, <1>3, <1>4, <2>1 DEF Progress, Written
<1>6. Bands(m, written, before)
  BY <1>3 DEF Bands
<1>7. Control!OrderIsAccepted'
  BY <1>1, <1>3 DEF Control!OrderIsAccepted
<1> QED
  BY <1>1, <1>2, <1>3, <1>5, <1>6, <1>7 DEF ControlInv

LEMMA OneDown ==
  ASSUME NEW j \in Nat, NEW l \in Nat, j <= l, NEW z \in Nat, z # 1, 1 <= z, z <= j
  PROVE  z - 1 \in 1 .. j - 1 /\ z - 1 \in 1 .. l /\ (z - 1) + 1 = z
  OBVIOUS

LEMMA BandWritten ==
  ASSUME NEW r, NEW m, NEW g, NEW n, NEW b, NEW per, NEW quo, NEW p, NEW q,
         Band(r, g, b, per, quo, p, q), r.at = "write",
         r.todo \in Seq(Setting1), r.todo # <<>>, m.todo = Tail(r.todo), per # quo,
         Head(r.todo).file \in {per, quo} => Head(r.todo).key = Control!Blank,
         <<per, Control!Blank>> \in DOMAIN g, <<quo, Control!Blank>> \in DOMAIN g,
         n = Control!With(g, <<Head(r.todo).file, Head(r.todo).key>>, Head(r.todo).v)
  PROVE  /\ Band(m, n, b, per, quo, p, q)
         /\ Head(r.todo).file \in {per, quo} =>
              /\ Cell(n, per) = Control!Or(p, Cell(b, per))
              /\ Cell(n, quo) \in {Cell(b, quo), Control!Or(q, Cell(b, quo))}
<1> DEFINE x == Head(r.todo)
           e == <<x.file, x.key>>
           op == Control!Or(p, Cell(b, per))
           oq == Control!Or(q, Cell(b, quo))
<1>1. x = r.todo[1] /\ Len(r.todo) \in Nat /\ Len(r.todo) >= 1
  OBVIOUS
<1>2. Len(m.todo) = Len(r.todo) - 1 /\ \A j \in 1 .. Len(m.todo) : m.todo[j] = r.todo[j + 1]
  BY <1>1
<1>3. n = Control!With(g, e, x.v)
  OBVIOUS
<1> HIDE DEF x, e
<1>4. /\ n[e] = x.v
      /\ \A o \in DOMAIN g : o # e => n[o] = g[o]
  <2> DEFINE v == x.v
  <2> HIDE DEF v
  <2>1. /\ Control!With(g, e, v)[e] = v
        /\ \A o \in DOMAIN g : o # e => Control!With(g, e, v)[o] = g[o]
    BY ONLY DEF Control!With
  <2>2. n = Control!With(g, e, v)
    BY <1>3 DEF v
  <2> QED
    BY <2>1, <2>2, Zenon DEF v
<1>5. /\ x.file = per => e = <<per, Control!Blank>>
      /\ x.file = quo => e = <<quo, Control!Blank>>
      /\ x.file # per => e # <<per, Control!Blank>>
      /\ x.file # quo => e # <<quo, Control!Blank>>
  BY DEF x, e
<1>6. /\ x.file = per => Cell(n, per) = x.v
      /\ x.file = quo => Cell(n, quo) = x.v
      /\ x.file # per => Cell(n, per) = Cell(g, per)
      /\ x.file # quo => Cell(n, quo) = Cell(g, quo)
  BY <1>4, <1>5 DEF Cell
<1>7. 1 \in 1 .. Len(r.todo)
  BY <1>1
<1>8. /\ x.file = per => x.v = op
      /\ x.file = quo => x.v = oq /\ Cell(g, per) = op
  BY <1>1, <1>7 DEF Band, Control!Or
<1>9. /\ \/ Cell(g, per) = Cell(b, per) /\ Cell(g, quo) = Cell(b, quo)
         \/ Cell(g, per) = op /\ Cell(g, quo) = Cell(b, quo)
         \/ Cell(g, per) = op /\ Cell(g, quo) = oq
  BY DEF Band
<1>10. ASSUME NEW j \in 1 .. Len(m.todo)
      PROVE  /\ m.todo[j].file = per => p # {} /\ m.todo[j].v = Control!Deref(p)
             /\ m.todo[j].file = quo =>
                 /\ q # {} /\ m.todo[j].v = Control!Deref(q)
                 /\ \/ Cell(n, per) = op
                    \/ \E z \in 1 .. j - 1 : m.todo[z].file = per
  <2>1. j \in Nat /\ j + 1 \in 1 .. Len(r.todo) /\ m.todo[j] = r.todo[j + 1]
    BY <1>1, <1>2
  <2>2. /\ r.todo[j + 1].file = per => p # {} /\ r.todo[j + 1].v = Control!Deref(p)
        /\ r.todo[j + 1].file = quo =>
                 /\ q # {} /\ r.todo[j + 1].v = Control!Deref(q)
                 /\ \/ Cell(g, per) = op
                    \/ \E z \in 1 .. (j + 1) - 1 : r.todo[z].file = per
    BY <2>1 DEF Band
  <2>3. ASSUME m.todo[j].file = quo, Cell(n, per) # op
        PROVE  \E z \in 1 .. j - 1 : m.todo[z].file = per
    <3>1. x.file # per /\ Cell(g, per) # op
      BY <1>6, <1>8, <2>3
    <3>2. PICK z \in 1 .. (j + 1) - 1 : r.todo[z].file = per
      BY <2>1, <2>2, <2>3, <3>1
    <3>3. z # 1
      BY <1>1, <3>1, <3>2
    <3>4. z \in Nat /\ 1 <= z /\ z <= j
      BY <2>1, <3>2
    <3>5. Len(m.todo) \in Nat /\ j <= Len(m.todo)
      BY <1>1, <1>2, <1>10
    <3>6. z - 1 \in 1 .. j - 1 /\ z - 1 \in 1 .. Len(m.todo) /\ (z - 1) + 1 = z
      BY <2>1, <3>3, <3>4, <3>5, OneDown
    <3>7. m.todo[z - 1] = r.todo[z]
      BY <1>2, <3>6
    <3> QED
      BY <3>2, <3>6, <3>7
  <2> QED
    BY <2>1, <2>2, <2>3
<1>11. /\ x.file = per => Cell(n, per) = op
       /\ x.file = quo => Cell(n, per) = op /\ Cell(n, quo) = oq
  BY <1>6, <1>8
<1>12. \/ Cell(n, per) = Cell(b, per) /\ Cell(n, quo) = Cell(b, quo)
       \/ Cell(n, per) = op /\ Cell(n, quo) = Cell(b, quo)
       \/ Cell(n, per) = op /\ Cell(n, quo) = oq
  BY <1>6, <1>9, <1>11
<1>13. Band(m, n, b, per, quo, p, q)
  BY <1>10, <1>12 DEF Band
<1> QED
  BY <1>11, <1>12, <1>13 DEF x

(* A quota and period that fit together, in a period that is not shorter,  *)
(* fit after each step on the way.                                         *)
LEMMA BandFits ==
  ASSUME NEW n, NEW b, NEW per, NEW quo, NEW p \in SUBSET Int, NEW q \in SUBSET Int,
         NEW l \in [quota : Int, period : Nat \ {0}],
         Cell(b, per) \in Int, Cell(b, quo) \in Int,
         Cell(n, per) = Control!Or(p, Cell(b, per)),
         Cell(n, quo) \in {Cell(b, quo), Control!Or(q, Cell(b, quo))},
         Control!Fits(Cell(b, quo), Cell(b, per), l),
         Control!Or(p, Cell(b, per)) >= Cell(b, per),
         Control!Fits(Control!Or(q, Cell(b, quo)), Control!Or(p, Cell(b, per)), l)
  PROVE  Control!Fits(Cell(n, quo), Cell(n, per), l)
<1>1. Control!Or(p, Cell(b, per)) \in Int
  <2>1. p # {} => Control!Deref(p) \in Int
    BY EachIs
  <2> QED
    BY <2>1 DEF Control!Or
<1>2. CASE Cell(n, quo) = Control!Or(q, Cell(b, quo))
  BY <1>2
<1>3. CASE Cell(n, quo) = Cell(b, quo)
  BY <1>1, <1>3, FitsLonger
<1> QED
  BY <1>2, <1>3

(* The setting that is written next.                                       *)
LEMMA HeadIs ==
  ASSUME ControlInv, v1call.at = "write", v1call.todo # <<>>
  PROVE  LET r == v1call
             h == Head(r.ctrls)
             x == Head(r.todo)
         IN  /\ r \in ControlCall /\ r.rdma \in Control!RdmaSettings(r.spec) /\ r.spec \in V1Specs
             /\ h \in Control!Controllers /\ Asked(h, r) \in Seq(SettingsOf(h))
             /\ Over(r) \in Nat /\ Over(r) + 1 \in 1 .. Len(Asked(h, r))
             /\ x = Asked(h, r)[Over(r) + 1] /\ x \in SettingsOf(h)
<1> DEFINE r == v1call
           h == Head(r.ctrls)
           x == Head(r.todo)
           t == Asked(h, r)
<1>1. /\ r \in ControlCall /\ r.rdma \in Control!RdmaSettings(r.spec) /\ r.spec \in V1Specs
      /\ r.ctrls \in Seq(Control!Controllers) /\ r.ctrls # <<>> /\ r.todo \in Seq(Setting1)
      /\ Over(r) >= 0 /\ \A z \in 1 .. Len(r.todo) : r.todo[z] = t[Over(r) + z]
  BY DEF ControlInv, ControlCall, Sequel
<1>2. h \in Control!Controllers
  BY <1>1
<1>3. t \in Seq(SettingsOf(h))
  BY <1>1, <1>2, SettingsTyped DEF Asked
<1>4. Len(t) \in Nat /\ Len(r.todo) \in Nat /\ Len(r.todo) >= 1 /\ x = r.todo[1]
  BY <1>1, <1>3
<1>5. Over(r) = Len(t) - Len(r.todo)
  BY DEF Over
<1>6. Over(r) \in Nat /\ Over(r) + 1 \in 1 .. Len(t) /\ 1 \in 1 .. Len(r.todo)
  BY <1>1, <1>4, <1>5
<1> HIDE DEF t, x, h
<1>7. x = t[Over(r) + 1] /\ x \in SettingsOf(h)
  BY <1>1, <1>3, <1>4, <1>6
<1> QED
  BY <1>1, <1>2, <1>3, <1>6, <1>7 DEF t, x, h

LEMMA SameValue ==
  ASSUME Control!OneValueEach, NEW s \in V1Specs, NEW q \in Control!RdmaSettings(s),
         NEW c \in Control!Controllers \ {"devices"}, NEW d \in Control!Controllers \ {"devices"},
         NEW z \in 1 .. Len(Control!Settings(c, s, q)), NEW j \in 1 .. Len(Control!Settings(d, s, q)),
         Control!Settings(c, s, q)[z].file = Control!Settings(d, s, q)[j].file,
         Control!Settings(c, s, q)[z].key = Control!Settings(d, s, q)[j].key
  PROVE  Control!Settings(c, s, q)[z].v = Control!Settings(d, s, q)[j].v
<1> DEFINE t == Control!Settings(c, s, q)
           u == Control!Settings(d, s, q)
<1>1. \A x \in Control!Range(t), y \in Control!Range(u) :
         x.file = y.file /\ x.key = y.key => x.v = y.v
  BY DEF Control!OneValueEach
<1>2. t \in Seq(SettingsOf(c)) /\ u \in Seq(SettingsOf(d))
  BY SettingsTyped
<1>3. DOMAIN t = 1 .. Len(t) /\ DOMAIN u = 1 .. Len(u)
  <2> HIDE DEF t, u
  <2> QED
    BY <1>2
<1>4. z \in DOMAIN t /\ j \in DOMAIN u
  BY <1>3
<1>5. t[z].file = u[j].file /\ t[z].key = u[j].key
  OBVIOUS
<1> HIDE DEF t, u
<1>6. t[z] \in Control!Range(t) /\ u[j] \in Control!Range(u)
  BY <1>4 DEF Control!Range
<1>7. t[z].v = u[j].v
  BY <1>1, <1>5, <1>6
<1> QED
  BY <1>7 DEF t, u

LEMMA HoldsWith ==
  ASSUME NEW g, NEW x, NEW y, Holds(g, y),
         x.file = y.file /\ x.key = y.key => x.v = y.v
  PROVE  Holds(Control!With(g, <<x.file, x.key>>, x.v), y)
<1> DEFINE e == <<x.file, x.key>>
           o == <<y.file, y.key>>
           v == x.v
           w == y.v
<1>1. e = o => v = w
  OBVIOUS
<1>2. o \in DOMAIN g /\ g[o] = w
  BY DEF Holds
<1> HIDE DEF e, o, v, w
<1>3. /\ DOMAIN Control!With(g, e, v) = DOMAIN g \cup {e} /\ Control!With(g, e, v)[e] = v
      /\ o # e => Control!With(g, e, v)[o] = g[o]
  BY <1>2 DEF Control!With
<1>4. o \in DOMAIN Control!With(g, e, v) /\ Control!With(g, e, v)[o] = w
  BY <1>1, <1>2, <1>3
<1> QED
  BY <1>4 DEF Holds, e, o, v, w

LEMMA HoldsNow ==
  ASSUME NEW g, NEW x
  PROVE  Holds(Control!With(g, <<x.file, x.key>>, x.v), x)
<1> DEFINE e == <<x.file, x.key>>
           v == x.v
<1> HIDE DEF e, v
<1>1. e \in DOMAIN Control!With(g, e, v) /\ Control!With(g, e, v)[e] = v
  BY DEF Control!With
<1> QED
  BY <1>1 DEF Holds, e, v

LEMMA CellsWith ==
  ASSUME NEW g, NEW h, NEW x \in SettingsOf(h), Cells(g),
         LET n == Control!With(g, <<x.file, x.key>>, x.v)
         IN  /\ x.file \in {"cpu.cfs_period_us", "cpu.cfs_quota_us"} => Control!CfsFits(n)
             /\ x.file \in {"cpu.rt_period_us", "cpu.rt_runtime_us"} => Control!RtFits(n)
  PROVE  Cells(Control!With(g, <<x.file, x.key>>, x.v))
<1> DEFINE e == <<x.file, x.key>>
           v == x.v
           n == Control!With(g, e, v)
<1>1. /\ x.file \in {"cpu.cfs_period_us", "cpu.cfs_quota_us"} => Control!CfsFits(n)
      /\ x.file \in {"cpu.rt_period_us", "cpu.rt_runtime_us"} => Control!RtFits(n)
  OBVIOUS
<1>2. /\ x.file \in CpuCells => x.key = Control!Blank /\ v \in Int
      /\ \A f : f # x.file => e # <<f, Control!Blank>>
      /\ x.file \in CpuCells => e = <<x.file, Control!Blank>>
  BY DEF SettingsOf
<1> HIDE DEF e, v
<1>3. /\ DOMAIN n = DOMAIN g \cup {e} /\ n[e] = v
      /\ \A o \in DOMAIN g : o # e => n[o] = g[o]
  BY DEF Control!With
<1> HIDE DEF n
<1>4. /\ DOMAIN Control!Fresh \subseteq DOMAIN g
      /\ \A f \in CpuCells : <<f, Control!Blank>> \in DOMAIN g /\ Cell(g, f) \in Int
      /\ Control!CfsFits(g) /\ Control!RtFits(g)
  BY DEF Cells
<1>5. \A f \in CpuCells : f # x.file => Cell(n, f) = Cell(g, f)
  BY <1>2, <1>3, <1>4 DEF Cell
<1>6. \A f \in CpuCells : <<f, Control!Blank>> \in DOMAIN n /\ Cell(n, f) \in Int
  BY <1>2, <1>3, <1>4, <1>5 DEF Cell
<1>7. Control!CfsFits(n)
  <2>1. CASE x.file \in {"cpu.cfs_period_us", "cpu.cfs_quota_us"}
    BY <1>1, <2>1
  <2>2. CASE x.file \notin {"cpu.cfs_period_us", "cpu.cfs_quota_us"}
    <3>1. /\ Cell(n, "cpu.cfs_period_us") = Cell(g, "cpu.cfs_period_us")
          /\ Cell(n, "cpu.cfs_quota_us") = Cell(g, "cpu.cfs_quota_us")
      BY <1>5, <2>2 DEF CpuCells
    <3> QED
      BY <1>4, <3>1 DEF Cell, Control!CfsFits
  <2> QED
    BY <2>1, <2>2
<1>8. Control!RtFits(n)
  <2>1. CASE x.file \in {"cpu.rt_period_us", "cpu.rt_runtime_us"}
    BY <1>1, <2>1
  <2>2. CASE x.file \notin {"cpu.rt_period_us", "cpu.rt_runtime_us"}
    <3>1. /\ Cell(n, "cpu.rt_period_us") = Cell(g, "cpu.rt_period_us")
          /\ Cell(n, "cpu.rt_runtime_us") = Cell(g, "cpu.rt_runtime_us")
      BY <1>5, <2>2 DEF CpuCells
    <3> QED
      BY <1>4, <3>1 DEF Cell, Control!RtFits
  <2> QED
    BY <2>1, <2>2
<1>9. Cells(n)
  BY <1>3, <1>4, <1>6, <1>7, <1>8 DEF Cells
<1> QED
  BY <1>9 DEF n, e, v

(* One more setting of the controller that the call is at.                 *)
LEMMA WrittenMore ==
  ASSUME ControlInv, v1call.at = "write", v1call.todo # <<>>, Control!OneValueEach,
         NEW rs, NEW g,
         LET h == Head(v1call.ctrls)
             x == Head(v1call.todo)
         IN  /\ g = Control!With(written, <<x.file, x.key>>, x.v)
             /\ rs = IF h = "devices" THEN Append(rules, <<x.file, x.v>>) ELSE rules,
         Progress(v1call, written, rules)
  PROVE  LET r == v1call
             h == Head(v1call.ctrls)
         IN  /\ Written(h, r, g, rs, Over(r) + 1)
             /\ \A c \in Control!Controllers :
                  c # h /\ Written(c, r, written, rules, Len(Asked(c, r)))
                    => Written(c, r, g, rs, Len(Asked(c, r)))
<1> DEFINE r == v1call
           h == Head(r.ctrls)
           x == Head(r.todo)
           t == Asked(h, r)
           k == Over(r)
<1>1. /\ r.rdma \in Control!RdmaSettings(r.spec) /\ r.spec \in V1Specs
      /\ h \in Control!Controllers /\ t \in Seq(SettingsOf(h))
      /\ k \in Nat /\ k + 1 \in 1 .. Len(t) /\ x = t[k + 1] /\ x \in SettingsOf(h)
  BY HeadIs
<1>2. g = Control!With(written, <<x.file, x.key>>, x.v)
  OBVIOUS
<1>3. rs = IF h = "devices" THEN Append(rules, <<x.file, x.v>>) ELSE rules
  OBVIOUS
<1>4. Written(h, r, written, rules, k)
  BY DEF Progress
<1>5. rules \in Seq(DeviceFiles \X Value)
  BY DEF ControlInv
<1>6. x.file \in DeviceFiles <=> h = "devices"
  BY <1>1 DEF SettingsOf
<1> HIDE DEF x, h, k
<1>7. Holds(g, x)
  BY <1>2, HoldsNow
<1>8. Written(h, r, g, rs, k + 1)
  <2>1. CASE h = "devices"
    <3>1. EndsWith(rules, t, k)
      BY <1>4, <2>1 DEF Written
    <3> HIDE DEF t
    <3> DEFINE y == <<x.file, x.v>>
    <3>2. rs = Append(rules, y) /\ y = <<t[k + 1].file, t[k + 1].v>>
      BY <1>1, <1>3, <2>1
    <3> HIDE DEF y
    <3>3. /\ Len(rules) \in Nat /\ Len(rs) = Len(rules) + 1 /\ rs[Len(rules) + 1] = y
          /\ \A z \in 1 .. Len(rules) : rs[z] = rules[z]
      BY <1>5, <3>2
    <3>4. k <= Len(rules)
      BY <3>1 DEF EndsWith
    <3>5. ASSUME NEW z \in 1 .. k + 1
          PROVE  rs[Len(rs) - (k + 1) + z] = <<t[z].file, t[z].v>>
      <4>1. k \in Nat /\ Len(rules) \in Nat /\ Len(rs) = Len(rules) + 1 /\ z \in Nat
        BY <1>1, <3>3
      <4>2. CASE z = k + 1
        <5>1. Len(rs) - (k + 1) + z = Len(rules) + 1
          BY ONLY <4>1, <4>2
        <5> QED
          BY <3>2, <3>3, <4>2, <5>1
      <4>3. CASE z \in 1 .. k
        <5>1. Len(rs) - (k + 1) + z = Len(rules) - k + z /\ Len(rules) - k + z \in 1 .. Len(rules)
          BY <1>1, <3>3, <3>4, <4>3
        <5>2. rules[Len(rules) - k + z] = <<t[z].file, t[z].v>>
          BY <3>1, <4>3 DEF EndsWith
        <5> QED
          BY <3>3, <5>1, <5>2
      <4> QED
        <5>1. z = k + 1 \/ z \in 1 .. k
          BY ONLY <3>5, <4>1
        <5> QED
          BY <4>2, <4>3, <5>1
    <3>6. k + 1 <= Len(rs)
      BY <1>1, <3>3, <3>4
    <3>7. EndsWith(rs, t, k + 1)
      BY <3>5, <3>6 DEF EndsWith
    <3> QED
      BY <2>1, <3>7 DEF Written, t
  <2>2. CASE h # "devices"
    <3>1. \A z \in 1 .. k : Holds(written, t[z])
      BY <1>4, <2>2 DEF Written
    <3>2. ASSUME NEW z \in 1 .. k + 1 PROVE Holds(g, t[z])
      <4>1. CASE z = k + 1
        BY <1>1, <1>7, <4>1
      <4>2. CASE z \in 1 .. k
        <5>1. z \in 1 .. Len(t) /\ k + 1 \in 1 .. Len(t) /\ Len(t) \in Nat
          BY <1>1, <4>2
        <5>2. t[z].file = t[k + 1].file /\ t[z].key = t[k + 1].key => t[z].v = t[k + 1].v
          BY <1>1, <2>2, <5>1, SameValue, SMTT(60) DEF Asked
        <5>3. Holds(written, t[z])
          BY <3>1, <4>2
        <5> HIDE DEF t
        <5>4. x.file = t[z].file /\ x.key = t[z].key => x.v = t[z].v
          BY <1>1, <5>2
        <5> QED
          BY <1>2, <5>3, <5>4, HoldsWith
      <4> QED
        BY <1>1, <4>1, <4>2
    <3> QED
      BY <2>2, <3>2 DEF Written
  <2> QED
    BY <2>1, <2>2
<1>9. ASSUME NEW c \in Control!Controllers, c # h,
             Written(c, r, written, rules, Len(Asked(c, r)))
      PROVE  Written(c, r, g, rs, Len(Asked(c, r)))
  <2>1. CASE c = "devices"
    BY <1>3, <1>9, <2>1 DEF Written
  <2>2. CASE c # "devices"
    <3> DEFINE u == Asked(c, r)
    <3>1. u \in Seq(SettingsOf(c))
      BY <1>1, SettingsTyped DEF Asked
    <3>2. ASSUME NEW z \in 1 .. Len(u) PROVE Holds(g, u[z])
      <4>1. Holds(written, u[z])
        BY <1>9, <2>2 DEF Written
      <4>2. u[z].file \notin DeviceFiles
        <5> HIDE DEF u
        <5>1. u[z] \in SettingsOf(c)
          BY <3>1
        <5> QED
          BY <2>2, <5>1 DEF SettingsOf
      <4>3. ASSUME h # "devices", x.file = u[z].file, x.key = u[z].key PROVE x.v = u[z].v
        <5>1. /\ k + 1 \in 1 .. Len(t) /\ t[k + 1].file = u[z].file /\ t[k + 1].key = u[z].key
          BY <1>1, <4>3
        <5>2. t[k + 1].v = u[z].v
          BY <1>1, <2>2, <4>3, <5>1, SameValue DEF Asked
        <5> QED
          BY <1>1, <5>2
      <4>4. x.file = u[z].file /\ x.key = u[z].key => x.v = u[z].v
        BY <1>6, <4>2, <4>3
      <4> HIDE DEF u
      <4> QED
        BY <1>2, <4>1, <4>4, HoldsWith
    <3> QED
      BY <2>2, <3>2 DEF Written
  <2> QED
    BY <2>1, <2>2
<1> QED
  BY <1>8, <1>9 DEF h, k

LEMMA ControlTaken ==
  ASSUME ControlInv, v1call.at = "write", v1call.todo # <<>>,
         LET x == Head(v1call.todo)
             g == Control!With(written, <<x.file, x.key>>, x.v)
         IN  /\ Control!Takes(x, g)
             /\ v1call' = [v1call EXCEPT !.todo = Tail(@)]
             /\ written' = g
             /\ rules' = IF Head(v1call.ctrls) = "devices"
                         THEN Append(rules, <<x.file, x.v>>) ELSE rules,
         UNCHANGED <<dirs, v1calls, removals, before, still>>
  PROVE  ControlInv'
<1> DEFINE r == v1call
           h == Head(r.ctrls)
           x == Head(r.todo)
           g == Control!With(written, <<x.file, x.key>>, x.v)
           rs == IF h = "devices" THEN Append(rules, <<x.file, x.v>>) ELSE rules
           m == [r EXCEPT !.todo = Tail(r.todo)]
<1>1. /\ r \in ControlCall /\ r.rdma \in Control!RdmaSettings(r.spec) /\ r.spec \in V1Specs
      /\ h \in Control!Controllers /\ Asked(h, r) \in Seq(SettingsOf(h))
      /\ Over(r) \in Nat /\ Over(r) + 1 \in 1 .. Len(Asked(h, r))
      /\ x = Asked(h, r)[Over(r) + 1] /\ x \in SettingsOf(h)
  BY HeadIs
<1>2. v1call' = m /\ written' = g /\ rules' = rs /\ Control!Takes(x, g)
  OBVIOUS
<1>3. /\ dirs' = dirs /\ v1calls' = v1calls /\ removals' = removals /\ before' = before
      /\ still' = still
  OBVIOUS
<1>4. /\ r.todo \in Seq(Setting1) /\ r.todo # <<>> /\ Tail(r.todo) \in Seq(Setting1)
      /\ r.ctrls # <<>>
  BY <1>1 DEF ControlCall, ControlInv, Sequel
<1>5. /\ m \in ControlCall /\ m.at = r.at /\ m.todo = Tail(r.todo) /\ m.ctrls = r.ctrls
      /\ m.op = r.op /\ m.spec = r.spec /\ m.rdma = r.rdma
  BY <1>1, <1>4 DEF ControlCall
<1> HIDE DEF m
<1>6. \A c : Asked(c, m) = Asked(c, r)
  BY <1>5 DEF Asked
<1>7. /\ Len(m.todo) = Len(r.todo) - 1 /\ Len(r.todo) \in Nat
      /\ \A z \in 1 .. Len(m.todo) : m.todo[z] = r.todo[z + 1] /\ z + 1 \in 1 .. Len(r.todo)
  BY <1>4, <1>5
<1>8. Over(m) = Over(r) + 1
  <2>1. Len(Asked(h, r)) \in Nat
    BY <1>1
  <2>2. Over(m) = Len(Asked(h, r)) - Len(m.todo) /\ Over(r) = Len(Asked(h, r)) - Len(r.todo)
    BY <1>5, <1>6 DEF Over
  <2> QED
    BY ONLY <1>7, <2>1, <2>2
<1>9. Sequel(m)
  <2>1. Sequel(r)
    BY DEF ControlInv
  <2>2. ASSUME NEW z \in 1 .. Len(m.todo)
        PROVE  m.todo[z] = Asked(Head(m.ctrls), m)[Over(m) + z]
    <3>1. m.todo[z] = r.todo[z + 1] /\ z + 1 \in 1 .. Len(r.todo) /\ z \in Nat
      BY <1>7
    <3>2. r.todo[z + 1] = Asked(h, r)[Over(r) + (z + 1)]
      BY <2>1, <3>1 DEF Sequel
    <3>3. Over(r) + (z + 1) = Over(m) + z
      BY <1>1, <1>8, <3>1
    <3> QED
      BY <1>5, <1>6, <3>1, <3>2, <3>3
  <2> QED
    BY <1>1, <1>4, <1>5, <1>8, <2>2 DEF Sequel
<1>10. Cells(g)
  <2>1. Cells(written)
    BY DEF ControlInv
  <2>2. /\ x.file \in {"cpu.cfs_period_us", "cpu.cfs_quota_us"} => Control!CfsFits(g)
        /\ x.file \in {"cpu.rt_period_us", "cpu.rt_runtime_us"} => Control!RtFits(g)
    BY <1>2 DEF Control!Takes
  <2> HIDE DEF h, x
  <2> QED
    BY <1>1, <2>1, <2>2, CellsWith
<1>11. rs \in Seq(DeviceFiles \X Value)
  <2>1. rules \in Seq(DeviceFiles \X Value)
    BY DEF ControlInv
  <2>2. CASE h = "devices"
    <3>1. x.file \in DeviceFiles /\ x.v \in Value
      BY <1>1, <2>2 DEF SettingsOf, Setting1
    <3>2. <<x.file, x.v>> \in DeviceFiles \X Value
      BY <3>1
    <3> HIDE DEF x
    <3> QED
      BY <2>1, <2>2, <3>2
  <2>3. CASE h # "devices"
    BY <2>1, <2>3
  <2> QED
    BY <2>2, <2>3
<1>12. ASSUME still, Control!OneValueEach PROVE Progress(m, g, rs)
  <2>1. Progress(r, written, rules)
    BY <1>12 DEF ControlInv
  <2>2. /\ Written(h, r, g, rs, Over(r) + 1)
        /\ \A c \in Control!Controllers :
              c # h /\ Written(c, r, written, rules, Len(Asked(c, r)))
                => Written(c, r, g, rs, Len(Asked(c, r)))
    BY <1>12, <2>1, WrittenMore
  <2> HIDE DEF g, rs, x
  <2>3. ASSUME NEW c \in Control!Controllers
        PROVE  \/ \A j \in 1 .. Len(Going(m.op)) : Going(m.op)[j] # c
               \/ \E j \in 1 .. Len(m.ctrls) : m.ctrls[j] = c
               \/ Written(c, m, g, rs, Len(Asked(c, m)))
    <3>1. CASE c = h
      <4>1. r.ctrls \in Seq(Control!Controllers)
        BY <1>1 DEF ControlCall
      <4>2. 1 \in 1 .. Len(m.ctrls) /\ m.ctrls[1] = c
        BY <1>4, <1>5, <3>1, <4>1
      <4> QED
        BY <4>2
    <3>2. CASE c # h
      <4> HIDE DEF h
      <4>1. \/ \A j \in 1 .. Len(Going(r.op)) : Going(r.op)[j] # c
            \/ \E j \in 1 .. Len(r.ctrls) : r.ctrls[j] = c
            \/ Written(c, r, written, rules, Len(Asked(c, r)))
        BY <2>1 DEF Progress
      <4>2. Written(c, r, g, rs, Len(Asked(c, r))) => Written(c, m, g, rs, Len(Asked(c, m)))
        BY <1>6 DEF Written
      <4> QED
        BY <1>5, <2>2, <3>2, <4>1, <4>2
    <3> QED
      BY <3>1, <3>2
  <2>4. Written(Head(m.ctrls), m, g, rs, Over(m))
    BY <1>5, <1>6, <1>8, <2>2 DEF Written
  <2> QED
    BY <1>5, <2>3, <2>4 DEF Progress
<1>13. ASSUME still PROVE Bands(m, g, before)
  <2>1. Bands(r, written, before)
    BY <1>13 DEF ControlInv
  <2>2. x.file \in CpuCells => x.key = Control!Blank
    BY <1>1 DEF SettingsOf
  <2>3. \A f \in CpuCells : <<f, Control!Blank>> \in DOMAIN written
    BY DEF ControlInv, Cells
  <2>4. Band(m, g, before, "cpu.cfs_period_us", "cpu.cfs_quota_us", r.spec.period, r.spec.quota)
    BY <1>4, <1>5, <2>1, <2>2, <2>3, BandWritten DEF Bands, CpuCells
  <2>5. Band(m, g, before, "cpu.rt_period_us", "cpu.rt_runtime_us",
             r.spec.rtPeriod, r.spec.rtRuntime)
    BY <1>4, <1>5, <2>1, <2>2, <2>3, BandWritten DEF Bands, CpuCells
  <2> QED
    BY <1>5, <2>4, <2>5 DEF Bands
<1>14. Control!OrderIsAccepted'
  BY <1>2, <1>5 DEF Control!OrderIsAccepted
<1>15. /\ still /\ m.at = "write" => Head(m.ctrls) \in dirs
       /\ v1calls \in 0 .. Calls /\ removals \in 0 .. Removals /\ still \in BOOLEAN
       /\ Cells(before)
  BY <1>5 DEF ControlInv
<1>16. dirs \subseteq Control!Controllers
  BY DEF ControlInv
<1> HIDE DEF g, rs, x, h
<1>17. /\ v1call'.at # "idle" => v1call'.rdma \in Control!RdmaSettings(v1call'.spec)
       /\ v1call'.at = "write" => Sequel(v1call')
       /\ still' /\ v1call'.at = "write" => Head(v1call'.ctrls) \in dirs'
  BY ONLY <1>1, <1>2, <1>3, <1>5, <1>9, <1>15
<1>18. /\ still' => Bands(v1call', written', before')
       /\ still' /\ Control!OneValueEach => Progress(v1call', written', rules')
  BY ONLY <1>2, <1>3, <1>12, <1>13
<1> QED
  BY <1>2, <1>3, <1>5, <1>10, <1>11, <1>14, <1>15, <1>16, <1>17, <1>18 DEF ControlInv

(* What is refused either does not fit, or is in a shorter period.         *)
LEMMA RefusalJustified ==
  ASSUME ControlInv, v1call.at = "write", v1call.todo # <<>>, still,
         LET x == Head(v1call.todo)
         IN  ~Control!Takes(x, Control!With(written, <<x.file, x.key>>, x.v))
  PROVE  LET s == v1call.spec
             x == Head(v1call.todo)
         IN  /\ x.file \in {"cpu.cfs_period_us", "cpu.cfs_quota_us"} =>
                  ~ /\ Control!Or(s.period, Cell(before, "cpu.cfs_period_us"))
                         >= Cell(before, "cpu.cfs_period_us")
                    /\ Control!Fits(Control!Or(s.quota, Cell(before, "cpu.cfs_quota_us")),
                                    Control!Or(s.period, Cell(before, "cpu.cfs_period_us")), Above)
             /\ x.file \in {"cpu.rt_period_us", "cpu.rt_runtime_us"} =>
                  ~ /\ Control!Or(s.rtPeriod, Cell(before, "cpu.rt_period_us"))
                         >= Cell(before, "cpu.rt_period_us")
                    /\ Control!Fits(Control!Or(s.rtRuntime, Cell(before, "cpu.rt_runtime_us")),
                                    Control!Or(s.rtPeriod, Cell(before, "cpu.rt_period_us")), AboveRt)
<1> DEFINE r == v1call
           s == r.spec
           x == Head(r.todo)
           g == Control!With(written, <<x.file, x.key>>, x.v)
           m == [todo |-> Tail(r.todo)]
<1>1. /\ r \in ControlCall /\ r.spec \in V1Specs /\ x \in SettingsOf(Head(r.ctrls))
  BY HeadIs
<1>2. /\ s.period \in SUBSET Int /\ s.quota \in SUBSET Int
      /\ s.rtPeriod \in SUBSET Int /\ s.rtRuntime \in SUBSET Int
  <2>1. s \in Control!LinuxResources
    BY <1>1, ControlFacts
  <2> QED
    BY <2>1 DEF Control!LinuxResources
<1>3. r.todo \in Seq(Setting1) /\ Head(r.ctrls) \in dirs
  BY <1>1 DEF ControlCall, ControlInv
<1>4. \A f \in CpuCells : <<f, Control!Blank>> \in DOMAIN written /\ Cell(before, f) \in Int
  BY DEF ControlInv, Cells
<1>5. /\ Control!Fits(Cell(before, "cpu.cfs_quota_us"), Cell(before, "cpu.cfs_period_us"), Above)
      /\ Control!Fits(Cell(before, "cpu.rt_runtime_us"), Cell(before, "cpu.rt_period_us"), AboveRt)
  BY DEF ControlInv, Cells, Cell, Control!CfsFits, Control!RtFits
<1>6. Bands(r, written, before) /\ m.todo = Tail(r.todo)
  BY DEF ControlInv
<1>7. x.file \in CpuCells => x.key = Control!Blank
  BY <1>1 DEF SettingsOf
<1>8. /\ x.file \in {"cpu.cfs_period_us", "cpu.cfs_quota_us"} =>
            ~Control!Fits(Cell(g, "cpu.cfs_quota_us"), Cell(g, "cpu.cfs_period_us"), Above)
      /\ x.file \in {"cpu.rt_period_us", "cpu.rt_runtime_us"} =>
            ~Control!Fits(Cell(g, "cpu.rt_runtime_us"), Cell(g, "cpu.rt_period_us"), AboveRt)
  BY <1>3 DEF Control!Takes, Control!CfsFits, Control!RtFits, Cell
<1> HIDE DEF m
<1>9. x.file \in {"cpu.cfs_period_us", "cpu.cfs_quota_us"} =>
        /\ Cell(g, "cpu.cfs_period_us") = Control!Or(s.period, Cell(before, "cpu.cfs_period_us"))
        /\ Cell(g, "cpu.cfs_quota_us") \in
             {Cell(before, "cpu.cfs_quota_us"),
              Control!Or(s.quota, Cell(before, "cpu.cfs_quota_us"))}
  BY <1>3, <1>4, <1>6, <1>7, BandWritten, SMTT(60) DEF Bands, CpuCells
<1>10. x.file \in {"cpu.rt_period_us", "cpu.rt_runtime_us"} =>
        /\ Cell(g, "cpu.rt_period_us") = Control!Or(s.rtPeriod, Cell(before, "cpu.rt_period_us"))
        /\ Cell(g, "cpu.rt_runtime_us") \in
             {Cell(before, "cpu.rt_runtime_us"),
              Control!Or(s.rtRuntime, Cell(before, "cpu.rt_runtime_us"))}
  <2>1. Band(r, written, before, "cpu.rt_period_us", "cpu.rt_runtime_us",
             s.rtPeriod, s.rtRuntime)
    BY <1>6 DEF Bands
  <2>2. /\ <<"cpu.rt_period_us", Control!Blank>> \in DOMAIN written
        /\ <<"cpu.rt_runtime_us", Control!Blank>> \in DOMAIN written
        /\ x.file \in {"cpu.rt_period_us", "cpu.rt_runtime_us"} => x.key = Control!Blank
    BY <1>4, <1>7 DEF CpuCells
  <2>3. r.at = "write" /\ r.todo \in Seq(Setting1) /\ r.todo # <<>> /\ m.todo = Tail(r.todo)
    BY <1>3, <1>6
  <2>4. "cpu.rt_period_us" # "cpu.rt_runtime_us" /\ g = Control!With(written, <<x.file, x.key>>, x.v)
    OBVIOUS
  <2> HIDE DEF s, g
  <2>5. /\ Band(m, g, before, "cpu.rt_period_us", "cpu.rt_runtime_us", s.rtPeriod, s.rtRuntime)
        /\ x.file \in {"cpu.rt_period_us", "cpu.rt_runtime_us"} =>
             /\ Cell(g, "cpu.rt_period_us") = Control!Or(s.rtPeriod, Cell(before, "cpu.rt_period_us"))
             /\ Cell(g, "cpu.rt_runtime_us") \in
                  {Cell(before, "cpu.rt_runtime_us"),
                   Control!Or(s.rtRuntime, Cell(before, "cpu.rt_runtime_us"))}
    BY ONLY <2>1, <2>2, <2>3, <2>4, BandWritten
  <2> QED
    BY <2>5
<1> HIDE DEF g, x, s
<1>11. Above \in [quota : Int, period : Nat \ {0}] /\ AboveRt \in [quota : Int, period : Nat \ {0}]
  BY ControlFacts
<1>12. ASSUME x.file \in {"cpu.cfs_period_us", "cpu.cfs_quota_us"},
              Control!Or(s.period, Cell(before, "cpu.cfs_period_us"))
                >= Cell(before, "cpu.cfs_period_us"),
              Control!Fits(Control!Or(s.quota, Cell(before, "cpu.cfs_quota_us")),
                           Control!Or(s.period, Cell(before, "cpu.cfs_period_us")), Above)
       PROVE  FALSE
  BY <1>2, <1>4, <1>5, <1>8, <1>9, <1>11, <1>12, BandFits DEF CpuCells
<1>13. ASSUME x.file \in {"cpu.rt_period_us", "cpu.rt_runtime_us"},
              Control!Or(s.rtPeriod, Cell(before, "cpu.rt_period_us"))
                >= Cell(before, "cpu.rt_period_us"),
              Control!Fits(Control!Or(s.rtRuntime, Cell(before, "cpu.rt_runtime_us")),
                           Control!Or(s.rtPeriod, Cell(before, "cpu.rt_period_us")), AboveRt)
       PROVE  FALSE
  BY <1>2, <1>4, <1>5, <1>8, <1>10, <1>11, <1>13, BandFits DEF CpuCells
<1> QED
  BY <1>12, <1>13 DEF x, s

LEMMA ControlRefused ==
  ASSUME ControlInv, v1call.at = "write", v1call.todo # <<>>,
         LET x == Head(v1call.todo)
         IN  ~Control!Takes(x, Control!With(written, <<x.file, x.key>>, x.v)),
         v1call' = [v1call EXCEPT !.at = "err"],
         UNCHANGED <<written, rules, dirs, v1calls, removals, before, still>>
  PROVE  ControlInv'
<1> DEFINE r == v1call
           m == [r EXCEPT !.at = "err"]
<1>1. /\ v1call' = m /\ written' = written /\ rules' = rules /\ dirs' = dirs
      /\ v1calls' = v1calls /\ removals' = removals /\ before' = before /\ still' = still
  OBVIOUS
<1>2. r \in ControlCall /\ r.rdma \in Control!RdmaSettings(r.spec)
  BY DEF ControlInv
<1>3. /\ m \in ControlCall /\ m.at = "err" /\ m.todo = r.todo
      /\ m.spec = r.spec /\ m.rdma = r.rdma
  BY <1>2 DEF ControlCall
<1> HIDE DEF m
<1>4. Progress(m, written, rules) /\ Bands(m, written, before)
  BY <1>3 DEF Progress, Bands
<1>5. Control!OrderIsAccepted'
  <2> DEFINE s == r.spec
             f == Head(r.todo).file
             cp == before[<<"cpu.cfs_period_us", Control!Blank>>]
             cq == before[<<"cpu.cfs_quota_us", Control!Blank>>]
             rp == before[<<"cpu.rt_period_us", Control!Blank>>]
             rq == before[<<"cpu.rt_runtime_us", Control!Blank>>]
  <2>1. still =>
          /\ f \in {"cpu.cfs_period_us", "cpu.cfs_quota_us"} =>
               ~(Control!Or(s["period"], cp) >= cp
                 /\ Control!Fits(Control!Or(s["quota"], cq), Control!Or(s["period"], cp), Above))
          /\ f \in {"cpu.rt_period_us", "cpu.rt_runtime_us"} =>
               ~(Control!Or(s["rtPeriod"], rp) >= rp
                 /\ Control!Fits(Control!Or(s["rtRuntime"], rq), Control!Or(s["rtPeriod"], rp),
                                 AboveRt))
    BY RefusalJustified DEF Cell
  <2>2. v1call'.spec = s /\ Head(v1call'.todo).file = f /\ before' = before /\ still' = still
    BY <1>1, <1>3
  <2> QED
    BY <2>1, <2>2 DEF Control!OrderIsAccepted
<1> QED
  BY <1>1, <1>2, <1>3, <1>4, <1>5 DEF ControlInv

LEMMA ControlNext ==
  ControlInv /\ [Control!Next]_(Control!vars) => ControlInv'
<1> SUFFICES ASSUME ControlInv, [Control!Next]_(Control!vars) PROVE ControlInv'
  OBVIOUS
<1>1. CASE UNCHANGED Control!vars
  <2>1. /\ dirs' = dirs /\ written' = written /\ rules' = rules /\ v1call' = v1call
        /\ v1calls' = v1calls /\ removals' = removals /\ before' = before /\ still' = still
    BY <1>1 DEF Control!vars
  <2>2. Control!OrderIsAccepted'
    BY <2>1 DEF ControlInv, Control!OrderIsAccepted
  <2> QED
    BY <2>1, <2>2 DEF ControlInv
<1>2. CASE Control!Write
  BY <1>2, ControlTaken, ControlRefused DEF Control!Write
<1> QED
  BY <1>1, <1>2, ControlRmdir, ControlBegin, ControlMkdir, ControlNextController, ControlReturn
     DEF Control!Next

LEMMA ControlTypes == ControlInv => Control!TypeOK
<1>1. ControlCall \subseteq [at : {"idle", "next", "write", "nil", "err"}, op : {"new", "update"},
         spec : V1Specs, rdma : Seq(SettingsOf("rdma")), ctrls : Seq(Control!Controllers),
         todo : Seq(Setting1)]
  BY DEF ControlCall
<1> QED
  BY <1>1 DEF ControlInv, Control!TypeOK, Cells, ControlCall

LEMMA EndsWithIs ==
  ASSUME NEW E, NEW F, NEW rs \in Seq(E), NEW t \in Seq(F), EndsWith(rs, t, Len(t))
  PROVE  Control!IsSuffix([j \in DOMAIN t |-> <<t[j].file, t[j].v>>], rs)
<1> DEFINE w == [j \in DOMAIN t |-> <<t[j].file, t[j].v>>]
           k == Len(t)
           n == Len(rs)
           W == [j \in 1 .. k |-> w[k - j + 1]]
           R == [j \in 1 .. n |-> rs[n - j + 1]]
<1>1. k \in Nat /\ n \in Nat /\ k <= n /\ DOMAIN t = 1 .. k
  BY DEF EndsWith
<1>2. DOMAIN w = 1 .. k /\ w \in Seq({w[j] : j \in 1 .. k}) /\ Len(w) = k
  <2>1. w = [j \in 1 .. k |-> <<t[j].file, t[j].v>>]
    BY <1>1
  <2>2. DOMAIN w = 1 .. k
    BY <2>1
  <2> HIDE DEF w, k
  <2>3. w = [j \in 1 .. k |-> w[j]]
    BY <2>1
  <2> QED
    BY <1>1, <2>2, <2>3
<1>3. \A j \in 1 .. k : w[j] = rs[n - k + j]
  BY <1>1 DEF EndsWith
<1> HIDE DEF w
<1>4. Control!Reverse(w) = W /\ Control!Reverse(rs) = R
  BY <1>2 DEF Control!Reverse
<1> HIDE DEF k, n
<1>5. W \in Seq({w[j] : j \in 1 .. k}) /\ Len(W) = k
  <2>1. \A j \in 1 .. k : k - j + 1 \in 1 .. k
    BY <1>1
  <2> QED
    BY <1>1, <2>1
<1>6. R \in Seq(E) /\ Len(R) = n
  <2>1. \A j \in 1 .. n : n - j + 1 \in 1 .. n
    BY <1>1
  <2>2. \A j \in 1 .. n : rs[j] \in E
    BY DEF n
  <2> QED
    BY <1>1, <2>1, <2>2
<1>7. \A j \in 1 .. k : W[j] = R[j]
  <2> SUFFICES ASSUME NEW j \in 1 .. k PROVE W[j] = R[j]
    OBVIOUS
  <2>1. j \in 1 .. n /\ k - j + 1 \in 1 .. k /\ n - k + (k - j + 1) = n - j + 1
    BY <1>1
  <2>2. W[j] = w[k - j + 1] /\ R[j] = rs[n - j + 1]
    BY <2>1
  <2> HIDE DEF W, R
  <2> QED
    BY <1>3, <2>1, <2>2
<1> HIDE DEF W, R
<1>8. SubSeq(W, 1, Len(W)) = SubSeq(R, 1, Len(W))
  <2>1. /\ Len(SubSeq(W, 1, k)) = k /\ Len(SubSeq(R, 1, k)) = k
        /\ \A j \in 1 .. k : SubSeq(W, 1, k)[j] = W[j] /\ SubSeq(R, 1, k)[j] = R[j]
    BY <1>1, <1>5, <1>6
  <2>2. /\ SubSeq(W, 1, k) = [j \in 1 .. k |-> SubSeq(W, 1, k)[j]]
        /\ SubSeq(R, 1, k) = [j \in 1 .. k |-> SubSeq(R, 1, k)[j]]
    <3> DEFINE V == {w[j] : j \in 1 .. k}
    <3>1. W \in Seq(V)
      BY <1>5
    <3> HIDE DEF V
    <3>2. SubSeq(W, 1, k) \in Seq(V)
      BY ONLY <1>1, <1>5, <3>1
    <3>3. SubSeq(R, 1, k) \in Seq(E)
      BY ONLY <1>1, <1>6
    <3> QED
      BY <2>1, <3>2, <3>3
  <2> QED
    BY <1>5, <1>7, <2>1, <2>2
<1> QED
  BY <1>1, <1>4, <1>5, <1>6, <1>8 DEF Control!IsSuffix, Control!IsPrefix, w

LEMMA ControlPromises ==
  ControlInv /\ Control!OneValueEach => Control!AllInPlace
<1> SUFFICES ASSUME ControlInv, Control!OneValueEach, v1call.at = "nil", still,
                    NEW c \in Control!Range(V1Order), v1call.op = "new" \/ c \in Control!Updaters
             PROVE  LET asked == Control!Settings(c, v1call.spec, v1call.rdma)
                    IN  IF c = "devices"
                        THEN Control!IsSuffix([j \in DOMAIN asked |-> <<asked[j].file, asked[j].v>>],
                                              rules)
                        ELSE \A x \in Control!Range(asked) : written[<<x.file, x.key>>] = x.v
  BY DEF Control!AllInPlace
<1> DEFINE r == v1call
           t == Asked(c, r)
<1>1. V1Order \in Seq(Control!Controllers)
  BY ControlFacts
<1>2. c \in Control!Controllers /\ \E z \in 1 .. Len(V1Order) : V1Order[z] = c
  BY <1>1 DEF Control!Range
<1>3. \E z \in 1 .. Len(Going(r.op)) : Going(r.op)[z] = c
  BY <1>2, GoingIs
<1>4. Written(c, r, written, rules, Len(t))
  <2>1. Progress(r, written, rules)
    BY DEF ControlInv
  <2>2. r.ctrls = <<>>
    BY <2>1 DEF Progress
  <2>3. ~\E j \in 1 .. Len(r.ctrls) : r.ctrls[j] = c
    BY <2>2
  <2> QED
    BY <1>2, <1>3, <2>1, <2>3 DEF Progress
<1>5. t \in Seq(SettingsOf(c))
  <2>1. r.spec \in V1Specs /\ r.rdma \in Control!RdmaSettings(r.spec)
    BY DEF ControlInv, ControlCall
  <2> QED
    BY <1>2, <2>1, SettingsTyped DEF Asked
<1>6. t = Control!Settings(c, v1call.spec, v1call.rdma)
  BY DEF Asked
<1> HIDE DEF t
<1>7. CASE c = "devices"
  <2>1. EndsWith(rules, t, Len(t)) /\ rules \in Seq(DeviceFiles \X Value)
    BY <1>4, <1>7 DEF Written, t, ControlInv
  <2>2. Control!IsSuffix([j \in DOMAIN t |-> <<t[j].file, t[j].v>>], rules)
    BY <1>5, <2>1, EndsWithIs
  <2> QED
    BY <1>6, <1>7, <2>2
<1>8. CASE c # "devices"
  <2>1. \A z \in 1 .. Len(t) : Holds(written, t[z])
    BY <1>4, <1>8 DEF Written, t
  <2>2. DOMAIN t = 1 .. Len(t)
    BY <1>5
  <2>3. \A x \in Control!Range(t) : written[<<x.file, x.key>>] = x.v
    BY <2>1, <2>2 DEF Control!Range, Holds
  <2> QED
    BY <1>6, <1>8, <2>3
<1> QED
  BY <1>7, <1>8

LEMMA MemoryBehaves ==
  SpecAll => Memory!Init /\ [][Memory!Next]_(Memory!vars)
<1>1. StartAll => Memory!Init
  BY DEF StartAll
<1>2. [NextAll]_allVars => [Memory!Next]_(Memory!vars)
  BY DEF NextAll, allVars, memoryVars, Memory!vars, Others, CpusetStep, MemoryStep, DevicesStep,
         ControlStep, ReaderStep, ResourceStep, StatStep
<1> QED
  BY <1>1, <1>2, PTL DEF SpecAll

LEMMA ControlBehaves ==
  SpecAll => Control!Init /\ [][Control!Next]_(Control!vars)
<1>1. StartAll => Control!Init
  BY DEF StartAll
<1>2. [NextAll]_allVars => [Control!Next]_(Control!vars)
  BY DEF NextAll, allVars, controlVars, Control!vars, Others, CpusetStep, MemoryStep, DevicesStep,
         ControlStep, ReaderStep, ResourceStep, StatStep
<1> QED
  BY <1>1, <1>2, PTL DEF SpecAll

(* An object's New or Update that returns nil has put into place all that  *)
(* it was asked for, of the memory controller (memory.go:212) and of the   *)
(* others, when nobody removes anything meanwhile and the resources ask no *)
(* file, nor a device of one, to hold two values.                          *)
THEOREM NothingIsSkipped ==
  ASSUME Control!OneValueEach
  PROVE  SpecAll => []AllInPlace
<1>1. Control!Init => ControlInv
  BY ControlStarts
<1>2. ControlInv /\ [Control!Next]_(Control!vars) => ControlInv'
  BY ControlNext
<1>3. Memory!Init => MemoryInv
  BY MemoryStarts
<1>4. MemoryInv /\ [Memory!Next]_(Memory!vars) => MemoryInv'
  BY MemoryNext
<1>5. ControlInv /\ MemoryInv => AllInPlace
  BY ControlPromises, MemoryPromises DEF AllInPlace
<1> QED
  BY <1>1, <1>2, <1>3, <1>4, <1>5, ControlBehaves, MemoryBehaves, PTL

(* No call is refused for the order that it writes in, when what it asks   *)
(* fits: neither two limits of memory that are lowered (memory.go:227) nor *)
(* a quota of CPU whose period is not shortened (cpu.go:52).               *)
THEOREM OrderServes == SpecAll => []OrderIsAccepted
<1>1. Control!Init => ControlInv
  BY ControlStarts
<1>2. ControlInv /\ [Control!Next]_(Control!vars) => ControlInv'
  BY ControlNext
<1>3. Memory!Init => MemoryInv
  BY MemoryStarts
<1>4. MemoryInv /\ [Memory!Next]_(Memory!vars) => MemoryInv'
  BY MemoryNext
<1>5. ControlInv /\ MemoryInv => OrderIsAccepted
  BY MemoryPromises DEF OrderIsAccepted, ControlInv
<1> QED
  BY <1>1, <1>2, <1>3, <1>4, <1>5, ControlBehaves, MemoryBehaves, PTL

=============================================================================
