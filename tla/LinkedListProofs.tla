--------------------------- MODULE LinkedListProofs --------------------------
(***************************************************************************)
(* Lemmas about LinkedLists, for arrays of any size: what a walk finds, and  *)
(* what becomes of a list when an element is put before it or taken out of   *)
(* it.  Runs and Back say that the links in the two directions are those of  *)
(* a sequence.  WalkIs is by induction along the list; Induction is          *)
(* induction for a set of numbers, which needs no operator as a parameter.   *)
(***************************************************************************)
EXTENDS LinkedLists, WellFoundedInduction, FiniteSetTheorems, SequenceTheorems, TLAPS

-----------------------------------------------------------------------------
(* Numbers *)

\* A set of natural numbers has a least one.
LEMMA Least ==
  ASSUME NEW T, T \subseteq Nat, T # {}
  PROVE  \E x \in T : \A y \in T : x <= y
<1> DEFINE R == OpToRel(<, Nat)
<1>1. IsWellFoundedOn(R, Nat) BY NatLessThanWellFounded
<1>2. \A x, y \in Nat : x < y => <<x, y>> \in R BY DEF OpToRel
<1> HIDE DEF R
<1>3. PICK x \in T : \A y \in T : ~ (<<y, x>> \in R) BY <1>1, WFMin
<1>4. \A y \in T : ~(y < x) BY <1>2, <1>3
<1>5. \A y \in T : x \in Nat /\ y \in Nat OBVIOUS
<1> QED BY <1>4, <1>5

\* A set that has 0, and with a number the next, has them all.
LEMMA Induction ==
  ASSUME NEW T, 0 \in T, \A n \in Nat : n \in T => n + 1 \in T
  PROVE  Nat \subseteq T
<1> SUFFICES ASSUME ~(Nat \subseteq T) PROVE FALSE
    OBVIOUS
<1> DEFINE U == {n \in Nat : n \notin T}
<1>1. PICK x \in U : \A y \in U : x <= y BY Least
<1>2. x \in Nat /\ x # 0 /\ x - 1 \in Nat BY <1>1
<1>3. x - 1 \notin U BY <1>1, <1>2
<1> QED BY <1>1, <1>2, <1>3

-----------------------------------------------------------------------------
(* The walk of a list *)

\* The links nx lead from the head h along s
Runs(nx, h, s) ==
  /\ h = IF Len(s) = 0 THEN 0 ELSE s[1]
  /\ \A i \in 1..Len(s) : nx[s[i]] = IF i = Len(s) THEN 0 ELSE s[i + 1]

\* A walk that follows the links finds the sequence that they run along, and ends.
LEMMA WalkIs ==
  ASSUME NEW N \in Nat, NEW nx, DOMAIN nx = 1..N, NEW s \in Seq(1..N), IsInjective(s),
         NEW h, Runs(nx, h, s)
  PROVE  Walk(nx, h) = s
<1> DEFINE Step(f, n) == IF n = 0 THEN IF h = 0 THEN <<>> ELSE <<h>>
                         ELSE LET q == f[n - 1] IN
                              IF q = <<>> \/ nx[Last(q)] = 0 THEN q
                              ELSE Append(q, nx[Last(q)])
           Rec(f) == f = [n \in 0..Cardinality(DOMAIN nx) |-> Step(f, n)]
           k == Len(s)
           F == CHOOSE f : Rec(f)
           G == [n \in 0..N |-> SubSeq(s, 1, IF n < k THEN n + 1 ELSE k)]
<1>1. Cardinality(DOMAIN nx) = N BY FS_Interval
<1>2. Walk(nx, h) = F[N] BY <1>1 DEF Walk
<1>3. /\ k \in Nat /\ s \in [1..k -> 1..N]
      /\ h = IF k = 0 THEN 0 ELSE s[1]
      /\ \A i \in 1..k : nx[s[i]] = IF i = k THEN 0 ELSE s[i + 1]
    BY LenProperties DEF Runs
<1> HIDE DEF k
<1>4. k <= N
  <2>1. s \in Injection(1..k, 1..N) BY <1>3 DEF Injection
  <2>2. IsFiniteSet(1..N) /\ Cardinality(1..N) = N BY FS_Interval
  <2>3. Cardinality(1..k) = k
    <3>1. \A m \in Nat : Cardinality(1..m) = m BY FS_Interval
    <3> QED BY <1>3, <3>1
  <2> HIDE DEF F, G
  <2>4. Cardinality(1..k) <= Cardinality(1..N) BY <2>1, <2>2, FS_Injection
  <2> QED BY <2>2, <2>3, <2>4
<1> DEFINE Upto(n) == IF n < k THEN n + 1 ELSE k
<1>5. \A n \in 0..N : /\ G[n] = SubSeq(s, 1, Upto(n)) /\ G[n] \in Seq(1..N)
                      /\ Len(G[n]) = Upto(n)
                      /\ \A i \in 1..Upto(n) : G[n][i] = s[i]
  <2> SUFFICES ASSUME NEW n \in 0..N
               PROVE  /\ SubSeq(s, 1, Upto(n)) \in Seq(1..N)
                      /\ Len(SubSeq(s, 1, Upto(n))) = Upto(n)
                      /\ \A i \in 1..Upto(n) : SubSeq(s, 1, Upto(n))[i] = s[i]
      OBVIOUS
  <2> DEFINE m == Upto(n)
  <2>1. m \in Nat /\ m <= k BY <1>3
  <2> HIDE DEF m, F, G
  <2>2. \A i \in 1..m : s[i] \in 1..N BY <1>3, <2>1
  <2>3. /\ SubSeq(s, 1, m) \in Seq(1..N)
        /\ Len(SubSeq(s, 1, m)) = IF 1 <= m THEN m - 1 + 1 ELSE 0
        /\ \A i \in 1 .. m - 1 + 1 : SubSeq(s, 1, m)[i] = s[1 + i - 1]
      BY <2>1, <2>2, SubSeqProperties
  <2>4. /\ SubSeq(s, 1, m) \in Seq(1..N)
        /\ Len(SubSeq(s, 1, m)) = m
        /\ \A i \in 1 .. m : SubSeq(s, 1, m)[i] = s[i]
      BY <1>3, <2>1, <2>3
  <2> QED BY <2>4 DEF m
<1>6. \A n \in 0..N : G[n] = Step(G, n)
  <2> SUFFICES ASSUME NEW n \in 0..N PROVE G[n] = Step(G, n)
      OBVIOUS
  <2> HIDE DEF G, F
  <2>0. G[n] \in Seq(1..N) /\ Len(G[n]) = Upto(n) /\ \A i \in 1..Upto(n) : G[n][i] = s[i]
      BY <1>5
  <2>1. CASE n = 0
    <3>1. CASE k = 0
      <4>1. h = 0 BY <1>3, <3>1
      <4>2. G[n] = <<>> BY <2>0, <2>1, <3>1
      <4> QED BY <2>1, <4>1, <4>2
    <3>2. CASE k # 0
      <4>0. 1 \in 1..k BY <1>3, <3>2
      <4>1. h = s[1] /\ s[1] \in 1..N /\ h # 0 BY <1>3, <3>2, <4>0
      <4>2. Len(G[n]) = 1 /\ G[n][1] = h BY <1>3, <2>0, <2>1, <3>2, <4>1
      <4>3. G[n] = <<h>> BY <2>0, <4>1, <4>2, SeqEqual
      <4> QED BY <2>1, <4>1, <4>3
    <3> QED BY <3>1, <3>2
  <2>2. CASE n # 0
    <3> DEFINE q == G[n - 1]
               l == Len(q)
    <3>1. n - 1 \in 0..N /\ n - 1 + 1 = n BY <2>2
    <3>2. q \in Seq(1..N) /\ l = Upto(n - 1) /\ \A i \in 1..l : q[i] = s[i] BY <1>5, <3>1
    <3>3. CASE k = 0
      <4>1. q = <<>> BY <3>2, <3>3
      <4>2. G[n] = <<>> BY <2>0, <3>3
      <4> QED BY <2>2, <4>1, <4>2
    <3>4. CASE k # 0 /\ n < k
      <4>1. l = n /\ q # <<>> /\ Last(q) = s[n] BY <1>3, <3>1, <3>2, <3>4, <2>2 DEF Last
      <4>0. n \in 1..k /\ n # k /\ n + 1 \in 1..k BY <1>3, <2>2, <3>4
      <4>2. nx[s[n]] = s[n + 1] BY <1>3, <4>0
      <4>8. s[n + 1] \in 1..N /\ s[n + 1] # 0 BY <1>3, <4>0
      <4>3. Step(G, n) = Append(q, s[n + 1]) BY <2>2, <4>1, <4>2, <4>8
      <4>4. /\ Append(q, s[n + 1]) \in Seq(1..N) /\ Len(Append(q, s[n + 1])) = n + 1
            /\ \A i \in 1..(n + 1) :
                 Append(q, s[n + 1])[i] = IF i = n + 1 THEN s[n + 1] ELSE q[i]
        <5> DEFINE v == s[n + 1]
        <5>1. q \in Seq(1..N) /\ v \in 1..N /\ Len(q) = n /\ n \in Nat BY <3>2, <4>1, <4>8
        <5> HIDE DEF v, q
        <5>2. /\ Append(q, v) \in Seq(1..N) /\ Len(Append(q, v)) = Len(q) + 1
              /\ \A i \in 1..Len(q) : Append(q, v)[i] = q[i]
              /\ Append(q, v)[Len(q) + 1] = v
            BY <5>1, AppendProperties
        <5>3. \A i \in 1..(n + 1) : i = n + 1 \/ i \in 1..n BY <5>1
        <5>4. \A i \in 1..(n + 1) : Append(q, v)[i] = IF i = n + 1 THEN v ELSE q[i]
            BY <5>1, <5>2, <5>3
        <5> QED BY <5>1, <5>2, <5>4 DEF v, q
      <4>5. Len(G[n]) = n + 1 BY <2>0, <3>4
      <4>6. \A i \in 1..(n + 1) : G[n][i] = Append(q, s[n + 1])[i]
          BY <2>0, <3>2, <3>4, <4>1, <4>4, SMTT(40)
      <4>7. G[n] = Append(q, s[n + 1])
        <5> DEFINE v == Append(q, s[n + 1])
                   w == G[n]
        <5>1. v \in Seq(1..N) /\ w \in Seq(1..N) /\ Len(v) = Len(w) BY <2>0, <4>4, <4>5
        <5>2. \A i \in 1..Len(w) : w[i] = v[i] BY <4>5, <4>6
        <5> HIDE DEF v, w
        <5>3. v = w BY <5>1, <5>2, SeqEqual
        <5> QED BY <5>3 DEF v, w
      <4> QED BY <4>3, <4>7
    <3>5. CASE k # 0 /\ ~(n < k)
      <4>0. l = k /\ k \in 1..k BY <1>3, <3>1, <3>2, <3>5
      <4>1. q # <<>> /\ Last(q) = s[k] BY <3>2, <3>5, <4>0 DEF Last
      <4>2. nx[s[k]] = 0 BY <1>3, <4>0
      <4>3. Step(G, n) = q BY <2>2, <4>1, <4>2
      <4>4. Len(G[n]) = Len(q) /\ \A i \in 1..Len(q) : G[n][i] = q[i]
          BY <2>0, <3>2, <3>5, <4>0
      <4>5. G[n] = q BY <2>0, <3>2, <4>4, SeqEqual
      <4> QED BY <4>3, <4>5
    <3> QED BY <1>3, <3>3, <3>4, <3>5
  <2> QED BY <2>1, <2>2
<1>7. Rec(G)
  <2>1. DOMAIN G = 0..N OBVIOUS
  <2>2. G = [n \in 0..N |-> G[n]] OBVIOUS
  <2> HIDE DEF G, F, Step
  <2>3. G = [n \in 0..N |-> Step(G, n)] BY <1>6, <2>2
  <2> QED BY <1>1, <2>3
<1>8. Rec(F)
  <2> HIDE DEF Rec, G
  <2> QED BY <1>7
<1>9. \A n \in 0..N : F[n] = Step(F, n)
  <2> HIDE DEF F, G, Step
  <2> QED BY <1>1, <1>8
<1>10. \A n \in 0..N : F[n] = G[n]
  <2> DEFINE T == {n \in Nat : n \in 0..N => F[n] = G[n]}
  <2> HIDE DEF F, G
  <2>1. 0 \in T
    <3>1. 0 \in 0..N OBVIOUS
    <3>2. F[0] = Step(F, 0) /\ G[0] = Step(G, 0) BY <1>6, <1>9, <3>1
    <3> QED BY <3>2
  <2>2. ASSUME NEW n \in Nat, n \in T PROVE n + 1 \in T
    <3>1. CASE n + 1 \in 0..N
      <4>1. F[n] = G[n] /\ n + 1 - 1 = n /\ n + 1 # 0 BY <2>2, <3>1
      <4>2. F[n + 1] = Step(F, n + 1) /\ G[n + 1] = Step(G, n + 1) BY <1>6, <1>9, <3>1
      <4>3. \A f : Step(f, n + 1) = IF f[n] = <<>> \/ nx[Last(f[n])] = 0 THEN f[n]
                                    ELSE Append(f[n], nx[Last(f[n])])
          BY <4>1
      <4>4. Step(F, n + 1) = Step(G, n + 1)
        <5> HIDE DEF Step
        <5> QED BY <4>1, <4>3
      <4> QED BY <4>2, <4>4
    <3> QED BY <3>1
  <2> HIDE DEF T
  <2>3. Nat \subseteq T BY <2>1, <2>2, Induction
  <2> QED BY <2>3 DEF T
<1>11. G[N] = s
  <2>1. Upto(N) = k BY <1>3, <1>4
  <2> HIDE DEF G, F, Upto
  <2>2. N \in 0..N OBVIOUS
  <2>3. G[N] \in Seq(1..N) /\ Len(G[N]) = k /\ \A i \in 1..k : G[N][i] = s[i]
      BY <1>5, <2>1, <2>2
  <2> QED BY <2>3, SeqEqual DEF k
<1>12. N \in 0..N OBVIOUS
<1> HIDE DEF F, G
<1> QED BY <1>2, <1>10, <1>11, <1>12

-----------------------------------------------------------------------------
(* Lists that change *)

\* The links back, pv, agree with s
Back(pv, s) == \A i \in 1..Len(s) : pv[s[i]] = IF i = 1 THEN 0 ELSE s[i - 1]

\* Element v is in the list s
On(s, v) == \E i \in 1..Len(s) : s[i] = v

\* s with n before it, and without its j-th element
Push(n, s) == [i \in 1..(Len(s) + 1) |-> IF i = 1 THEN n ELSE s[i - 1]]
Drop(s, j) == [i \in 1..(Len(s) - 1) |-> IF i < j THEN s[i] ELSE s[i + 1]]

\* A function on the first m numbers is a sequence.
LEMMA SeqFrom ==
  \A N, m \in Nat : \A q \in [1..m -> 1..N] : q \in Seq(1..N) /\ Len(q) = m
OBVIOUS

LEMMA SeqIs ==
  ASSUME NEW N, NEW s \in Seq(1..N)
  PROVE  Len(s) \in Nat /\ s \in [1..Len(s) -> 1..N] /\ DOMAIN s = 1..Len(s)
BY LenProperties

LEMMA PushIs ==
  ASSUME NEW N \in Nat, NEW s \in Seq(1..N), IsInjective(s), NEW n \in 1..N, ~On(s, n)
  PROVE  /\ Push(n, s) \in Seq(1..N) /\ IsInjective(Push(n, s))
         /\ Len(Push(n, s)) = Len(s) + 1
         /\ \A v : On(Push(n, s), v) <=> v = n \/ On(s, v)
<1> DEFINE k == Len(s)
           q == Push(n, s)
<1>1. k \in Nat /\ s \in [1..k -> 1..N] /\ DOMAIN s = 1..k BY SeqIs
<1>2. \A i \in 1..k : s[i] # n BY DEF On
<1>3. \A a, b \in 1..k : s[a] = s[b] => a = b BY <1>1 DEF IsInjective
<1>4. q = [i \in 1..(k + 1) |-> IF i = 1 THEN n ELSE s[i - 1]] BY DEF Push
<1> HIDE DEF k, q
<1>5. \A i \in 1..(k + 1) : i = 1 \/ i - 1 \in 1..k BY <1>1
<1>6. q \in [1..(k + 1) -> 1..N] BY <1>1, <1>4, <1>5
<1>7. k + 1 \in Nat BY <1>1
<1>8. q \in Seq(1..N) /\ Len(q) = k + 1 /\ DOMAIN q = 1..(k + 1) BY <1>4, <1>6, <1>7, SeqFrom
<1>9. IsInjective(q)
  <2> SUFFICES ASSUME NEW a \in 1..(k + 1), NEW b \in 1..(k + 1), q[a] = q[b] PROVE a = b
      BY <1>8 DEF IsInjective
  <2>1. a = 1 \/ (a - 1 \in 1..k /\ q[a] = s[a - 1]) BY <1>4, <1>5
  <2>2. b = 1 \/ (b - 1 \in 1..k /\ q[b] = s[b - 1]) BY <1>4, <1>5
  <2>3. (a = 1 => q[a] = n) /\ (b = 1 => q[b] = n) BY <1>4
  <2>4. a = 1 <=> b = 1 BY <1>2, <2>1, <2>2, <2>3
  <2>5. a # 1 => a - 1 = b - 1 BY <1>3, <2>1, <2>2, <2>4
  <2> QED BY <2>4, <2>5
<1>10. \A v : On(q, v) <=> v = n \/ On(s, v)
  <2> SUFFICES ASSUME NEW v PROVE On(q, v) <=> v = n \/ On(s, v)
      OBVIOUS
  <2>1. ASSUME NEW i \in 1..(k + 1), q[i] = v PROVE v = n \/ On(s, v)
    <3>1. CASE i = 1 BY <1>4, <2>1, <3>1
    <3>2. CASE i # 1
      <4>1. i - 1 \in 1..k /\ q[i] = s[i - 1] BY <1>4, <1>5, <3>2
      <4> QED BY <2>1, <4>1 DEF On, k
    <3> QED BY <3>1, <3>2
  <2>2. v = n => On(q, v)
    <3>1. 1 \in 1..(k + 1) BY <1>1
    <3>2. q[1] = n BY <1>4, <3>1
    <3> QED BY <1>8, <3>1, <3>2 DEF On
  <2>3. ASSUME NEW i \in 1..k, s[i] = v PROVE On(q, v)
    <3> DEFINE m == i + 1
    <3>1. m \in 1..(k + 1) /\ m # 1 /\ m - 1 = i BY <1>1
    <3> HIDE DEF m
    <3>2. q[m] = v BY <1>4, <2>3, <3>1
    <3> QED BY <1>8, <3>1, <3>2 DEF On
  <2>4. On(q, v) => v = n \/ On(s, v) BY <1>8, <2>1 DEF On
  <2>5. On(s, v) => On(q, v) BY <2>3 DEF On, k
  <2> QED BY <2>2, <2>4, <2>5
<1> QED BY <1>8, <1>9, <1>10 DEF q, k

\* An element put before a list: its link is the old head.
LEMMA PushRuns ==
  ASSUME NEW N \in Nat, NEW s \in Seq(1..N), NEW n \in 1..N, ~On(s, n),
         NEW nx, NEW ny, NEW h, Runs(nx, h, s),
         ny[n] = h, \A v : On(s, v) => ny[v] = nx[v]
  PROVE  Runs(ny, n, Push(n, s))
<1> DEFINE k == Len(s)
           q == Push(n, s)
<1>1. k \in Nat /\ s \in [1..k -> 1..N] BY SeqIs
<1>2. \A i \in 1..k : s[i] # n /\ s[i] \in 1..N /\ On(s, s[i]) BY <1>1 DEF On
<1>3. q = [i \in 1..(k + 1) |-> IF i = 1 THEN n ELSE s[i - 1]] /\ Len(q) = k + 1
  <2>1. q = [i \in 1..(k + 1) |-> IF i = 1 THEN n ELSE s[i - 1]] BY DEF Push
  <2>2. \A i \in 1..(k + 1) : i = 1 \/ i - 1 \in 1..k BY <1>1
  <2> HIDE DEF k, q
  <2>3. q \in [1..(k + 1) -> 1..N] /\ k + 1 \in Nat BY <1>1, <2>1, <2>2
  <2> QED BY <2>1, <2>3, SeqFrom
<1>4. h = (IF k = 0 THEN 0 ELSE s[1])
      /\ \A i \in 1..k : nx[s[i]] = IF i = k THEN 0 ELSE s[i + 1]
    BY DEF Runs
<1> HIDE DEF k, q
<1>5. 1 \in 1..(k + 1) /\ q[1] = n BY <1>1, <1>3
<1>6. ASSUME NEW i \in 1..(k + 1)
      PROVE  ny[q[i]] = IF i = k + 1 THEN 0 ELSE q[i + 1]
  <2>1. CASE i = 1
    <3>1. k # 0 => 2 \in 1..(k + 1) BY <1>1
    <3>2. k # 0 => q[2] = s[1] BY <1>3, <3>1
    <3> QED BY <1>1, <1>4, <1>5, <2>1, <3>2
  <2>2. CASE i # 1
    <3> DEFINE m == i - 1
    <3>1. m \in 1..k /\ m + 1 = i /\ (m = k <=> i = k + 1) BY <1>1, <2>2
    <3>2. q[i] = s[m] BY <1>3, <2>2
    <3>3. i # k + 1 => i + 1 \in 1..(k + 1) /\ i + 1 # 1 /\ i + 1 - 1 = i BY <1>1
    <3>4. i # k + 1 => q[i + 1] = s[i] BY <1>3, <3>3
    <3> HIDE DEF m
    <3>5. ny[s[m]] = IF m = k THEN 0 ELSE s[m + 1] BY <1>2, <1>4, <3>1
    <3> QED BY <3>1, <3>2, <3>4, <3>5
  <2> QED BY <2>1, <2>2
<1>7. n = IF k + 1 = 0 THEN 0 ELSE q[1] BY <1>1, <1>5
<1>9. Len(q) = k + 1 BY <1>3
<1>10. \A i \in 1..Len(q) : ny[q[i]] = IF i = Len(q) THEN 0 ELSE q[i + 1] BY <1>6, <1>9
<1>11. n = IF Len(q) = 0 THEN 0 ELSE q[1] BY <1>7, <1>9
<1>8. Runs(ny, n, q) BY <1>10, <1>11, Zenon DEF Runs
<1> QED BY <1>8 DEF q

\* n goes before s, whose head is h: n's back link is zero, the old head's is
\* n, and no other back link changes
Prepends(N, s, n, nx, h, pv, py) ==
  /\ N \in Nat /\ s \in Seq(1..N) /\ IsInjective(s) /\ n \in 1..N /\ ~On(s, n)
  /\ Runs(nx, h, s) /\ Back(pv, s) /\ py[n] = 0 /\ (h # 0 => py[h] = n)
  /\ \A v : On(s, v) /\ v # h => py[v] = pv[v]

LEMMA PushBack ==
  \A N, s, n, nx, h, pv, py : Prepends(N, s, n, nx, h, pv, py) => Back(py, Push(n, s))
<1> SUFFICES ASSUME NEW N, NEW s, NEW n, NEW nx, NEW h, NEW pv, NEW py,
                    Prepends(N, s, n, nx, h, pv, py)
             PROVE  Back(py, Push(n, s))
    OBVIOUS
<1>0. /\ N \in Nat /\ s \in Seq(1..N) /\ IsInjective(s) /\ n \in 1..N /\ ~On(s, n)
      /\ Runs(nx, h, s) /\ Back(pv, s) /\ py[n] = 0 /\ (h # 0 => py[h] = n)
      /\ \A v : On(s, v) /\ v # h => py[v] = pv[v]
    BY DEF Prepends
<1> USE <1>0
<1> DEFINE k == Len(s)
           q == Push(n, s)
<1>1. k \in Nat /\ s \in [1..k -> 1..N] /\ DOMAIN s = 1..k BY SeqIs
<1>2. \A i \in 1..k : s[i] # n /\ s[i] \in 1..N /\ s[i] # 0 /\ On(s, s[i]) BY <1>1 DEF On
<1>3. q = [i \in 1..(k + 1) |-> IF i = 1 THEN n ELSE s[i - 1]] /\ Len(q) = k + 1
  <2>1. q = [i \in 1..(k + 1) |-> IF i = 1 THEN n ELSE s[i - 1]] BY DEF Push
  <2>2. \A i \in 1..(k + 1) : i = 1 \/ i - 1 \in 1..k BY <1>1
  <2> HIDE DEF k, q
  <2>3. q \in [1..(k + 1) -> 1..N] /\ k + 1 \in Nat BY <1>1, <2>1, <2>2
  <2> QED BY <2>1, <2>3, SeqFrom
<1>4. k # 0 => h = s[1] BY DEF Runs
<1>5. \A i \in 1..k : pv[s[i]] = IF i = 1 THEN 0 ELSE s[i - 1] BY DEF Back
<1>6. \A a, b \in 1..k : s[a] = s[b] => a = b BY <1>1 DEF IsInjective
<1> HIDE DEF k, q
<1>7. ASSUME NEW i \in 1..(k + 1)
      PROVE  py[q[i]] = IF i = 1 THEN 0 ELSE q[i - 1]
  <2>1. CASE i = 1 BY <1>3, <2>1
  <2>2. CASE i # 1
    <3> DEFINE m == i - 1
    <3>1. m \in 1..k /\ m \in 1..(k + 1) /\ k # 0 BY <1>1, <2>2
    <3>2. q[i] = s[m] BY <1>3, <2>2
    <3> HIDE DEF m
    <3>4. q[m] = IF m = 1 THEN n ELSE s[m - 1] BY <1>3, <3>1
    <3>5. CASE m = 1 BY <1>2, <1>4, <2>2, <3>1, <3>2, <3>4, <3>5 DEF m
    <3>6. CASE m # 1
      <4>1. 1 \in 1..k BY <1>1, <3>1
      <4>2. s[m] # h BY <1>4, <1>6, <3>1, <3>6, <4>1
      <4>3. py[s[m]] = s[m - 1] BY <1>2, <1>5, <3>1, <3>6, <4>2
      <4> QED BY <2>2, <3>2, <3>4, <3>6, <4>3 DEF m
    <3> QED BY <3>5, <3>6
  <2> QED BY <2>1, <2>2
<1> QED BY <1>3, <1>7 DEF Back, q

LEMMA DropIs ==
  ASSUME NEW N \in Nat, NEW s \in Seq(1..N), IsInjective(s), NEW j \in 1..Len(s)
  PROVE  /\ Drop(s, j) \in Seq(1..N) /\ IsInjective(Drop(s, j))
         /\ Len(Drop(s, j)) = Len(s) - 1
         /\ \A v : On(Drop(s, j), v) <=> On(s, v) /\ v # s[j]
<1> DEFINE k == Len(s)
           q == Drop(s, j)
<1>1. k \in Nat /\ s \in [1..k -> 1..N] /\ DOMAIN s = 1..k /\ j \in 1..k BY SeqIs
<1>2. \A a, b \in 1..k : s[a] = s[b] => a = b BY <1>1 DEF IsInjective
<1>3. q = [i \in 1..(k - 1) |-> IF i < j THEN s[i] ELSE s[i + 1]] BY DEF Drop
<1> DEFINE at(i) == IF i < j THEN i ELSE i + 1
<1> HIDE DEF k, q
<1>4. \A i \in 1..(k - 1) : at(i) \in 1..k /\ at(i) # j BY <1>1
<1>5. \A i \in 1..(k - 1) : q[i] = s[at(i)] BY <1>3
<1>6. \A a, b \in 1..(k - 1) : at(a) = at(b) => a = b BY <1>1
<1>7. \A i \in 1..k : i # j => \E m \in 1..(k - 1) : at(m) = i
  <2> SUFFICES ASSUME NEW i \in 1..k, i # j PROVE \E m \in 1..(k - 1) : at(m) = i
      OBVIOUS
  <2>1. CASE i < j
    <3>1. i \in 1..(k - 1) /\ at(i) = i BY <1>1, <2>1
    <3> QED BY <3>1
  <2>2. CASE ~(i < j)
    <3>1. i - 1 \in 1..(k - 1) /\ ~(i - 1 < j) /\ i - 1 + 1 = i BY <1>1, <2>2
    <3>2. at(i - 1) = i BY <3>1
    <3> QED BY <3>1, <3>2
  <2> QED BY <2>1, <2>2
<1> HIDE DEF at
<1>8. k - 1 \in Nat BY <1>1
<1>9. q \in [1..(k - 1) -> 1..N]
  <2>1. \A i \in 1..(k - 1) : q[i] \in 1..N BY <1>1, <1>4, <1>5
  <2> QED BY <1>3, <2>1
<1>10. q \in Seq(1..N) /\ Len(q) = k - 1 /\ DOMAIN q = 1..(k - 1) BY <1>3, <1>8, <1>9, SeqFrom
<1>11. IsInjective(q)
  <2> SUFFICES ASSUME NEW a \in 1..(k - 1), NEW b \in 1..(k - 1), q[a] = q[b] PROVE a = b
      BY <1>10 DEF IsInjective
  <2>1. s[at(a)] = s[at(b)] /\ at(a) \in 1..k /\ at(b) \in 1..k BY <1>4, <1>5
  <2> QED BY <1>2, <1>6, <2>1
<1>12. \A v : On(q, v) <=> On(s, v) /\ v # s[j]
  <2> SUFFICES ASSUME NEW v PROVE On(q, v) <=> On(s, v) /\ v # s[j]
      OBVIOUS
  <2>1. ASSUME NEW i \in 1..(k - 1), q[i] = v PROVE On(s, v) /\ v # s[j]
    <3>1. at(i) \in 1..k /\ at(i) # j /\ s[at(i)] = v BY <1>4, <1>5, <2>1
    <3>2. s[at(i)] # s[j] BY <1>1, <1>2, <3>1
    <3> QED BY <3>1, <3>2 DEF On, k
  <2>2. ASSUME NEW i \in 1..k, s[i] = v, v # s[j] PROVE On(q, v)
    <3>1. PICK m \in 1..(k - 1) : at(m) = i BY <1>7, <2>2
    <3>2. q[m] = v BY <1>5, <2>2, <3>1
    <3> QED BY <1>10, <3>2 DEF On
  <2>3. On(q, v) => On(s, v) /\ v # s[j] BY <1>10, <2>1 DEF On
  <2>4. On(s, v) /\ v # s[j] => On(q, v) BY <2>2 DEF On, k
  <2> QED BY <2>3, <2>4
<1> QED BY <1>10, <1>11, <1>12 DEF q, k

\* An element taken out: what had it as its next has the next of it.
LEMMA DropRuns ==
  ASSUME NEW N \in Nat, NEW s \in Seq(1..N), IsInjective(s), NEW j \in 1..Len(s),
         NEW nx, NEW ny, NEW h, Runs(nx, h, s),
         \A v : On(s, v) /\ v # s[j] =>
           ny[v] = IF v = (IF j = 1 THEN 0 ELSE s[j - 1]) THEN nx[s[j]] ELSE nx[v]
  PROVE  Runs(ny, IF h = s[j] THEN nx[s[j]] ELSE h, Drop(s, j))
<1> DEFINE k == Len(s)
           q == Drop(s, j)
           p == IF j = 1 THEN 0 ELSE s[j - 1]
<1>1. k \in Nat /\ s \in [1..k -> 1..N] /\ DOMAIN s = 1..k /\ j \in 1..k BY SeqIs
<1>2. \A a, b \in 1..k : s[a] = s[b] => a = b BY <1>1 DEF IsInjective
<1>3. q = [i \in 1..(k - 1) |-> IF i < j THEN s[i] ELSE s[i + 1]] BY DEF Drop
<1>4. Len(q) = k - 1 BY DropIs
<1>5. h = (IF k = 0 THEN 0 ELSE s[1])
      /\ \A i \in 1..k : nx[s[i]] = IF i = k THEN 0 ELSE s[i + 1]
    BY DEF Runs
<1> HIDE DEF k, q
<1>6. \A i \in 1..k : s[i] \in 1..N /\ (s[i] = p <=> i = j - 1)
  <2> SUFFICES ASSUME NEW i \in 1..k PROVE s[i] \in 1..N /\ (s[i] = p <=> i = j - 1)
      OBVIOUS
  <2>1. s[i] \in 1..N BY <1>1
  <2>2. CASE j = 1 BY <2>1, <2>2
  <2>3. CASE j # 1
    <3>1. j - 1 \in 1..k /\ p = s[j - 1] BY <1>1, <2>3
    <3> QED BY <1>2, <2>1, <3>1
  <2> QED BY <2>2, <2>3
<1>7. \A i \in 1..k : i # j => ny[s[i]] = IF i = j - 1 THEN nx[s[j]] ELSE nx[s[i]]
  <2> SUFFICES ASSUME NEW i \in 1..k, i # j
               PROVE  ny[s[i]] = IF i = j - 1 THEN nx[s[j]] ELSE nx[s[i]]
      OBVIOUS
  <2>1. s[i] # s[j] BY <1>1, <1>2
  <2>2. On(s, s[i]) BY DEF On, k
  <2> QED BY <1>6, <2>1, <2>2
<1>8. (IF h = s[j] THEN nx[s[j]] ELSE h) = IF k - 1 = 0 THEN 0 ELSE q[1]
  <2>1. 1 \in 1..k /\ h = s[1] BY <1>1, <1>5
  <2>2. h = s[j] <=> j = 1 BY <1>1, <1>2, <2>1
  <2>3. k - 1 # 0 => 1 \in 1..(k - 1) BY <1>1
  <2>4. k - 1 # 0 => q[1] = IF 1 < j THEN s[1] ELSE s[2] BY <1>3, <2>3
  <2>5. nx[s[1]] = IF k = 1 THEN 0 ELSE s[2] BY <1>5, <2>1
  <2>6. CASE j = 1
    <3>1. h = s[j] /\ nx[s[j]] = IF k = 1 THEN 0 ELSE s[2] BY <2>1, <2>5, <2>6
    <3>2. k - 1 # 0 => q[1] = s[2] BY <2>4, <2>6
    <3>3. k = 1 <=> k - 1 = 0 BY <1>1
    <3> QED BY <3>1, <3>2, <3>3
  <2>7. CASE j # 1
    <3>1. h # s[j] /\ 1 < j /\ k - 1 # 0 BY <1>1, <2>2, <2>7
    <3> QED BY <2>1, <2>4, <3>1
  <2> QED BY <2>6, <2>7
<1>9. ASSUME NEW i \in 1..(k - 1) PROVE ny[q[i]] = IF i = k - 1 THEN 0 ELSE q[i + 1]
  <2>0. i \in 1..k /\ i + 1 \in 1..k /\ (i # k - 1 => i + 1 \in 1..(k - 1)) BY <1>1
  <2>1. q[i] = IF i < j THEN s[i] ELSE s[i + 1] BY <1>3
  <2>2. i # k - 1 => q[i + 1] = IF i + 1 < j THEN s[i + 1] ELSE s[i + 1 + 1] BY <1>3, <2>0
  <2>3. CASE i = j - 1
    <3>1. i < j /\ i # j /\ ~(i + 1 < j) /\ i + 1 = j /\ (i = k - 1 <=> j = k) BY <1>1, <2>3
    <3>2. ny[s[i]] = nx[s[j]] BY <1>7, <2>0, <2>3, <3>1
    <3>3. nx[s[j]] = IF j = k THEN 0 ELSE s[j + 1] BY <1>1, <1>5
    <3> QED BY <2>1, <2>2, <3>1, <3>2, <3>3
  <2>4. CASE i < j - 1
    <3>1. i < j /\ i # j /\ i + 1 < j /\ i # k - 1 /\ i # k /\ i # j - 1 BY <1>1, <2>4
    <3>2. ny[s[i]] = nx[s[i]] BY <1>7, <2>0, <3>1
    <3>3. nx[s[i]] = s[i + 1] BY <1>5, <2>0, <3>1
    <3> QED BY <2>1, <2>2, <3>1, <3>2, <3>3
  <2>5. CASE i > j - 1
    <3> DEFINE m == i + 1
    <3>1. ~(i < j) /\ m # j /\ m # j - 1 /\ ~(m < j) /\ (i = k - 1 <=> m = k) /\ m \in 1..k
        BY <1>1, <2>0, <2>5
    <3> HIDE DEF m
    <3>2. ny[s[m]] = nx[s[m]] BY <1>7, <3>1
    <3>3. nx[s[m]] = IF m = k THEN 0 ELSE s[m + 1] BY <1>5, <3>1
    <3>4. q[i] = s[m] /\ (i # k - 1 => q[i + 1] = s[m + 1]) BY <2>1, <2>2, <3>1 DEF m
    <3> QED BY <3>1, <3>2, <3>3, <3>4
  <2> QED BY <1>1, <2>3, <2>4, <2>5
<1>10. Runs(ny, IF h = s[j] THEN nx[s[j]] ELSE h, q) BY <1>4, <1>8, <1>9 DEF Runs
<1> QED BY <1>10 DEF q

LEMMA DropBack ==
  ASSUME NEW N \in Nat, NEW s \in Seq(1..N), IsInjective(s), NEW j \in 1..Len(s),
         NEW nx, NEW h, Runs(nx, h, s), NEW pv, NEW py, Back(pv, s),
         \A v : On(s, v) /\ v # s[j] => py[v] = IF v = nx[s[j]] THEN pv[s[j]] ELSE pv[v]
  PROVE  Back(py, Drop(s, j))
<1> DEFINE k == Len(s)
           q == Drop(s, j)
<1>1. k \in Nat /\ s \in [1..k -> 1..N] /\ DOMAIN s = 1..k /\ j \in 1..k BY SeqIs
<1>2. \A a, b \in 1..k : s[a] = s[b] => a = b BY <1>1 DEF IsInjective
<1>3. q = [i \in 1..(k - 1) |-> IF i < j THEN s[i] ELSE s[i + 1]] BY DEF Drop
<1>4. Len(q) = k - 1 BY DropIs
<1>5. nx[s[j]] = IF j = k THEN 0 ELSE s[j + 1] BY <1>1 DEF Runs
<1>6. \A i \in 1..k : pv[s[i]] = IF i = 1 THEN 0 ELSE s[i - 1] BY DEF Back
<1> HIDE DEF k, q
<1>7. \A i \in 1..k : s[i] \in 1..N /\ (s[i] = nx[s[j]] <=> i = j + 1)
  <2> SUFFICES ASSUME NEW i \in 1..k PROVE s[i] \in 1..N /\ (s[i] = nx[s[j]] <=> i = j + 1)
      OBVIOUS
  <2>1. s[i] \in 1..N BY <1>1
  <2>2. CASE j = k
    <3>1. i # j + 1 /\ nx[s[j]] = 0 BY <1>1, <1>5, <2>2
    <3> QED BY <2>1, <3>1
  <2>3. CASE j # k
    <3>1. j + 1 \in 1..k /\ nx[s[j]] = s[j + 1] BY <1>1, <1>5, <2>3
    <3> QED BY <1>2, <2>1, <3>1
  <2> QED BY <2>2, <2>3
<1>8. \A i \in 1..k : i # j => py[s[i]] = IF i = j + 1 THEN pv[s[j]] ELSE pv[s[i]]
  <2> SUFFICES ASSUME NEW i \in 1..k, i # j
               PROVE  py[s[i]] = IF i = j + 1 THEN pv[s[j]] ELSE pv[s[i]]
      OBVIOUS
  <2>1. s[i] # s[j] BY <1>1, <1>2
  <2>2. On(s, s[i]) BY DEF On, k
  <2> QED BY <1>7, <2>1, <2>2
<1>9. ASSUME NEW i \in 1..(k - 1) PROVE py[q[i]] = IF i = 1 THEN 0 ELSE q[i - 1]
  <2>0. i \in 1..k /\ i + 1 \in 1..k /\ (i # 1 => i - 1 \in 1..(k - 1)) BY <1>1
  <2>1. q[i] = IF i < j THEN s[i] ELSE s[i + 1] BY <1>3
  <2>2. i # 1 => q[i - 1] = IF i - 1 < j THEN s[i - 1] ELSE s[i - 1 + 1] BY <1>3, <2>0
  <2>3. CASE i < j
    <3>1. i # j /\ i # j + 1 /\ i - 1 < j BY <1>1, <2>3
    <3>2. py[s[i]] = pv[s[i]] BY <1>8, <2>0, <3>1
    <3>3. pv[s[i]] = IF i = 1 THEN 0 ELSE s[i - 1] BY <1>6, <2>0
    <3> QED BY <2>1, <2>2, <2>3, <3>1, <3>2, <3>3
  <2>4. CASE i = j
    <3>1. ~(i < j) /\ i + 1 # j /\ i + 1 = j + 1 /\ i - 1 < j BY <1>1, <2>4
    <3>2. py[s[i + 1]] = pv[s[j]] BY <1>8, <2>0, <3>1
    <3>3. pv[s[j]] = IF j = 1 THEN 0 ELSE s[j - 1] BY <1>1, <1>6
    <3> QED BY <2>1, <2>2, <2>4, <3>1, <3>2, <3>3
  <2>5. CASE i > j
    <3> DEFINE m == i + 1
    <3>1. /\ ~(i < j) /\ m # j /\ m # j + 1 /\ ~(i - 1 < j) /\ m \in 1..k
          /\ m - 1 = i /\ i - 1 + 1 = i /\ m # 1 /\ i # 1
        BY <1>1, <2>0, <2>5
    <3> HIDE DEF m
    <3>2. py[s[m]] = pv[s[m]] BY <1>8, <3>1
    <3>3. pv[s[m]] = s[i] BY <1>6, <3>1
    <3>4. q[i] = s[m] /\ q[i - 1] = s[i] BY <2>1, <2>2, <3>1 DEF m
    <3> QED BY <3>1, <3>2, <3>3, <3>4
  <2> QED BY <1>1, <2>3, <2>4, <2>5
<1>10. Back(py, q) BY <1>4, <1>9 DEF Back
<1> QED BY <1>10 DEF q

\* Links that do not change on a list keep it.
LEMMA SameLinks ==
  ASSUME NEW s, NEW nx, NEW ny, NEW h, \A i \in 1..Len(s) : ny[s[i]] = nx[s[i]]
  PROVE  (Runs(nx, h, s) => Runs(ny, h, s)) /\ (Back(nx, s) => Back(ny, s))
BY DEF Runs, Back

\* The head is on the list, and so is what follows an element; 0 is not.
LEMMA Inside ==
  ASSUME NEW N \in Nat, NEW s \in Seq(1..N), NEW nx, NEW h, Runs(nx, h, s)
  PROVE  /\ h # 0 <=> Len(s) # 0
         /\ h # 0 => On(s, h) /\ 1 \in 1..Len(s) /\ h = s[1]
         /\ \A v : On(s, v) => v \in 1..N /\ (nx[v] # 0 => On(s, nx[v]))
<1> DEFINE k == Len(s)
<1>1. k \in Nat /\ s \in [1..k -> 1..N] BY SeqIs
<1>2. h = (IF k = 0 THEN 0 ELSE s[1])
      /\ \A i \in 1..k : nx[s[i]] = IF i = k THEN 0 ELSE s[i + 1]
    BY DEF Runs
<1>3. \A v : On(s, v) <=> \E i \in 1..k : s[i] = v BY DEF On
<1> HIDE DEF k
<1>4. k # 0 => 1 \in 1..k /\ s[1] \in 1..N BY <1>1
<1>5. ASSUME NEW i \in 1..k PROVE s[i] \in 1..N /\ (nx[s[i]] # 0 => On(s, nx[s[i]]))
  <2>1. CASE i = k BY <1>1, <1>2, <2>1
  <2>2. CASE i # k
    <3>1. i + 1 \in 1..k /\ nx[s[i]] = s[i + 1] BY <1>1, <1>2, <2>2
    <3> QED BY <1>1, <1>3, <3>1
  <2> QED BY <2>1, <2>2
<1>6. \A v : On(s, v) => v \in 1..N /\ (nx[v] # 0 => On(s, nx[v])) BY <1>3, <1>5
<1>7. (h # 0 <=> k # 0) /\ (h # 0 => On(s, h) /\ 1 \in 1..k /\ h = s[1])
    BY <1>2, <1>3, <1>4
<1> QED BY <1>6, <1>7 DEF k

\* What a list has is on it
LEMMA OnList ==
  ASSUME NEW N \in Nat, NEW s \in Seq(1..N)
  PROVE  ToSet(s) = {v \in 1..N : On(s, v)}
<1>1. s \in [1..Len(s) -> 1..N] /\ DOMAIN s = 1..Len(s) BY SeqIs
<1> QED BY <1>1 DEF ToSet, On
=============================================================================
