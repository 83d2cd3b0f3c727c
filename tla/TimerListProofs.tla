--------------------------- MODULE TimerListProofs ---------------------------
(***************************************************************************)
(* Theorems about TimerList, for every number of timers and every limit of  *)
(* the array.                                                              *)
(*                                                                         *)
(* The invariant LInv says that some three sequences L are the lists of the *)
(* CPU timers, of the real time timers and of the free ones: each link is   *)
(* the step to the next of its sequence, no timer is twice in them, and a   *)
(* timer of neither list that is walked has no link back (Lists).  Every    *)
(* list function has a lemma that tells what becomes of the sequences.      *)
(*                                                                         *)
(* BeforeIs tells where the walk to the place of a new timer ends, by       *)
(* induction along the list.                                                *)
(***************************************************************************)
EXTENDS TimerList, LinkedListProofs

-----------------------------------------------------------------------------
(* The place of a new timer *)

Kinds == {"cpu", "rt", "free"}
Walked == {"cpu", "rt"}

\* No timer is twice in the lists, neither in one nor in two of them
Distinct(L) ==
  \A k, j \in Kinds : \A i \in 1..Len(L[k]), m \in 1..Len(L[j]) :
    L[k][i] = L[j][m] => k = j /\ i = m

\* The links of z are those of the lists L
Threads(z, N, L) ==
  /\ L \in [Kinds -> Seq(1..N)] /\ Distinct(L)
  /\ \A k \in Kinds : Runs(z.next, z[k], L[k])
  /\ \A t \in 1..N : z.next[t] # 0 => \E k \in Kinds : On(L[k], t)

\* Timer t belongs behind the j-th of the list s, which is timer p
Belongs(z, s, t, p, j) ==
  /\ p = IF j = 0 THEN 0 ELSE s[j]
  /\ j = 0 => Len(s) = 0 \/ earlier(z, t, s[1])
  /\ j # 0 => /\ ~earlier(z, t, s[1])
              /\ j = 1 \/ earlier(z, s[j], t)
              /\ j = Len(s) \/ ~earlier(z, s[j + 1], t)

\* The loop of timer_insert stops where the new timer belongs (z80.c:113-119).
LEMMA BeforeIs ==
  ASSUME NEW N \in Nat, NEW z, NEW L, NEW t, DOMAIN z.next = 1..N, Threads(z, N, L),
         NEW k \in Kinds
  PROVE  \E j \in 0..Len(L[k]) : Belongs(z, L[k], t, before(z, k, t), j)
<1> DEFINE Step(f, u) == IF z.next[u] # 0 /\ earlier(z, z.next[u], t) THEN f[z.next[u]]
                         ELSE u
           Rec(f) == f = [u \in 1..N |-> Step(f, u)]
           F == CHOOSE f : Rec(f)
           n(l) == Len(L[l])
           Stops(l, i) == {j \in i..n(l) : j = n(l) \/ ~earlier(z, L[l][j + 1], t)}
           Least1(l, i) == CHOOSE j \in Stops(l, i) : \A m \in Stops(l, i) : j <= m
           Place(u) == CHOOSE q \in Kinds \X Nat : q[2] \in 1..n(q[1]) /\ L[q[1]][q[2]] = u
           W == [u \in 1..N |-> IF \E l \in Kinds : On(L[l], u)
                                THEN L[Place(u)[1]][Least1(Place(u)[1], Place(u)[2])]
                                ELSE u]
<1>1. before(z, k, t) = IF z[k] = 0 \/ earlier(z, t, z[k]) THEN 0 ELSE F[z[k]]
    BY DEF before
<1>2. \A l \in Kinds : /\ n(l) \in Nat /\ L[l] \in [1..n(l) -> 1..N]
                       /\ z[l] = IF n(l) = 0 THEN 0 ELSE L[l][1]
                       /\ \A i \in 1..n(l) :
                            z.next[L[l][i]] = IF i = n(l) THEN 0 ELSE L[l][i + 1]
    BY LenProperties DEF Threads, Runs
<1>3. \A l \in Kinds : \A i \in 1..n(l) : Place(L[l][i]) = <<l, i>>
  <2> SUFFICES ASSUME NEW l \in Kinds, NEW i \in 1..n(l) PROVE Place(L[l][i]) = <<l, i>>
      OBVIOUS
  <2> DEFINE At(q) == q[2] \in 1..n(q[1]) /\ L[q[1]][q[2]] = L[l][i]
             q0 == Place(L[l][i])
  <2>1. n(l) \in Nat /\ i \in Nat BY <1>2
  <2>2. <<l, i>> \in Kinds \X Nat /\ At(<<l, i>>) BY <2>1
  <2>3. q0 = CHOOSE q \in Kinds \X Nat : At(q) OBVIOUS
  <2> HIDE DEF At, q0
  <2>4. q0 \in Kinds \X Nat /\ At(q0) BY <2>2, <2>3
  <2>5. q0 = <<q0[1], q0[2]>> /\ q0[1] \in Kinds BY <2>4
  <2>6. q0[2] \in 1..n(q0[1]) /\ L[q0[1]][q0[2]] = L[l][i] BY <2>4 DEF At
  <2>7. q0[1] = l /\ q0[2] = i BY <2>5, <2>6 DEF Threads, Distinct
  <2> QED BY <2>5, <2>7 DEF q0
<1> HIDE DEF Place
<1>4. \A l \in Kinds : \A i \in 1..n(l) :
        /\ Least1(l, i) \in Stops(l, i)
        /\ \A m \in Stops(l, i) : Least1(l, i) <= m
  <2> SUFFICES ASSUME NEW l \in Kinds, NEW i \in 1..n(l)
               PROVE  /\ Least1(l, i) \in Stops(l, i)
                      /\ \A m \in Stops(l, i) : Least1(l, i) <= m
      OBVIOUS
  <2> DEFINE S == Stops(l, i)
  <2>1. n(l) \in Nat /\ i \in Nat BY <1>2
  <2>2. S \subseteq Nat /\ n(l) \in S BY <2>1
  <2>3. Least1(l, i) = CHOOSE j \in S : \A m \in S : j <= m OBVIOUS
  <2> HIDE DEF S
  <2>4. \E j \in S : \A m \in S : j <= m BY <2>2, Least
  <2>5. (CHOOSE j \in S : \A m \in S : j <= m) \in S
        /\ \A m \in S : (CHOOSE j \in S : \A m1 \in S : j <= m1) <= m
      BY <2>4
  <2> QED BY <2>3, <2>5 DEF S
<1> HIDE DEF Least1
<1>5. \A u \in 1..N : W[u] = Step(W, u)
  <2>1. ASSUME NEW l \in Kinds, NEW i \in 1..n(l)
        PROVE  W[L[l][i]] = L[l][Least1(l, i)]
    <3> DEFINE u == L[l][i]
    <3>1. u \in 1..N BY <1>2, <2>1
    <3>2. \E m \in Kinds : On(L[m], u) BY <2>1 DEF On
    <3>3. W[u] = L[Place(u)[1]][Least1(Place(u)[1], Place(u)[2])]
      <4> HIDE DEF u
      <4> QED BY <3>1, <3>2
    <3>4. Place(u) = <<l, i>> BY <1>3, <2>1
    <3> HIDE DEF u, W
    <3>5. W[u] = L[l][Least1(l, i)] BY <3>3, <3>4
    <3> QED BY <3>5 DEF u
  <2>2. ASSUME NEW l \in Kinds, NEW i \in 1..n(l)
        PROVE  W[L[l][i]] = Step(W, L[l][i])
    <3> DEFINE e == n(l)
               s == L[l]
               a(m) == Least1(l, m)
    <3>1. /\ e \in Nat /\ s \in [1..e -> 1..N] /\ i \in 1..e
          /\ \A m \in 1..e : z.next[s[m]] = IF m = e THEN 0 ELSE s[m + 1]
        BY <1>2, <2>2
    <3>2. \A m \in 1..e : /\ a(m) \in m..e /\ (a(m) = e \/ ~earlier(z, s[a(m) + 1], t))
                          /\ \A j \in m..e : j = e \/ ~earlier(z, s[j + 1], t) => a(m) <= j
        BY <1>4
    <3>3. \A m \in 1..e : W[s[m]] = s[a(m)] BY <2>1
    <3> HIDE DEF W, e, s, a
    <3>4. CASE i = e
      <4>1. a(i) = e BY <3>1, <3>2, <3>4
      <4>2. z.next[s[i]] = 0 BY <3>1, <3>4
      <4> QED BY <3>1, <3>3, <3>4, <4>1, <4>2 DEF s
    <3>5. CASE i # e /\ ~earlier(z, s[i + 1], t)
      <4>1. z.next[s[i]] = s[i + 1] BY <3>1, <3>5
      <4>5. e \in Nat /\ i \in 1..e BY <3>1
      <4>6. i \in i..e BY <4>5
      <4>7. a(i) \in i..e BY <3>2, <4>5
      <4>2. i \in i..e /\ a(i) \in i..e BY <4>6, <4>7
      <4>4. a(i) <= i BY <3>1, <3>2, <3>5, <4>2
      <4>3. a(i) = i BY <3>1, <4>2, <4>4
      <4> QED BY <3>1, <3>3, <3>5, <4>1, <4>3 DEF s
    <3>6. CASE i # e /\ earlier(z, s[i + 1], t)
      <4>1. i + 1 \in 1..e /\ z.next[s[i]] = s[i + 1] /\ s[i + 1] \in 1..N BY <3>1, <3>6
      <4>2. a(i) \in i..e /\ a(i) # i /\ (a(i) = e \/ ~earlier(z, s[a(i) + 1], t))
          BY <3>1, <3>2, <3>6
      <4>3. a(i + 1) \in (i + 1)..e
            /\ (a(i + 1) = e \/ ~earlier(z, s[a(i + 1) + 1], t))
          BY <3>2, <4>1
      <4>9. e \in Nat /\ i \in Nat /\ i <= e BY <3>1
      <4>4. a(i) \in (i + 1)..e /\ a(i + 1) \in i..e
        <5> DEFINE x == a(i)
                   y == a(i + 1)
        <5>1. x \in i..e /\ x # i /\ y \in (i + 1)..e BY <4>2, <4>3
        <5> HIDE DEF x, y
        <5>2. x \in (i + 1)..e /\ y \in i..e BY <4>9, <5>1
        <5> QED BY <5>2 DEF x, y
      <4>5. a(i + 1) <= a(i) BY <3>2, <4>1, <4>2, <4>4
      <4>6. a(i) <= a(i + 1) BY <3>1, <3>2, <4>3, <4>4
      <4>7. a(i) = a(i + 1) BY <4>4, <4>5, <4>6
      <4>8. W[s[i]] = W[s[i + 1]] BY <3>1, <3>3, <4>1, <4>7
      <4> QED BY <3>6, <4>1, <4>8 DEF s
    <3> QED BY <3>4, <3>5, <3>6
  <2>3. ASSUME NEW u \in 1..N, ~ \E l \in Kinds : On(L[l], u)
        PROVE  W[u] = Step(W, u)
    <3>1. z.next[u] = 0 BY <2>3 DEF Threads
    <3>2. W[u] = u BY <2>3
    <3> HIDE DEF W
    <3> QED BY <3>1, <3>2
  <2> HIDE DEF W, Step
  <2>4. ASSUME NEW u \in 1..N, NEW l \in Kinds, On(L[l], u) PROVE W[u] = Step(W, u)
    <3>1. PICK i \in 1..n(l) : L[l][i] = u BY <2>4 DEF On
    <3> QED BY <2>2, <3>1
  <2> QED BY <2>3, <2>4
<1>6. Rec(F)
  <2> HIDE DEF Step
  <2>0. DOMAIN W = 1..N OBVIOUS
  <2>1. W = [u \in 1..N |-> W[u]] OBVIOUS
  <2> HIDE DEF W
  <2>2. Rec(W) BY <1>5, <2>1
  <2> HIDE DEF Rec
  <2> QED BY <2>2
<1>7. \A u \in 1..N : F[u] = Step(F, u)
  <2> HIDE DEF F, Step
  <2> QED BY <1>6
<1> HIDE DEF F, W
<1> DEFINE s == L[k]
           e == n(k)
           End(i, j) == /\ F[s[i]] = s[j] /\ (j = i \/ earlier(z, s[j], t))
                        /\ (j = e \/ ~earlier(z, s[j + 1], t))
           T == {d \in Nat : d < e => \E j \in e - d .. e : End(e - d, j)}
<1>13. /\ e \in Nat /\ s \in [1..e -> 1..N] /\ z[k] = IF e = 0 THEN 0 ELSE s[1]
       /\ \A i \in 1..e : z.next[s[i]] = IF i = e THEN 0 ELSE s[i + 1]
    BY <1>2
<1> HIDE DEF s, e
<1>14. \A i \in 1..e : F[s[i]] = IF i # e /\ earlier(z, s[i + 1], t) THEN F[s[i + 1]] ELSE s[i]
  <2> SUFFICES ASSUME NEW i \in 1..e
      PROVE F[s[i]] = IF i # e /\ earlier(z, s[i + 1], t) THEN F[s[i + 1]] ELSE s[i]
      OBVIOUS
  <2>1. s[i] \in 1..N /\ F[s[i]] = Step(F, s[i]) BY <1>7, <1>13
  <2>2. i # e => i + 1 \in 1..e /\ s[i + 1] \in 1..N /\ s[i + 1] # 0 BY <1>13
  <2> QED BY <1>13, <2>1, <2>2
<1>8. 0 \in T
  <2>1. CASE e = 0 BY <2>1
  <2>2. CASE e # 0
    <3>1. e \in 1..e /\ e - 0 = e /\ e \in e - 0 .. e BY <1>13, <2>2
    <3>2. F[s[e]] = s[e] BY <1>14, <3>1
    <3> QED BY <3>1, <3>2
  <2> QED BY <2>1, <2>2
<1>9. ASSUME NEW d \in Nat, d \in T PROVE d + 1 \in T
  <2> SUFFICES ASSUME d + 1 < e PROVE \E j \in e - (d + 1) .. e : End(e - (d + 1), j)
      OBVIOUS
  <2> DEFINE i == e - (d + 1)
  <2>1. i \in 1..e /\ i # e /\ i + 1 \in 1..e /\ i + 1 = e - d /\ d < e BY <1>13
  <2>2. PICK j \in i + 1 .. e : End(i + 1, j) BY <1>9, <2>1
  <2> HIDE DEF i
  <2>3. F[s[i]] = IF earlier(z, s[i + 1], t) THEN F[s[i + 1]] ELSE s[i] BY <1>14, <2>1
  <2>4. CASE earlier(z, s[i + 1], t)
    <3>1. F[s[i]] = s[j] /\ j \in i..e BY <1>13, <2>1, <2>2, <2>3, <2>4
    <3>2. End(i, j) BY <2>2, <2>4, <3>1
    <3> QED BY <3>1, <3>2 DEF i
  <2>5. CASE ~earlier(z, s[i + 1], t)
    <3>1. End(i, i) /\ i \in i..e BY <2>1, <2>3, <2>5
    <3> QED BY <3>1 DEF i
  <2> QED BY <2>4, <2>5
<1>10. Nat \subseteq T
  <2> HIDE DEF T
  <2> QED BY <1>8, <1>9, Induction
<1>11. CASE e = 0
  <2>1. z[k] = 0 /\ 0 \in 0..e BY <1>11, <1>13
  <2> QED BY <1>1, <1>11, <2>1 DEF e, Belongs
<1>12. CASE e # 0 /\ earlier(z, t, s[1])
  <2>1. z[k] = s[1] /\ 0 \in 0..e BY <1>12, <1>13
  <2> QED BY <1>1, <1>12, <2>1 DEF e, s, Belongs
<1>15. CASE e # 0 /\ ~earlier(z, t, s[1])
  <2>1. e - 1 \in T /\ e - 1 < e /\ e - (e - 1) = 1 BY <1>10, <1>13, <1>15
  <2>2. PICK j \in 1..e : End(1, j) BY <2>1
  <2>3. z[k] = s[1] /\ s[1] # 0 BY <1>13, <1>15
  <2>4. before(z, k, t) = s[j] BY <1>1, <1>15, <2>2, <2>3
  <2>5. j \in 0..e /\ j # 0 BY <1>13
  <2> QED BY <1>15, <2>2, <2>4, <2>5 DEF e, s, Belongs
<1> QED BY <1>11, <1>12, <1>15 DEF Belongs

-----------------------------------------------------------------------------
(* What the list functions do to the lists *)

\* z is a record of links of N timers
IsLinks(z, N) ==
  z \in [next : [1..N -> 0..N], prev : [1..N -> 0..N], rank : [1..N -> Nat],
         cpu : 0..N, rt : 0..N, free : 0..N]

Sorted(rk, s) == \A i \in 2..Len(s) : rk[s[i - 1]] <= rk[s[i]]

\* Timer t is in neither of the lists that are walked
Idle(L, t) == \A k \in Walked : ~On(L[k], t)

\* The lists L are sound, and u are the timers that are not free
Lists(z, u, N, L) ==
  /\ N \in Nat /\ IsLinks(z, N) /\ Threads(z, N, L)
  /\ u \subseteq 1..N /\ \A t \in 1..N : t \in u <=> ~On(L["free"], t)
  /\ \A k \in Walked : Back(z.prev, L[k]) /\ Sorted(z.rank, L[k])
  /\ \A t \in 1..N : Idle(L, t) => z.prev[t] = 0

\* What Lists says of one list, spelled out.
LEMMA ListFacts ==
  ASSUME NEW z, NEW u, NEW N, NEW L, Lists(z, u, N, L)
  PROVE  \A k \in Kinds : /\ Len(L[k]) \in Nat /\ L[k] \in [1..Len(L[k]) -> 1..N]
                          /\ z[k] = IF Len(L[k]) = 0 THEN 0 ELSE L[k][1]
                          /\ \A i \in 1..Len(L[k]) :
                               z.next[L[k][i]] = IF i = Len(L[k]) THEN 0 ELSE L[k][i + 1]
BY LenProperties DEF Lists, Threads, Runs

\* timer_insert of an idle timer puts it into the list at its place.
LEMMA InsertKeeps ==
  ASSUME NEW z, NEW u, NEW N, NEW L, Lists(z, u, N, L), NEW k \in Walked, NEW t \in u,
         Idle(L, t)
  PROVE  \E M : Lists(timer_insert(z, k, t), u, N, M)
<1> DEFINE y == timer_insert(z, k, t)
           s == L[k]
           e == Len(s)
<1>0. N \in Nat /\ IsLinks(z, N) /\ Threads(z, N, L) /\ k \in Kinds /\ t \in 1..N
    BY DEF Lists, Walked, Kinds
<1>1. /\ e \in Nat /\ s \in [1..e -> 1..N] /\ z[k] = IF e = 0 THEN 0 ELSE s[1]
      /\ \A i \in 1..e : z.next[s[i]] = IF i = e THEN 0 ELSE s[i + 1]
    BY <1>0, ListFacts
<1>2. PICK j \in 0..e :
        /\ before(z, k, t) = IF j = 0 THEN 0 ELSE s[j]
        /\ j = 0 => e = 0 \/ earlier(z, t, s[1])
        /\ j # 0 => /\ ~earlier(z, t, s[1])
                    /\ j = 1 \/ earlier(z, s[j], t)
                    /\ j = e \/ ~earlier(z, s[j + 1], t)
  <2>1. DOMAIN z.next = 1..N BY <1>0 DEF IsLinks
  <2>2. \E j \in 0..Len(L[k]) : Belongs(z, L[k], t, before(z, k, t), j)
      BY <1>0, <2>1, BeforeIs
  <2> QED BY <2>2 DEF e, s, Belongs
<1> DEFINE p == IF j = 0 THEN 0 ELSE s[j]
           n == IF j = e THEN 0 ELSE s[j + 1]
           q == [i \in 1..(e + 1) |-> IF i <= j THEN s[i] ELSE IF i = j + 1 THEN t ELSE s[i - 1]]
           M == [L EXCEPT ![k] = q]
<1>3. p \in 0..N /\ n \in 0..N /\ n = IF p = 0 THEN z[k] ELSE z.next[p]
  <2>1. CASE j = 0
    <3>1. e # 0 => 1 \in 1..e /\ s[1] \in 1..N BY <1>1
    <3> QED BY <1>0, <1>1, <2>1, <3>1
  <2>2. CASE j # 0
    <3>1. j \in 1..e /\ s[j] \in 1..N /\ s[j] # 0 BY <1>1, <1>2, <2>2
    <3>2. j # e => j + 1 \in 1..e /\ s[j + 1] \in 1..N BY <1>1, <3>1
    <3> QED BY <1>0, <1>1, <2>2, <3>1, <3>2
  <2> QED BY <2>1, <2>2
<1> HIDE DEF s, e
<1>4. /\ y.next = [v \in 1..N |-> IF v = t THEN n ELSE IF v = p THEN t ELSE z.next[v]]
      /\ y.prev = [v \in 1..N |-> IF v = t THEN p ELSE IF v = n THEN t ELSE z.prev[v]]
      /\ y.rank = z.rank
      /\ y[k] = IF p = 0 THEN t ELSE z[k]
      /\ \A l \in Kinds : l # k => y[l] = z[l]
      /\ IsLinks(y, N)
  <2>1. before(z, k, t) = p /\ DOMAIN z.next = 1..N /\ DOMAIN z.prev = 1..N
      BY <1>0, <1>2 DEF IsLinks
  <2>2. y = [z EXCEPT ![k] = IF p = 0 THEN t ELSE @,
                      !.prev = [v \in DOMAIN @ |-> IF v = t THEN p
                                                  ELSE IF v = n THEN t ELSE @[v]],
                      !.next = [v \in DOMAIN @ |-> IF v = t THEN n
                                                  ELSE IF v = p THEN t ELSE @[v]]]
      BY <1>3, <2>1, ZenonT(60) DEF timer_insert
  <2> HIDE DEF y, p, n
  <2>3. [v \in 1..N |-> IF v = t THEN n ELSE IF v = p THEN t ELSE z.next[v]] \in [1..N -> 0..N]
      BY <1>0, <1>3 DEF IsLinks
  <2>4. [v \in 1..N |-> IF v = t THEN p ELSE IF v = n THEN t ELSE z.prev[v]] \in [1..N -> 0..N]
      BY <1>0, <1>3 DEF IsLinks
  <2>5. (IF p = 0 THEN t ELSE z[k]) \in 0..N BY <1>0, <1>3 DEF IsLinks, Walked
  <2> DEFINE nx == [v \in 1..N |-> IF v = t THEN n ELSE IF v = p THEN t ELSE z.next[v]]
             pv == [v \in 1..N |-> IF v = t THEN p ELSE IF v = n THEN t ELSE z.prev[v]]
             hd == IF p = 0 THEN t ELSE z[k]
  <2>6. /\ nx \in [1..N -> 0..N] /\ pv \in [1..N -> 0..N] /\ hd \in 0..N
        /\ y = [z EXCEPT ![k] = hd, !.prev = pv, !.next = nx]
    <3>1. z[k] = z[k] /\ k \notin {"next", "prev", "rank"} BY DEF Walked
    <3>2. \A w1, w2, w3 : [z EXCEPT ![k] = w1, !.prev = w2, !.next = w3]
                        = [[[z EXCEPT ![k] = w1] EXCEPT !.prev = w2] EXCEPT !.next = w3]
        OBVIOUS
    <3>3. [z EXCEPT ![k] = hd].prev = z.prev /\ [z EXCEPT ![k] = hd, !.prev = pv].next = z.next
        BY <1>0, <3>1 DEF IsLinks
    <3> QED BY <2>1, <2>2, <2>3, <2>4, <2>5, <3>3
  <2> HIDE DEF nx, pv, hd
  <2>7. \/ k = "cpu" /\ y = [z EXCEPT !.cpu = hd, !.prev = pv, !.next = nx]
        \/ k = "rt" /\ y = [z EXCEPT !.rt = hd, !.prev = pv, !.next = nx]
      BY <2>6 DEF Walked
  <2>8. /\ y.next = nx /\ y.prev = pv /\ y.rank = z.rank /\ y[k] = hd
        /\ \A l \in Kinds : l # k => y[l] = z[l]
        /\ IsLinks(y, N)
      BY <1>0, <2>6, <2>7 DEF IsLinks, Kinds
  <2> QED BY <2>8 DEF nx, pv, hd
<1> HIDE DEF y, s, e, p, n
<1>5. q \in Seq(1..N) /\ Len(q) = e + 1
  <2>1. q \in [1..(e + 1) -> 1..N] BY <1>0, <1>1, <1>2
  <2> HIDE DEF q
  <2> DEFINE m == e + 1
  <2>2. m \in Nat BY <1>1
  <2> HIDE DEF m
  <2>3. \A f \in [1..m -> 1..N] : f \in Seq(1..N) /\ Len(f) = m BY <1>0, <2>2, SeqFrom
  <2> QED BY <2>1, <2>3 DEF m
<1>6. \A i \in 1..(e + 1) :
        q[i] = IF i <= j THEN s[i] ELSE IF i = j + 1 THEN t ELSE s[i - 1]
    OBVIOUS
<1> HIDE DEF q
<1>7. M \in [Kinds -> Seq(1..N)] /\ M[k] = q /\ \A l \in Kinds : l # k => M[l] = L[l]
    BY <1>0, <1>5 DEF Threads
<1> HIDE DEF M
<1> DEFINE sh(l, i) == IF l = k /\ i > j THEN i - 1 ELSE i
<1>8. /\ \A l \in Kinds : ~On(L[l], t)
      /\ \A l \in Kinds : \A i \in 1..Len(L[l]) : L[l][i] # t
  <2>1. \A l \in Kinds : ~On(L[l], t) BY DEF Idle, Kinds, Walked, Lists
  <2> QED BY <2>1 DEF On
<1>9. \A l \in Kinds : \A i \in 1..Len(M[l]) :
        \/ l = k /\ i = j + 1 /\ M[l][i] = t
        \/ /\ ~(l = k /\ i = j + 1) /\ sh(l, i) \in 1..Len(L[l])
           /\ M[l][i] = L[l][sh(l, i)]
  <2> SUFFICES ASSUME NEW l \in Kinds, NEW i \in 1..Len(M[l]), ~(l = k /\ i = j + 1)
               PROVE  sh(l, i) \in 1..Len(L[l]) /\ M[l][i] = L[l][sh(l, i)]
      BY <1>1, <1>2, <1>5, <1>6, <1>7
  <2>1. CASE l # k BY <1>7, <2>1
  <2>2. CASE l = k
    <3>1. i \in 1..(e + 1) /\ i # j + 1 BY <1>5, <1>7, <2>2
    <3>2. M[l][i] = IF i <= j THEN s[i] ELSE s[i - 1] BY <1>6, <1>7, <2>2, <3>1
    <3>3. sh(l, i) = (IF i <= j THEN i ELSE i - 1) /\ sh(l, i) \in 1..e
        BY <1>1, <1>2, <2>2, <3>1
    <3> QED BY <2>2, <3>2, <3>3 DEF s, e
  <2> QED BY <2>1, <2>2
<1>10. Distinct(M)
  <2> SUFFICES ASSUME NEW l \in Kinds, NEW i \in 1..Len(M[l]),
                      NEW r \in Kinds, NEW m \in 1..Len(M[r]), M[l][i] = M[r][m]
               PROVE  l = r /\ i = m
      BY DEF Distinct
  <2>0. i \in Int /\ m \in Int /\ j \in Int OBVIOUS
  <2>1. CASE l = k /\ i = j + 1
    <3>1. M[r][m] = t BY <1>8, <1>9, <2>1
    <3> QED BY <1>8, <1>9, <2>1, <3>1
  <2>2. CASE r = k /\ m = j + 1
    <3>1. M[l][i] = t BY <1>8, <1>9, <2>2
    <3> QED BY <1>8, <1>9, <2>2, <3>1
  <2>3. CASE ~(l = k /\ i = j + 1) /\ ~(r = k /\ m = j + 1)
    <3>1. /\ sh(l, i) \in 1..Len(L[l]) /\ M[l][i] = L[l][sh(l, i)]
          /\ sh(r, m) \in 1..Len(L[r]) /\ M[r][m] = L[r][sh(r, m)]
        BY <1>9, <2>3
    <3>2. l = r /\ sh(l, i) = sh(r, m)
      <4> DEFINE a == sh(l, i)
                 b == sh(r, m)
      <4>1. \A a1 \in 1..Len(L[l]), b1 \in 1..Len(L[r]) :
              L[l][a1] = L[r][b1] => l = r /\ a1 = b1
          BY <1>0 DEF Threads, Distinct
      <4>2. a \in 1..Len(L[l]) /\ b \in 1..Len(L[r]) /\ L[l][a] = L[r][b] BY <3>1
      <4> HIDE DEF a, b
      <4>3. l = r /\ a = b BY <4>1, <4>2
      <4> QED BY <4>3 DEF a, b
    <3> QED BY <2>0, <2>3, <3>2
  <2> QED BY <2>1, <2>2, <2>3
<1>11. \A l \in Kinds : \A v : On(M[l], v) <=> On(L[l], v) \/ (l = k /\ v = t)
  <2> SUFFICES ASSUME NEW l \in Kinds, NEW v
               PROVE  On(M[l], v) <=> On(L[l], v) \/ (l = k /\ v = t)
      OBVIOUS
  <2>1. On(M[l], v) => On(L[l], v) \/ (l = k /\ v = t) BY <1>9 DEF On
  <2>2. l = k /\ v = t => On(M[l], v)
    <3>1. j + 1 \in 1..(e + 1) /\ q[j + 1] = t BY <1>1, <1>2, <1>6
    <3> QED BY <1>5, <1>7, <3>1 DEF On
  <2>3. ASSUME NEW i \in 1..Len(L[l]), L[l][i] = v PROVE On(M[l], v)
    <3>1. CASE l # k BY <1>7, <2>3, <3>1 DEF On
    <3>2. CASE l = k
      <4> DEFINE m == IF i <= j THEN i ELSE i + 1
      <4>1. i \in 1..e /\ s[i] = v BY <2>3, <3>2 DEF s, e
      <4>2. m \in 1..(e + 1) /\ q[m] = s[i] BY <1>1, <1>2, <1>6, <4>1
      <4> HIDE DEF m
      <4> QED BY <1>5, <1>7, <3>2, <4>1, <4>2 DEF On
    <3> QED BY <3>1, <3>2
  <2> QED BY <2>1, <2>2, <2>3 DEF On
<1>12. \A l \in Kinds : Runs(y.next, y[l], M[l])
  <2>1. ASSUME NEW l \in Kinds, l # k PROVE Runs(y.next, y[l], M[l])
    <3>1. M[l] = L[l] /\ y[l] = z[l] BY <1>4, <1>7, <2>1
    <3>2. /\ Len(L[l]) \in Nat /\ L[l] \in [1..Len(L[l]) -> 1..N]
          /\ z[l] = IF Len(L[l]) = 0 THEN 0 ELSE L[l][1]
          /\ \A i \in 1..Len(L[l]) :
               z.next[L[l][i]] = IF i = Len(L[l]) THEN 0 ELSE L[l][i + 1]
        BY <2>1, ListFacts
    <3>3. \A i \in 1..Len(L[l]) : L[l][i] \in 1..N /\ L[l][i] # t /\ L[l][i] # p
      <4>1. \A i \in 1..Len(L[l]), m \in 1..e : L[l][i] # s[m]
          BY <1>0, <2>1 DEF Threads, Distinct, s, e
      <4>2. p = 0 \/ \E m \in 1..e : p = s[m] BY <1>1 DEF p
      <4> QED BY <1>8, <2>1, <3>2, <4>1, <4>2
    <3> QED BY <1>4, <3>1, <3>2, <3>3 DEF Runs
  <2>2. Runs(y.next, y[k], M[k])
    <3>0. \A i, m \in 1..e : s[i] = s[m] => i = m BY <1>0 DEF Threads, Distinct, s, e
    <3>1. \A i \in 1..e : s[i] \in 1..N /\ s[i] # t /\ (s[i] = p <=> i = j)
        BY <1>0, <1>1, <1>2, <1>8, <3>0 DEF p, s, e
    <3>2. y[k] = q[1] /\ 1 \in 1..(e + 1)
      <4>1. CASE j = 0 BY <1>1, <1>4, <1>6, <4>1 DEF p
      <4>2. CASE j # 0
        <5>1. p = s[j] /\ s[j] # 0 /\ e # 0 /\ 1 <= j BY <1>1, <3>1, <4>2 DEF p
        <5>2. q[1] = s[1] BY <1>1, <1>6, <5>1
        <5> QED BY <1>1, <1>4, <5>1, <5>2
      <4> QED BY <4>1, <4>2
    <3>3. ASSUME NEW i \in 1..(e + 1)
          PROVE  y.next[q[i]] = IF i = e + 1 THEN 0 ELSE q[i + 1]
      <4>1. CASE i < j
        <5>0. /\ i \in 1..e /\ i # e /\ i \in 1..(e + 1) /\ i + 1 \in 1..(e + 1)
              /\ i <= j /\ i + 1 <= j
            BY <1>1, <1>2, <4>1
        <5>1. i \in 1..e /\ i # e /\ q[i] = s[i] /\ q[i + 1] = s[i + 1]
            BY <1>6, <5>0
        <5>2. y.next[s[i]] = z.next[s[i]] BY <1>4, <3>1, <4>1, <5>1
        <5> QED BY <1>1, <5>1, <5>2
      <4>2. CASE i = j
        <5>1. i \in 1..e /\ q[i] = s[i] /\ q[i + 1] = t BY <1>1, <1>6, <4>2
        <5>2. y.next[s[i]] = t BY <1>4, <3>1, <4>2, <5>1
        <5> QED BY <1>1, <5>1, <5>2
      <4>3. CASE i = j + 1
        <5>1. q[i] = t /\ y.next[t] = n BY <1>0, <1>4, <1>6, <4>3
        <5>2. j # e => i + 1 \in 1..(e + 1) /\ q[i + 1] = s[j + 1]
            BY <1>1, <1>2, <1>6, <4>3
        <5> QED BY <1>1, <4>3, <5>1, <5>2 DEF n
      <4>4. CASE i > j + 1
        <5>1. i - 1 \in 1..e /\ i - 1 # j /\ q[i] = s[i - 1] BY <1>1, <1>2, <1>6, <4>4
        <5>2. i # e + 1 => q[i + 1] = s[i] BY <1>1, <1>2, <1>6, <4>4
        <5>3. y.next[s[i - 1]] = z.next[s[i - 1]] BY <1>4, <3>1, <5>1
        <5>4. z.next[s[i - 1]] = IF i - 1 = e THEN 0 ELSE s[i - 1 + 1] BY <1>1, <5>1
        <5>5. i - 1 + 1 = i /\ (i - 1 = e <=> i = e + 1) BY <1>1
        <5> QED BY <5>1, <5>2, <5>3, <5>4, <5>5
      <4> QED BY <1>1, <1>2, <4>1, <4>2, <4>3, <4>4
    <3>4. e + 1 # 0 BY <1>1
    <3> QED BY <1>5, <1>7, <3>2, <3>3, <3>4 DEF Runs
  <2> QED BY <2>1, <2>2
<1>13. \A v \in 1..N : y.next[v] # 0 => \E l \in Kinds : On(M[l], v)
  <2> SUFFICES ASSUME NEW v \in 1..N, y.next[v] # 0 PROVE \E l \in Kinds : On(M[l], v)
      OBVIOUS
  <2>1. CASE v = t BY <1>0, <1>11, <2>1
  <2>2. CASE v # t /\ v = p
    <3>1. On(L[k], v) BY <1>1, <2>2 DEF p, On, s, e
    <3> QED BY <1>0, <1>11, <3>1
  <2>3. CASE v # t /\ v # p
    <3>1. z.next[v] # 0 BY <1>4, <2>3
    <3> QED BY <1>0, <1>11, <3>1 DEF Threads
  <2> QED BY <2>1, <2>2, <2>3
<1>14. \A v \in 1..N : v \in u <=> ~On(M["free"], v)
  <2>1. "free" \in Kinds /\ k # "free" BY DEF Kinds, Walked
  <2> QED BY <1>11, <2>1 DEF Lists
<1>15. \A l \in Walked : Back(y.prev, M[l])
  <2>0. \A l \in Walked : l \in Kinds /\ Back(z.prev, L[l]) BY DEF Lists, Walked, Kinds
  <2>1. ASSUME NEW l \in Walked, l # k PROVE Back(y.prev, M[l])
    <3>1. \A i \in 1..Len(L[l]) : L[l][i] \in 1..N /\ L[l][i] # t /\ L[l][i] # n
      <4>0. Len(L[l]) \in Nat /\ L[l] \in [1..Len(L[l]) -> 1..N] BY <2>0, ListFacts
      <4>1. \A i \in 1..Len(L[l]), m \in 1..e : L[l][i] # s[m]
          BY <1>0, <2>0, <2>1 DEF Threads, Distinct, s, e
      <4>2. n = 0 \/ \E m \in 1..e : n = s[m] BY <1>1 DEF n
      <4> QED BY <1>8, <2>0, <2>1, <4>0, <4>1, <4>2
    <3> QED BY <1>4, <1>7, <2>0, <2>1, <3>1 DEF Back
  <2>2. Back(y.prev, M[k])
    <3>0. \A i, m \in 1..e : s[i] = s[m] => i = m BY <1>0 DEF Threads, Distinct, s, e
    <3>4. \A i \in 1..e : s[i] \in 1..N /\ s[i] # t /\ s[i] # 0 BY <1>0, <1>1, <1>8, SMTT(60) DEF s, e
    <3>5. \A i \in 1..e : z.prev[s[i]] = IF i = 1 THEN 0 ELSE s[i - 1] BY <2>0 DEF s, e, Back
    <3>6. \A i \in 1..e : s[i] = n <=> i = j + 1
      <4>1. j # e => j + 1 \in 1..e BY <1>1
      <4> QED BY <1>1, <3>0, <3>4, <4>1 DEF n
    <3>1. \A i \in 1..e : /\ s[i] \in 1..N /\ s[i] # t /\ (s[i] = n <=> i = j + 1)
                          /\ z.prev[s[i]] = IF i = 1 THEN 0 ELSE s[i - 1]
        BY <3>4, <3>5, <3>6
    <3>3. ASSUME NEW i \in 1..(e + 1)
          PROVE  y.prev[q[i]] = IF i = 1 THEN 0 ELSE q[i - 1]
      <4>1. CASE i <= j
        <5>0. i \in 1..e /\ i \in 1..(e + 1) /\ (i # 1 => i - 1 \in 1..(e + 1) /\ i - 1 <= j)
            BY <1>1, <1>2, <4>1
        <5>1. i \in 1..e /\ q[i] = s[i] /\ (i # 1 => q[i - 1] = s[i - 1]) BY <1>6, <4>1, <5>0
        <5>2. y.prev[s[i]] = z.prev[s[i]] BY <1>4, <3>1, <4>1, <5>1
        <5> QED BY <3>1, <5>1, <5>2
      <4>3. CASE i = j + 1
        <5>1. q[i] = t /\ y.prev[t] = p BY <1>0, <1>4, <1>6, <4>3
        <5>2. j # 0 => i - 1 \in 1..(e + 1) /\ q[i - 1] = s[j] BY <1>1, <1>6, <4>3
        <5> QED BY <1>1, <4>3, <5>1, <5>2 DEF p
      <4>4. CASE i > j + 1
        <5>0. i - 1 \in 1..(e + 1) /\ i - 1 \in 1..e BY <1>1, <1>2, <4>4
        <5>1. i - 1 \in 1..e /\ q[i] = s[i - 1] BY <1>1, <1>2, <1>6, <4>4, <5>0
        <5>5. i - 1 > j BY <1>2, <4>4
        <5>2. q[i - 1] = IF i - 1 = j + 1 THEN t ELSE s[i - 1 - 1] BY <1>2, <1>6, <5>0, <5>5
        <5>3. y.prev[s[i - 1]] = IF i - 1 = j + 1 THEN t ELSE z.prev[s[i - 1]]
            BY <1>4, <3>1, <5>1
        <5>4. i - 1 # 1 \/ i - 1 = j + 1 BY <4>4
        <5> QED BY <1>1, <3>1, <4>4, <5>1, <5>2, <5>3, <5>4
      <4> QED BY <1>1, <1>2, <4>1, <4>3, <4>4
    <3> QED BY <1>5, <1>7, <3>3 DEF Back
  <2> QED BY <2>1, <2>2
<1>16. \A l \in Walked : Sorted(y.rank, M[l])
  <2>0. \A l \in Walked : l \in Kinds /\ Sorted(z.rank, L[l]) BY DEF Lists, Walked, Kinds
  <2>1. ASSUME NEW l \in Walked, l # k PROVE Sorted(y.rank, M[l])
      BY <1>4, <1>7, <2>0, <2>1
  <2>2. Sorted(y.rank, M[k])
    <3>0. z.rank \in [1..N -> Nat] BY <1>0 DEF IsLinks
    <3>1. /\ \A i \in 1..e : s[i] \in 1..N /\ z.rank[s[i]] \in Nat
          /\ \A i \in 2..e : z.rank[s[i - 1]] <= z.rank[s[i]]
          /\ z.rank[t] \in Nat
        BY <1>0, <1>1, <2>0, <3>0 DEF s, e, Sorted
    <3>2. j # 0 => z.rank[s[j]] <= z.rank[t] BY <1>1, <1>2, <3>1 DEF earlier
    <3>3. j # e => z.rank[t] <= z.rank[s[j + 1]]
      <4> SUFFICES ASSUME j # e PROVE z.rank[t] <= z.rank[s[j + 1]]
          OBVIOUS
      <4>1. j + 1 \in 1..e BY <1>1
      <4> QED BY <1>1, <1>2, <3>1, <4>1 DEF earlier
    <3>4. ASSUME NEW i \in 2..(e + 1) PROVE z.rank[q[i - 1]] <= z.rank[q[i]]
      <4>1. CASE i <= j
        <5>0. i \in 1..(e + 1) /\ i - 1 \in 1..(e + 1) /\ i \in 2..e /\ i - 1 <= j
            BY <1>1, <1>2, <4>1
        <5>1. q[i] = s[i] /\ q[i - 1] = s[i - 1] BY <1>6, <4>1, <5>0
        <5> QED BY <3>1, <5>0, <5>1
      <4>2. CASE i = j + 1
        <5>1. q[i] = t /\ q[i - 1] = s[j] /\ j # 0 BY <1>1, <1>2, <1>6, <4>2
        <5> QED BY <3>2, <5>1
      <4>3. CASE i = j + 2
        <5>1. q[i] = s[j + 1] /\ q[i - 1] = t /\ j # e BY <1>1, <1>2, <1>6, <4>3
        <5> QED BY <3>3, <5>1
      <4>4. CASE i > j + 2
        <5> DEFINE m == i - 1
        <5>1. q[i] = s[m] /\ q[m] = s[m - 1] /\ m \in 2..e BY <1>1, <1>2, <1>6, <4>4
        <5> HIDE DEF m
        <5>2. z.rank[s[m - 1]] <= z.rank[s[m]] BY <3>1, <5>1
        <5> QED BY <5>1, <5>2 DEF m
      <4> QED BY <1>1, <1>2, <4>1, <4>2, <4>3, <4>4
    <3> QED BY <1>4, <1>5, <1>7, <3>4 DEF Sorted
  <2> QED BY <2>1, <2>2
<1>17. \A v \in 1..N : Idle(M, v) => y.prev[v] = 0
  <2> SUFFICES ASSUME NEW v \in 1..N, Idle(M, v) PROVE y.prev[v] = 0
      OBVIOUS
  <2>0. Walked \subseteq Kinds BY DEF Walked, Kinds
  <2>1. v # t /\ Idle(L, v) BY <1>11, <2>0 DEF Idle
  <2>2. v # n
    <3>1. ~On(L[k], v) BY <2>1 DEF Idle
    <3>2. \A m \in 1..e : s[m] # v BY <3>1 DEF On, s, e
    <3>3. j # e => j + 1 \in 1..e BY <1>1
    <3> QED BY <3>2, <3>3 DEF n
  <2>3. z.prev[v] = 0 BY <2>1 DEF Lists
  <2> QED BY <1>4, <2>1, <2>2, <2>3
<1>18. Threads(y, N, M) BY <1>7, <1>10, <1>12, <1>13 DEF Threads
<1> QED BY <1>0, <1>4, <1>14, <1>15, <1>16, <1>17, <1>18 DEF Lists, y

\* timer_unset takes a timer out of the list it is in, if any, and leaves it idle.
LEMMA UnsetKeeps ==
  ASSUME NEW z, NEW u, NEW N, NEW L, Lists(z, u, N, L), NEW t \in u
  PROVE  /\ \E M : Lists(timer_unset(z, t), u, N, M) /\ Idle(M, t)
         /\ timer_unset(z, t).rank = z.rank
<1> DEFINE y == timer_unset(z, t)
           p == z.prev[t]
           n == z.next[t]
<1>0. N \in Nat /\ IsLinks(z, N) /\ Threads(z, N, L) /\ t \in 1..N BY DEF Lists
<1>1. /\ p \in 0..N /\ n \in 0..N
      /\ y.next = [v \in 1..N |-> IF v = t THEN 0 ELSE IF v = p THEN n ELSE z.next[v]]
      /\ y.prev = [v \in 1..N |-> IF v = t THEN 0 ELSE IF v = n THEN p ELSE z.prev[v]]
      /\ y.rank = z.rank /\ y.free = z.free
      /\ y.cpu = (IF z.cpu = t THEN n ELSE z.cpu) /\ y.rt = (IF z.rt = t THEN n ELSE z.rt)
      /\ IsLinks(y, N)
  <2> DEFINE nx == [v \in 1..N |-> IF v = t THEN 0 ELSE IF v = p THEN n ELSE z.next[v]]
             pv == [v \in 1..N |-> IF v = t THEN 0 ELSE IF v = n THEN p ELSE z.prev[v]]
             h1 == IF z.cpu = t THEN n ELSE z.cpu
             h2 == IF z.rt = t THEN n ELSE z.rt
  <2>1. p \in 0..N /\ n \in 0..N BY <1>0 DEF IsLinks
  <2>2. nx \in [1..N -> 0..N] /\ pv \in [1..N -> 0..N] /\ h1 \in 0..N /\ h2 \in 0..N
    <3>1. /\ 0 \in 0..N /\ z.cpu \in 0..N /\ z.rt \in 0..N
          /\ \A v \in 1..N : z.next[v] \in 0..N /\ z.prev[v] \in 0..N
        BY <1>0 DEF IsLinks
    <3> HIDE DEF p, n
    <3> QED BY <2>1, <3>1
  <2>3. y = [z EXCEPT !.cpu = h1, !.rt = h2, !.next = nx, !.prev = pv]
      BY <1>0 DEF IsLinks, timer_unset
  <2> HIDE DEF nx, pv, h1, h2, y, p, n
  <2>4. /\ y.next = nx /\ y.prev = pv /\ y.rank = z.rank /\ y.free = z.free
        /\ y.cpu = h1 /\ y.rt = h2 /\ IsLinks(y, N)
      BY <1>0, <2>2, <2>3 DEF IsLinks
  <2> QED BY <2>1, <2>4 DEF nx, pv, h1, h2
<1> HIDE DEF y
<1>2. CASE Idle(L, t)
  <2>1. \A l \in Kinds : ~On(L[l], t) BY <1>2 DEF Idle, Kinds, Walked, Lists
  <2>2. p = 0 /\ n = 0 BY <1>0, <1>2, <2>1 DEF Lists, Threads
  <2>3. \A l \in Kinds : z[l] # t
    <3> SUFFICES ASSUME NEW l \in Kinds PROVE z[l] # t
        OBVIOUS
    <3>1. Len(L[l]) \in Nat /\ z[l] = IF Len(L[l]) = 0 THEN 0 ELSE L[l][1] BY ListFacts
    <3> QED BY <1>0, <2>1, <3>1 DEF On
  <2>4. y.next = z.next /\ y.prev = z.prev
    <3>1. /\ z.next = [v \in 1..N |-> z.next[v]] /\ z.prev = [v \in 1..N |-> z.prev[v]]
        BY <1>0 DEF IsLinks
    <3>2. \A v \in 1..N : /\ (IF v = t THEN 0 ELSE IF v = p THEN n ELSE z.next[v]) = z.next[v]
                          /\ (IF v = t THEN 0 ELSE IF v = n THEN p ELSE z.prev[v]) = z.prev[v]
        BY <1>0, <2>2
    <3> HIDE DEF p, n
    <3> QED BY <1>1, <3>1, <3>2
  <2>5. \A l \in Kinds : y[l] = z[l] BY <1>1, <2>3 DEF Kinds
  <2>6. Lists(y, u, N, L) BY <1>0, <1>1, <2>4, <2>5 DEF Lists, Threads
  <2> QED BY <1>1, <1>2, <2>6 DEF y
<1>3. CASE ~Idle(L, t)
  <2>1. PICK k \in Walked : On(L[k], t) BY <1>3 DEF Idle
  <2>2. PICK j \in 1..Len(L[k]) : L[k][j] = t BY <2>1 DEF On
  <2> DEFINE s == L[k]
             e == Len(s)
  <2>3. k \in Kinds BY DEF Kinds, Walked
  <2>4. /\ e \in Nat /\ s \in [1..e -> 1..N] /\ z[k] = IF e = 0 THEN 0 ELSE s[1]
        /\ \A i \in 1..e : z.next[s[i]] = IF i = e THEN 0 ELSE s[i + 1]
      BY <2>3, ListFacts
  <2>5. \A i \in 1..e : z.prev[s[i]] = IF i = 1 THEN 0 ELSE s[i - 1] BY DEF Lists, Back
  <2>6. j \in 1..e /\ s[j] = t BY <2>2
  <2>7. \A i, m \in 1..e : s[i] = s[m] => i = m BY <1>0, <2>3 DEF Threads, Distinct
  <2>8. \A l \in Kinds : l # k =>
          \A i \in 1..Len(L[l]) : L[l][i] \in 1..N /\ \A m \in 1..e : L[l][i] # s[m]
    <3> SUFFICES ASSUME NEW l \in Kinds, l # k, NEW i \in 1..Len(L[l])
                 PROVE  L[l][i] \in 1..N /\ \A m \in 1..e : L[l][i] # s[m]
        OBVIOUS
    <3>1. Len(L[l]) \in Nat /\ L[l] \in [1..Len(L[l]) -> 1..N] BY ListFacts
    <3> QED BY <1>0, <2>3, <3>1 DEF Threads, Distinct
  <2> HIDE DEF s, e
  <2>9. n = (IF j = e THEN 0 ELSE s[j + 1]) /\ p = (IF j = 1 THEN 0 ELSE s[j - 1])
      BY <2>4, <2>5, <2>6
  <2> HIDE DEF p, n
  <2>10. \A i \in 1..e : /\ s[i] \in 1..N /\ (s[i] = t <=> i = j)
                         /\ (s[i] = p <=> i = j - 1) /\ (s[i] = n <=> i = j + 1)
    <3>1. j # e => j + 1 \in 1..e BY <2>4, <2>6
    <3>2. j # 1 => j - 1 \in 1..e BY <2>4, <2>6
    <3>3. \A i \in 1..e : s[i] \in 1..N /\ s[i] # 0 BY <1>0, <2>4
    <3> QED BY <2>4, <2>6, <2>7, <2>9, <3>1, <3>2, <3>3
  <2> DEFINE d == e - 1
             q == [i \in 1..d |-> IF i < j THEN s[i] ELSE s[i + 1]]
             M == [L EXCEPT ![k] = q]
             sh(l, i) == IF l = k /\ i >= j THEN i + 1 ELSE i
  <2>11. d \in Nat /\ e = d + 1 BY <2>4, <2>6
  <2> HIDE DEF d
  <2>12. q \in Seq(1..N) /\ Len(q) = d
    <3>1. q \in [1..d -> 1..N] BY <1>0, <2>4, <2>6, <2>11
    <3> HIDE DEF q
    <3> QED BY <1>0, <2>11, <3>1, SeqFrom
  <2>13. \A i \in 1..d : q[i] = IF i < j THEN s[i] ELSE s[i + 1] OBVIOUS
  <2> HIDE DEF q
  <2>14. M \in [Kinds -> Seq(1..N)] /\ M[k] = q /\ \A l \in Kinds : l # k => M[l] = L[l]
      BY <1>0, <2>3, <2>12 DEF Threads
  <2> HIDE DEF M
  <2>15. \A l \in Kinds : \A i \in 1..Len(M[l]) :
           /\ sh(l, i) \in 1..Len(L[l]) /\ ~(l = k /\ sh(l, i) = j)
           /\ M[l][i] = L[l][sh(l, i)]
    <3> SUFFICES ASSUME NEW l \in Kinds, NEW i \in 1..Len(M[l])
                 PROVE  /\ sh(l, i) \in 1..Len(L[l]) /\ ~(l = k /\ sh(l, i) = j)
                        /\ M[l][i] = L[l][sh(l, i)]
        OBVIOUS
    <3>1. CASE l # k BY <2>14, <3>1
    <3>2. CASE l = k
      <4>1. i \in 1..d BY <2>12, <2>14, <3>2
      <4>2. M[l][i] = IF i < j THEN s[i] ELSE s[i + 1] BY <2>13, <2>14, <3>2, <4>1
      <4>3. sh(l, i) = (IF i < j THEN i ELSE i + 1) /\ sh(l, i) \in 1..e /\ sh(l, i) # j
          BY <2>6, <2>11, <3>2, <4>1
      <4> QED BY <3>2, <4>2, <4>3 DEF s, e
    <3> QED BY <3>1, <3>2
  <2>16. Distinct(M)
    <3> SUFFICES ASSUME NEW l \in Kinds, NEW i \in 1..Len(M[l]),
                        NEW r \in Kinds, NEW m \in 1..Len(M[r]), M[l][i] = M[r][m]
                 PROVE  l = r /\ i = m
        BY DEF Distinct
    <3>0. i \in Int /\ m \in Int /\ j \in Int OBVIOUS
    <3> DEFINE a == sh(l, i)
               b == sh(r, m)
    <3>1. \A a1 \in 1..Len(L[l]), b1 \in 1..Len(L[r]) :
            L[l][a1] = L[r][b1] => l = r /\ a1 = b1
        BY <1>0 DEF Threads, Distinct
    <3>2. a \in 1..Len(L[l]) /\ b \in 1..Len(L[r]) /\ L[l][a] = L[r][b] BY <2>15
    <3> HIDE DEF a, b
    <3>3. l = r /\ a = b BY <3>1, <3>2
    <3> QED BY <3>0, <3>3 DEF a, b
  <2>17. \A l \in Kinds : \A v : On(M[l], v) <=> On(L[l], v) /\ v # t
    <3> SUFFICES ASSUME NEW l \in Kinds, NEW v
                 PROVE  On(M[l], v) <=> On(L[l], v) /\ v # t
        OBVIOUS
    <3>0. ~On(L[l], t) \/ l = k BY <2>6, <2>8 DEF On
    <3>1. ASSUME NEW i \in 1..Len(M[l]), M[l][i] = v PROVE On(L[l], v) /\ v # t
      <4> DEFINE a == sh(l, i)
      <4>1. a \in 1..Len(L[l]) /\ ~(l = k /\ a = j) /\ v = L[l][a] BY <2>15, <3>1
      <4> HIDE DEF a
      <4>2. On(L[l], v) BY <4>1 DEF On
      <4>3. CASE l = k BY <2>10, <4>1, <4>2, <4>3 DEF s, e
      <4>4. CASE l # k BY <3>0, <4>2, <4>4
      <4> QED BY <4>2, <4>3, <4>4
    <3>2. ASSUME NEW i \in 1..Len(L[l]), L[l][i] = v, v # t PROVE On(M[l], v)
      <4>1. CASE l # k BY <2>14, <3>2, <4>1 DEF On
      <4>2. CASE l = k
        <5> DEFINE m == IF i < j THEN i ELSE i - 1
        <5>1. i \in 1..e /\ s[i] = v /\ i # j BY <2>6, <3>2, <4>2 DEF s, e
        <5>2. m \in 1..d /\ q[m] = s[i] BY <2>6, <2>11, <2>13, <5>1
        <5> HIDE DEF m
        <5> QED BY <2>12, <2>14, <4>2, <5>1, <5>2 DEF On
      <4> QED BY <4>1, <4>2
    <3> QED BY <3>1, <3>2 DEF On
  <2>18. \A l \in Kinds : Runs(y.next, y[l], M[l])
    <3>1. ASSUME NEW l \in Kinds, l # k PROVE Runs(y.next, y[l], M[l])
      <4>1. /\ Len(L[l]) \in Nat /\ z[l] = IF Len(L[l]) = 0 THEN 0 ELSE L[l][1]
            /\ \A i \in 1..Len(L[l]) :
                 z.next[L[l][i]] = IF i = Len(L[l]) THEN 0 ELSE L[l][i + 1]
          BY <3>1, ListFacts
      <4>2. \A i \in 1..Len(L[l]) : L[l][i] \in 1..N /\ L[l][i] # t /\ L[l][i] # p
        <5>1. p = 0 \/ \E m \in 1..e : p = s[m] BY <2>4, <2>6, <2>9
        <5> QED BY <2>6, <2>8, <3>1, <5>1
      <4>3. z[l] # t BY <1>0, <4>1, <4>2
      <4>4. y[l] = z[l] BY <1>1, <4>3 DEF Kinds
      <4> QED BY <1>1, <2>14, <3>1, <4>1, <4>2, <4>4 DEF Runs
    <3>2. Runs(y.next, y[k], M[k])
      <4>1. y[k] = IF j = 1 THEN n ELSE s[1]
        <5>1. z[k] = s[1] /\ (s[1] = t <=> j = 1) BY <2>4, <2>6, <2>10
        <5> QED BY <1>1, <5>1 DEF Walked
      <4>2. y[k] = IF d = 0 THEN 0 ELSE q[1]
        <5>1. CASE d = 0 BY <2>6, <2>9, <2>11, <4>1, <5>1
        <5>2. CASE d # 0
          <6>1. 1 \in 1..d BY <2>11, <5>2
          <6> QED BY <2>6, <2>9, <2>11, <2>13, <4>1, <5>2, <6>1
        <5> QED BY <5>1, <5>2
      <4>3. ASSUME NEW i \in 1..d
            PROVE  y.next[q[i]] = IF i = d THEN 0 ELSE q[i + 1]
        <5>0. i # d => i + 1 \in 1..d BY <2>11
        <5>1. CASE i < j - 1
          <6>1. i \in 1..e /\ i # e /\ i # j /\ i # j - 1 /\ i # d /\ i < j /\ i + 1 < j
              BY <2>6, <2>11, <5>1
          <6>2. q[i] = s[i] /\ q[i + 1] = s[i + 1] BY <2>13, <5>0, <6>1
          <6>3. y.next[s[i]] = z.next[s[i]] BY <1>1, <2>10, <6>1
          <6> QED BY <2>4, <6>1, <6>2, <6>3
        <5>2. CASE i = j - 1
          <6>1. i \in 1..e /\ i < j /\ q[i] = s[i] BY <2>6, <2>11, <2>13, <5>2
          <6>2. y.next[s[i]] = n BY <1>1, <2>10, <5>2, <6>1
          <6>3. i # d => q[i + 1] = s[j + 1] BY <2>6, <2>11, <2>13, <5>0, <5>2
          <6>4. i = d <=> j = e BY <2>6, <2>11, <5>2
          <6> QED BY <2>9, <6>1, <6>2, <6>3, <6>4
        <5>3. CASE i > j - 1
          <6>1. i + 1 \in 1..e /\ i + 1 # j /\ i + 1 # j - 1 /\ ~(i < j) /\ ~(i + 1 < j)
              BY <2>6, <2>11, <5>3
          <6>2. q[i] = s[i + 1] /\ (i # d => q[i + 1] = s[i + 1 + 1])
              BY <2>13, <5>0, <6>1
          <6>3. y.next[s[i + 1]] = z.next[s[i + 1]] BY <1>1, <2>10, <6>1
          <6>4. z.next[s[i + 1]] = IF i + 1 = e THEN 0 ELSE s[i + 1 + 1] BY <2>4, <6>1
          <6>5. i + 1 = e <=> i = d BY <2>11
          <6> QED BY <6>2, <6>3, <6>4, <6>5
        <5> QED BY <5>1, <5>2, <5>3
      <4> QED BY <2>12, <2>14, <4>2, <4>3 DEF Runs
    <3> QED BY <3>1, <3>2
  <2>19. \A v \in 1..N : y.next[v] # 0 => \E l \in Kinds : On(M[l], v)
    <3> SUFFICES ASSUME NEW v \in 1..N, y.next[v] # 0 PROVE \E l \in Kinds : On(M[l], v)
        OBVIOUS
    <3>1. v # t BY <1>1
    <3>2. CASE v = p
      <4>1. On(L[k], v) BY <2>4, <2>6, <2>9, <3>2 DEF On, s, e
      <4> QED BY <2>3, <2>17, <3>1, <4>1
    <3>3. CASE v # p
      <4>1. z.next[v] # 0 BY <1>1, <3>1, <3>3
      <4> QED BY <1>0, <2>17, <3>1, <4>1 DEF Threads
    <3> QED BY <3>2, <3>3
  <2>20. \A v \in 1..N : v \in u <=> ~On(M["free"], v)
    <3>1. "free" \in Kinds BY DEF Kinds
    <3> QED BY <2>17, <3>1 DEF Lists
  <2>21. \A l \in Walked : Back(y.prev, M[l])
    <3>0. \A l \in Walked : l \in Kinds /\ Back(z.prev, L[l]) BY DEF Lists, Walked, Kinds
    <3>1. ASSUME NEW l \in Walked, l # k PROVE Back(y.prev, M[l])
      <4>1. \A i \in 1..Len(L[l]) : L[l][i] \in 1..N /\ L[l][i] # t /\ L[l][i] # n
        <5>1. n = 0 \/ \E m \in 1..e : n = s[m] BY <2>4, <2>6, <2>9
        <5> QED BY <2>6, <2>8, <3>0, <3>1, <5>1
      <4> QED BY <1>1, <2>14, <3>0, <3>1, <4>1 DEF Back
    <3>2. ASSUME NEW i \in 1..d
          PROVE  y.prev[q[i]] = IF i = 1 THEN 0 ELSE q[i - 1]
      <4>0. i # 1 => i - 1 \in 1..d BY <2>11
      <4>1. CASE i < j
        <5>1. i \in 1..e /\ i # j /\ i # j + 1 /\ i - 1 < j BY <2>6, <2>11, <4>1
        <5>2. q[i] = s[i] /\ (i # 1 => q[i - 1] = s[i - 1]) BY <2>13, <4>0, <4>1, <5>1
        <5>3. y.prev[s[i]] = z.prev[s[i]] BY <1>1, <2>10, <5>1
        <5> QED BY <2>5, <5>1, <5>2, <5>3
      <4>2. CASE i = j
        <5>1. i + 1 \in 1..e /\ q[i] = s[i + 1] BY <2>6, <2>11, <2>13, <4>2
        <5>2. y.prev[s[i + 1]] = p
          <6>1. i + 1 # j /\ i + 1 = j + 1 BY <4>2
          <6> QED BY <1>1, <2>10, <5>1, <6>1
        <5>3. i # 1 => q[i - 1] = s[j - 1] BY <2>6, <2>11, <2>13, <4>0, <4>2
        <5> QED BY <2>9, <4>2, <5>1, <5>2, <5>3
      <4>3. CASE i > j
        <5>1. i + 1 \in 1..e /\ i + 1 # j /\ i + 1 # j + 1 /\ ~(i < j) /\ ~(i - 1 < j)
              /\ i # 1 /\ i - 1 + 1 = i /\ i + 1 - 1 = i /\ i + 1 # 1
            BY <2>6, <2>11, <4>3
        <5>2. q[i] = s[i + 1] /\ q[i - 1] = s[i] BY <2>13, <4>0, <5>1
        <5>3. y.prev[s[i + 1]] = z.prev[s[i + 1]] BY <1>1, <2>10, <5>1
        <5>4. z.prev[s[i + 1]] = s[i] BY <2>5, <5>1
        <5> QED BY <5>1, <5>2, <5>3, <5>4
      <4> QED BY <2>6, <2>11, <4>1, <4>2, <4>3
    <3>3. Back(y.prev, M[k]) BY <2>12, <2>14, <3>2, <2>3 DEF Back
    <3> QED BY <3>1, <3>3
  <2>22. \A l \in Walked : Sorted(y.rank, M[l])
    <3>0. \A l \in Walked : l \in Kinds /\ Sorted(z.rank, L[l]) BY DEF Lists, Walked, Kinds
    <3>1. ASSUME NEW l \in Walked, l # k PROVE Sorted(y.rank, M[l])
        BY <1>1, <2>14, <3>0, <3>1
    <3>2. /\ \A i \in 1..e : s[i] \in 1..N /\ z.rank[s[i]] \in Nat
          /\ \A i \in 2..e : z.rank[s[i - 1]] <= z.rank[s[i]]
      <4>1. z.rank \in [1..N -> Nat] BY <1>0 DEF IsLinks
      <4> QED BY <2>10, <3>0, <4>1 DEF s, e, Sorted
    <3>3. ASSUME NEW i \in 2..d PROVE z.rank[q[i - 1]] <= z.rank[q[i]]
      <4>0. i \in 1..d /\ i - 1 \in 1..d BY <2>11
      <4>1. CASE i < j
        <5>1. q[i] = s[i] /\ q[i - 1] = s[i - 1] /\ i \in 2..e BY <2>11, <2>13, <4>0, <4>1
        <5> QED BY <3>2, <5>1
      <4>2. CASE i = j
        <5>1. /\ q[i] = s[i + 1] /\ q[i - 1] = s[i - 1] /\ i \in 2..e /\ i + 1 \in 2..e
              /\ i + 1 - 1 = i /\ i - 1 \in 1..e /\ i + 1 \in 1..e /\ i \in 1..e
            BY <2>11, <2>13, <4>0, <4>2
        <5>2. z.rank[s[i - 1]] <= z.rank[s[i]] /\ z.rank[s[i]] <= z.rank[s[i + 1]]
          <6>1. z.rank[s[i + 1 - 1]] <= z.rank[s[i + 1]] BY <3>2, <5>1
          <6> QED BY <3>2, <5>1, <6>1
        <5>3. z.rank[s[i - 1]] \in Nat /\ z.rank[s[i]] \in Nat /\ z.rank[s[i + 1]] \in Nat
            BY <3>2, <5>1
        <5> HIDE DEF q
        <5> QED BY <5>1, <5>2, <5>3
      <4>3. CASE i > j
        <5> DEFINE m == i + 1
        <5>1. q[i] = s[m] /\ q[i - 1] = s[m - 1] /\ m \in 2..e
            BY <2>6, <2>11, <2>13, <4>0, <4>3
        <5> HIDE DEF m
        <5> QED BY <3>2, <5>1
      <4> QED BY <2>6, <2>11, <4>1, <4>2, <4>3
    <3>4. Sorted(y.rank, M[k]) BY <1>1, <2>12, <2>14, <3>3 DEF Sorted
    <3> QED BY <3>1, <3>4
  <2>23. \A v \in 1..N : Idle(M, v) => y.prev[v] = 0
    <3> SUFFICES ASSUME NEW v \in 1..N, Idle(M, v), v # t PROVE y.prev[v] = 0
        BY <1>1
    <3>0. Walked \subseteq Kinds BY DEF Walked, Kinds
    <3>1. Idle(L, v) BY <2>17, <3>0 DEF Idle
    <3>2. v # n
      <4>1. \A m \in 1..e : s[m] # v BY <3>1 DEF On, s, e, Idle
      <4>2. j # e => j + 1 \in 1..e BY <2>4, <2>6
      <4> QED BY <2>9, <4>1, <4>2
    <3>3. z.prev[v] = 0 BY <3>1 DEF Lists
    <3> QED BY <1>1, <3>2, <3>3
  <2>24. Threads(y, N, M) BY <2>14, <2>16, <2>18, <2>19 DEF Threads
  <2>25. Lists(y, u, N, M) BY <1>0, <1>1, <2>20, <2>21, <2>22, <2>23, <2>24 DEF Lists
  <2>26. Idle(M, t) BY <2>17 DEF Idle, Walked, Kinds
  <2> QED BY <1>1, <2>25, <2>26 DEF y
<1> QED BY <1>2, <1>3

\* The count of an idle timer may be anything.
LEMMA RerankKeeps ==
  ASSUME NEW z, NEW u, NEW N, NEW L, Lists(z, u, N, L), NEW t \in u, Idle(L, t),
         NEW r \in Nat
  PROVE  Lists([z EXCEPT !.rank[t] = r], u, N, L)
<1> DEFINE y == [z EXCEPT !.rank[t] = r]
<1>0. N \in Nat /\ IsLinks(z, N) /\ Threads(z, N, L) /\ t \in 1..N BY DEF Lists
<1>1. /\ y.next = z.next /\ y.prev = z.prev /\ y.cpu = z.cpu /\ y.rt = z.rt /\ y.free = z.free
      /\ y.rank = [z.rank EXCEPT ![t] = r] /\ IsLinks(y, N)
    BY <1>0 DEF IsLinks
<1> HIDE DEF y
<1>2. \A k \in Kinds : y[k] = z[k] BY <1>1 DEF Kinds
<1>3. Threads(y, N, L) BY <1>0, <1>1, <1>2 DEF Threads
<1>4. ASSUME NEW k \in Walked PROVE Sorted(y.rank, L[k])
  <2>1. k \in Kinds /\ Sorted(z.rank, L[k]) BY DEF Lists, Walked, Kinds
  <2>2. Len(L[k]) \in Nat /\ L[k] \in [1..Len(L[k]) -> 1..N] BY <2>1, ListFacts
  <2>3. \A i \in 1..Len(L[k]) : y.rank[L[k][i]] = z.rank[L[k][i]]
    <3>1. z.rank \in [1..N -> Nat] BY <1>0 DEF IsLinks
    <3>2. \A i \in 1..Len(L[k]) : L[k][i] # t BY DEF Idle, On
    <3> QED BY <1>1, <2>2, <3>1, <3>2
  <2>4. \A i \in 2..Len(L[k]) : i \in 1..Len(L[k]) /\ i - 1 \in 1..Len(L[k]) BY <2>2
  <2> QED BY <2>1, <2>3, <2>4 DEF Sorted
<1> QED BY <1>1, <1>3, <1>4 DEF Lists, y

\* timer_free puts an idle timer in front of the free ones.
LEMMA FreeKeeps ==
  ASSUME NEW z, NEW u, NEW N, NEW L, Lists(z, u, N, L), NEW t \in u, Idle(L, t)
  PROVE  \E M : Lists(free(z, t), u \ {t}, N, M)
<1> DEFINE y == free(z, t)
           s == L["free"]
           e == Len(s)
<1>0. N \in Nat /\ IsLinks(z, N) /\ Threads(z, N, L) /\ t \in 1..N /\ "free" \in Kinds
    BY DEF Lists, Kinds
<1>1. /\ y.next = [z.next EXCEPT ![t] = z.free] /\ y.prev = [z.prev EXCEPT ![t] = 0]
      /\ y.rank = z.rank /\ y.cpu = z.cpu /\ y.rt = z.rt /\ y.free = t /\ IsLinks(y, N)
  <2> DEFINE nx == [z.next EXCEPT ![t] = z.free]
             pv == [z.prev EXCEPT ![t] = 0]
  <2>1. nx \in [1..N -> 0..N] /\ pv \in [1..N -> 0..N] /\ t \in 0..N BY <1>0 DEF IsLinks
  <2>2. y = [z EXCEPT !.next = nx, !.prev = pv, !.free = t] BY <1>0 DEF IsLinks, free
  <2> HIDE DEF nx, pv, y
  <2>3. /\ y.next = nx /\ y.prev = pv /\ y.rank = z.rank /\ y.cpu = z.cpu /\ y.rt = z.rt
        /\ y.free = t /\ IsLinks(y, N)
      BY <1>0, <2>1, <2>2 DEF IsLinks
  <2> QED BY <2>3 DEF nx, pv
<1> HIDE DEF y
<1>2. /\ e \in Nat /\ s \in [1..e -> 1..N] /\ z.free = IF e = 0 THEN 0 ELSE s[1]
      /\ \A i \in 1..e : z.next[s[i]] = IF i = e THEN 0 ELSE s[i + 1]
    BY <1>0, ListFacts
<1>3. /\ \A l \in Kinds : ~On(L[l], t)
      /\ \A l \in Kinds : \A i \in 1..Len(L[l]) : L[l][i] # t
  <2>1. \A l \in Kinds : ~On(L[l], t) BY DEF Idle, Kinds, Walked, Lists
  <2> QED BY <2>1 DEF On
<1>4. \A l \in Kinds : \A i \in 1..Len(L[l]) : L[l][i] \in 1..N
  <2> SUFFICES ASSUME NEW l \in Kinds PROVE \A i \in 1..Len(L[l]) : L[l][i] \in 1..N
      OBVIOUS
  <2>1. Len(L[l]) \in Nat /\ L[l] \in [1..Len(L[l]) -> 1..N] BY ListFacts
  <2> QED BY <2>1
<1>5. z.next \in [1..N -> 0..N] /\ z.prev \in [1..N -> 0..N] BY <1>0 DEF IsLinks
<1> HIDE DEF s, e
<1> DEFINE d == e + 1
           q == [i \in 1..d |-> IF i = 1 THEN t ELSE s[i - 1]]
           M == [L EXCEPT !["free"] = q]
           sh(l, i) == IF l = "free" THEN i - 1 ELSE i
<1>6. d \in Nat /\ d = e + 1 BY <1>2
<1> HIDE DEF d
<1>7. q \in Seq(1..N) /\ Len(q) = d
  <2>1. q \in [1..d -> 1..N] BY <1>0, <1>2, <1>6
  <2> HIDE DEF q
  <2> QED BY <1>0, <1>6, <2>1, SeqFrom
<1>8. \A i \in 1..d : q[i] = IF i = 1 THEN t ELSE s[i - 1] OBVIOUS
<1> HIDE DEF q
<1>9. /\ M \in [Kinds -> Seq(1..N)] /\ M["free"] = q
      /\ \A l \in Kinds : l # "free" => M[l] = L[l]
    BY <1>0, <1>7 DEF Threads
<1> HIDE DEF M
<1>10. \A l \in Kinds : \A i \in 1..Len(M[l]) :
         \/ l = "free" /\ i = 1 /\ M[l][i] = t
         \/ /\ ~(l = "free" /\ i = 1) /\ sh(l, i) \in 1..Len(L[l])
            /\ M[l][i] = L[l][sh(l, i)]
  <2> SUFFICES ASSUME NEW l \in Kinds, NEW i \in 1..Len(M[l]), ~(l = "free" /\ i = 1)
               PROVE  sh(l, i) \in 1..Len(L[l]) /\ M[l][i] = L[l][sh(l, i)]
      BY <1>6, <1>7, <1>8, <1>9
  <2>1. CASE l # "free" BY <1>9, <2>1
  <2>2. CASE l = "free"
    <3>1. i \in 1..d /\ i # 1 BY <1>7, <1>9, <2>2
    <3>2. M[l][i] = s[i - 1] BY <1>8, <1>9, <2>2, <3>1
    <3>3. i - 1 \in 1..e BY <1>2, <1>6, <3>1
    <3> QED BY <2>2, <3>2, <3>3 DEF s, e
  <2> QED BY <2>1, <2>2
<1>11. Distinct(M)
  <2> SUFFICES ASSUME NEW l \in Kinds, NEW i \in 1..Len(M[l]),
                      NEW r \in Kinds, NEW m \in 1..Len(M[r]), M[l][i] = M[r][m]
               PROVE  l = r /\ i = m
      BY DEF Distinct
  <2>0. i \in Int /\ m \in Int OBVIOUS
  <2>1. CASE l = "free" /\ i = 1
    <3>1. M[r][m] = t BY <1>3, <1>10, <2>1
    <3> QED BY <1>3, <1>10, <2>1, <3>1
  <2>2. CASE r = "free" /\ m = 1
    <3>1. M[l][i] = t BY <1>3, <1>10, <2>2
    <3> QED BY <1>3, <1>10, <2>2, <3>1
  <2>3. CASE ~(l = "free" /\ i = 1) /\ ~(r = "free" /\ m = 1)
    <3> DEFINE a == sh(l, i)
               b == sh(r, m)
    <3>1. \A a1 \in 1..Len(L[l]), b1 \in 1..Len(L[r]) :
            L[l][a1] = L[r][b1] => l = r /\ a1 = b1
        BY <1>0 DEF Threads, Distinct
    <3>2. a \in 1..Len(L[l]) /\ b \in 1..Len(L[r]) /\ L[l][a] = L[r][b] BY <1>10, <2>3
    <3> HIDE DEF a, b
    <3>3. l = r /\ a = b BY <3>1, <3>2
    <3> QED BY <2>0, <3>3 DEF a, b
  <2> QED BY <2>1, <2>2, <2>3
<1>12. \A l \in Kinds : \A v : On(M[l], v) <=> On(L[l], v) \/ (l = "free" /\ v = t)
  <2> SUFFICES ASSUME NEW l \in Kinds, NEW v
               PROVE  On(M[l], v) <=> On(L[l], v) \/ (l = "free" /\ v = t)
      OBVIOUS
  <2>1. On(M[l], v) => On(L[l], v) \/ (l = "free" /\ v = t) BY <1>10 DEF On
  <2>2. l = "free" /\ v = t => On(M[l], v)
    <3>1. 1 \in 1..d /\ q[1] = t BY <1>2, <1>6, <1>8
    <3> QED BY <1>7, <1>9, <3>1 DEF On
  <2>3. ASSUME NEW i \in 1..Len(L[l]), L[l][i] = v PROVE On(M[l], v)
    <3>1. CASE l # "free" BY <1>9, <2>3, <3>1 DEF On
    <3>2. CASE l = "free"
      <4> DEFINE m == i + 1
      <4>1. i \in 1..e /\ s[i] = v BY <2>3, <3>2 DEF s, e
      <4>2. m \in 1..d /\ q[m] = s[i] BY <1>2, <1>6, <1>8, <4>1
      <4> HIDE DEF m
      <4> QED BY <1>7, <1>9, <3>2, <4>1, <4>2 DEF On
    <3> QED BY <3>1, <3>2
  <2> QED BY <2>1, <2>2, <2>3 DEF On
<1>13. \A l \in Kinds : Runs(y.next, y[l], M[l])
  <2>1. ASSUME NEW l \in Kinds, l # "free" PROVE Runs(y.next, y[l], M[l])
    <3>1. y[l] = z[l] BY <1>1, <2>1 DEF Kinds
    <3>2. \A i \in 1..Len(L[l]) : y.next[L[l][i]] = z.next[L[l][i]]
        BY <1>1, <1>3, <1>4, <1>5
    <3> QED BY <1>0, <1>9, <2>1, <3>1, <3>2 DEF Threads, Runs
  <2>2. ASSUME NEW i \in 1..d PROVE y.next[q[i]] = IF i = d THEN 0 ELSE q[i + 1]
    <3>0. i # d => i + 1 \in 1..d BY <1>6
    <3>1. CASE i = 1
      <4>1. y.next[q[i]] = z.free BY <1>0, <1>1, <1>5, <1>8, <3>1
      <4>2. e = 0 <=> i = d BY <1>2, <1>6, <3>1
      <4>3. i # d => q[i + 1] = s[1] BY <1>8, <3>0, <3>1
      <4> QED BY <1>2, <4>1, <4>2, <4>3
    <3>2. CASE i # 1
      <4>1. i - 1 \in 1..e /\ q[i] = s[i - 1] /\ i - 1 + 1 = i /\ (i = d <=> i - 1 = e)
          BY <1>2, <1>6, <1>8, <3>2
      <4>2. y.next[s[i - 1]] = z.next[s[i - 1]]
        <5>1. s[i - 1] \in 1..N /\ s[i - 1] # t BY <1>0, <1>2, <1>3, <4>1 DEF s, e
        <5> QED BY <1>1, <1>5, <5>1
      <4>3. i # d => q[i + 1] = s[i]
        <5>1. i # d => i + 1 # 1 /\ i + 1 - 1 = i BY <3>0
        <5> QED BY <1>8, <3>0, <5>1
      <4>4. z.next[s[i - 1]] = IF i - 1 = e THEN 0 ELSE s[i - 1 + 1] BY <1>2, <4>1
      <4> QED BY <4>1, <4>2, <4>3, <4>4
    <3> QED BY <3>1, <3>2
  <2>3. y.free = q[1] /\ d # 0 BY <1>1, <1>2, <1>6, <1>8
  <2>4. Runs(y.next, y["free"], M["free"]) BY <1>7, <1>9, <2>2, <2>3 DEF Runs
  <2> QED BY <2>1, <2>4
<1>14. \A v \in 1..N : y.next[v] # 0 => \E l \in Kinds : On(M[l], v)
  <2> SUFFICES ASSUME NEW v \in 1..N, y.next[v] # 0 PROVE \E l \in Kinds : On(M[l], v)
      OBVIOUS
  <2>1. CASE v = t BY <1>0, <1>12, <2>1
  <2>2. CASE v # t
    <3>1. z.next[v] # 0 BY <1>1, <1>5, <2>2
    <3> QED BY <1>0, <1>12, <3>1 DEF Threads
  <2> QED BY <2>1, <2>2
<1>15. Threads(y, N, M) BY <1>9, <1>11, <1>13, <1>14 DEF Threads
<1>16. \A v \in 1..N : v \in u \ {t} <=> ~On(M["free"], v) BY <1>0, <1>12 DEF Lists
<1>17. \A l \in Walked : Back(y.prev, M[l]) /\ Sorted(y.rank, M[l])
  <2> SUFFICES ASSUME NEW l \in Walked PROVE Back(y.prev, M[l]) /\ Sorted(y.rank, M[l])
      OBVIOUS
  <2>1. /\ l \in Kinds /\ l # "free"
        /\ Back(z.prev, L[l]) /\ Sorted(z.rank, L[l])
      BY DEF Lists, Walked, Kinds
  <2>2. \A i \in 1..Len(L[l]) : y.prev[L[l][i]] = z.prev[L[l][i]]
      BY <1>1, <1>3, <1>4, <1>5, <2>1
  <2> QED BY <1>1, <1>9, <2>1, <2>2 DEF Back
<1>18. \A v \in 1..N : Idle(M, v) => y.prev[v] = 0
  <2> SUFFICES ASSUME NEW v \in 1..N, Idle(M, v) PROVE y.prev[v] = 0
      OBVIOUS
  <2>1. Idle(L, v) BY <1>12 DEF Idle, Walked, Kinds
  <2> QED BY <1>1, <1>5, <2>1 DEF Lists
<1> QED BY <1>0, <1>1, <1>15, <1>16, <1>17, <1>18 DEF Lists, y

\* timer_alloc takes the first of the free timers, and it is idle.
LEMMA AllocKeeps ==
  ASSUME NEW z, NEW u, NEW N, NEW L, Lists(z, u, N, L), z.free # 0
  PROVE  LET y == [z EXCEPT !.free = z.next[@], !.next[z.free] = 0] IN
         \E M : Lists(y, u \cup {z.free}, N, M) /\ Idle(M, z.free)
<1> DEFINE t == z.free
           y == [z EXCEPT !.free = z.next[@], !.next[z.free] = 0]
           s == L["free"]
           e == Len(s)
<1>0. N \in Nat /\ IsLinks(z, N) /\ Threads(z, N, L) /\ t \in 1..N /\ "free" \in Kinds
  <2>1. N \in Nat /\ IsLinks(z, N) /\ Threads(z, N, L) BY DEF Lists
  <2>2. z.free \in 0..N BY <2>1 DEF IsLinks
  <2> QED BY <2>1, <2>2 DEF Kinds
<1>1. /\ y.next = [z.next EXCEPT ![t] = 0] /\ y.prev = z.prev /\ y.rank = z.rank
      /\ y.cpu = z.cpu /\ y.rt = z.rt /\ y.free = z.next[t] /\ IsLinks(y, N)
  <2> DEFINE nx == [z.next EXCEPT ![t] = 0]
             f == z.next[t]
  <2>1. nx \in [1..N -> 0..N] /\ f \in 0..N BY <1>0 DEF IsLinks
  <2>2. y = [z EXCEPT !.free = f, !.next = nx] BY <1>0 DEF IsLinks
  <2> HIDE DEF nx, f, y
  <2>3. /\ y.next = nx /\ y.prev = z.prev /\ y.rank = z.rank /\ y.cpu = z.cpu /\ y.rt = z.rt
        /\ y.free = f /\ IsLinks(y, N)
      BY <1>0, <2>1, <2>2 DEF IsLinks
  <2> QED BY <2>3 DEF nx, f
<1> HIDE DEF y
<1>2. /\ e \in Nat /\ s \in [1..e -> 1..N] /\ z.free = IF e = 0 THEN 0 ELSE s[1]
      /\ \A i \in 1..e : z.next[s[i]] = IF i = e THEN 0 ELSE s[i + 1]
    BY <1>0, ListFacts
<1>3. \A i, m \in 1..e : s[i] = s[m] => i = m BY <1>0 DEF Threads, Distinct
<1>4. \A l \in Kinds : l # "free" =>
        \A i \in 1..Len(L[l]) : L[l][i] \in 1..N /\ \A m \in 1..e : L[l][i] # s[m]
  <2> SUFFICES ASSUME NEW l \in Kinds, l # "free", NEW i \in 1..Len(L[l])
               PROVE  L[l][i] \in 1..N /\ \A m \in 1..e : L[l][i] # s[m]
      OBVIOUS
  <2>1. Len(L[l]) \in Nat /\ L[l] \in [1..Len(L[l]) -> 1..N] BY ListFacts
  <2> QED BY <1>0, <2>1 DEF Threads, Distinct
<1>5. z.next \in [1..N -> 0..N] /\ z.prev \in [1..N -> 0..N] BY <1>0 DEF IsLinks
<1> HIDE DEF s, e
<1> DEFINE d == e - 1
           q == [i \in 1..d |-> s[i + 1]]
           M == [L EXCEPT !["free"] = q]
           sh(l, i) == IF l = "free" THEN i + 1 ELSE i
<1>6. d \in Nat /\ e = d + 1 /\ 1 \in 1..e /\ s[1] = t BY <1>2
<1>7. \A i \in 1..e : s[i] \in 1..N /\ (s[i] = t <=> i = 1) BY <1>2, <1>3, <1>6
<1> HIDE DEF d, t
<1>8. q \in Seq(1..N) /\ Len(q) = d
  <2>1. q \in [1..d -> 1..N] BY <1>0, <1>2, <1>6
  <2> HIDE DEF q
  <2> QED BY <1>0, <1>6, <2>1, SeqFrom
<1>9. \A i \in 1..d : q[i] = s[i + 1] OBVIOUS
<1> HIDE DEF q
<1>10. /\ M \in [Kinds -> Seq(1..N)] /\ M["free"] = q
       /\ \A l \in Kinds : l # "free" => M[l] = L[l]
    BY <1>0, <1>8 DEF Threads
<1> HIDE DEF M
<1>11. \A l \in Kinds : \A i \in 1..Len(M[l]) :
         sh(l, i) \in 1..Len(L[l]) /\ M[l][i] = L[l][sh(l, i)] /\ M[l][i] # t
  <2> SUFFICES ASSUME NEW l \in Kinds, NEW i \in 1..Len(M[l])
               PROVE  sh(l, i) \in 1..Len(L[l]) /\ M[l][i] = L[l][sh(l, i)] /\ M[l][i] # t
      OBVIOUS
  <2>1. CASE l # "free" BY <1>4, <1>6, <1>10, <2>1
  <2>2. CASE l = "free"
    <3>1. i \in 1..d BY <1>8, <1>10, <2>2
    <3>2. M[l][i] = s[i + 1] BY <1>9, <1>10, <2>2, <3>1
    <3>3. i + 1 \in 1..e /\ i + 1 # 1 BY <1>6, <3>1
    <3> QED BY <1>7, <2>2, <3>2, <3>3 DEF s, e
  <2> QED BY <2>1, <2>2
<1>12. Distinct(M)
  <2> SUFFICES ASSUME NEW l \in Kinds, NEW i \in 1..Len(M[l]),
                      NEW r \in Kinds, NEW m \in 1..Len(M[r]), M[l][i] = M[r][m]
               PROVE  l = r /\ i = m
      BY DEF Distinct
  <2>0. i \in Int /\ m \in Int OBVIOUS
  <2> DEFINE a == sh(l, i)
             b == sh(r, m)
  <2>1. \A a1 \in 1..Len(L[l]), b1 \in 1..Len(L[r]) :
          L[l][a1] = L[r][b1] => l = r /\ a1 = b1
      BY <1>0 DEF Threads, Distinct
  <2>2. a \in 1..Len(L[l]) /\ b \in 1..Len(L[r]) /\ L[l][a] = L[r][b] BY <1>11
  <2> HIDE DEF a, b
  <2>3. l = r /\ a = b BY <2>1, <2>2
  <2> QED BY <2>0, <2>3 DEF a, b
<1>13. \A l \in Kinds : \A v : On(M[l], v) <=> On(L[l], v) /\ v # t
  <2> SUFFICES ASSUME NEW l \in Kinds, NEW v
               PROVE  On(M[l], v) <=> On(L[l], v) /\ v # t
      OBVIOUS
  <2>1. On(M[l], v) => On(L[l], v) /\ v # t BY <1>11 DEF On
  <2>2. ASSUME NEW i \in 1..Len(L[l]), L[l][i] = v, v # t PROVE On(M[l], v)
    <3>1. CASE l # "free" BY <1>10, <2>2, <3>1 DEF On
    <3>2. CASE l = "free"
      <4> DEFINE m == i - 1
      <4>1. i \in 1..e /\ s[i] = v /\ i # 1 BY <1>6, <2>2, <3>2 DEF s, e
      <4>2. m \in 1..d /\ m + 1 = i BY <1>6, <4>1
      <4>3. q[m] = s[i] BY <1>9, <4>2
      <4> HIDE DEF m
      <4> QED BY <1>8, <1>10, <3>2, <4>1, <4>2, <4>3 DEF On
    <3> QED BY <3>1, <3>2
  <2> QED BY <2>1, <2>2 DEF On
<1>14. \A l \in Kinds : Runs(y.next, y[l], M[l])
  <2>1. ASSUME NEW l \in Kinds, l # "free" PROVE Runs(y.next, y[l], M[l])
    <3>1. y[l] = z[l] BY <1>1, <2>1 DEF Kinds
    <3>2. \A i \in 1..Len(L[l]) : y.next[L[l][i]] = z.next[L[l][i]]
        BY <1>1, <1>4, <1>5, <1>6, <2>1
    <3> QED BY <1>0, <1>10, <2>1, <3>1, <3>2 DEF Threads, Runs
  <2>2. ASSUME NEW i \in 1..d PROVE y.next[q[i]] = IF i = d THEN 0 ELSE q[i + 1]
    <3>0. i # d => i + 1 \in 1..d BY <1>6
    <3>1. i + 1 \in 1..e /\ i + 1 # 1 /\ (i + 1 = e <=> i = d) BY <1>6
    <3>2. q[i] = s[i + 1] /\ (i # d => q[i + 1] = s[i + 1 + 1]) BY <1>9, <3>0
    <3>3. y.next[s[i + 1]] = z.next[s[i + 1]] BY <1>1, <1>5, <1>7, <3>1
    <3>4. z.next[s[i + 1]] = IF i + 1 = e THEN 0 ELSE s[i + 1 + 1] BY <1>2, <3>1
    <3> QED BY <3>1, <3>2, <3>3, <3>4
  <2>3. y.free = IF d = 0 THEN 0 ELSE q[1]
    <3>1. y.free = IF 1 = e THEN 0 ELSE s[1 + 1] BY <1>1, <1>2, <1>6
    <3>2. d # 0 => 1 \in 1..d /\ 1 # e BY <1>6
    <3>3. d = 0 => e = 1 BY <1>6
    <3> QED BY <1>9, <3>1, <3>2, <3>3
  <2>4. Runs(y.next, y["free"], M["free"]) BY <1>8, <1>10, <2>2, <2>3 DEF Runs
  <2> QED BY <2>1, <2>4
<1>15. \A v \in 1..N : y.next[v] # 0 => \E l \in Kinds : On(M[l], v)
  <2> SUFFICES ASSUME NEW v \in 1..N, y.next[v] # 0 PROVE \E l \in Kinds : On(M[l], v)
      OBVIOUS
  <2>1. v # t /\ z.next[v] # 0 BY <1>1, <1>5
  <2> QED BY <1>0, <1>13, <2>1 DEF Threads
<1>16. Threads(y, N, M) BY <1>10, <1>12, <1>14, <1>15 DEF Threads
<1>17. u \cup {t} \subseteq 1..N BY <1>0 DEF Lists
<1>18. \A v \in 1..N : v \in u \cup {t} <=> ~On(M["free"], v) BY <1>0, <1>13 DEF Lists
<1>19. \A l \in Walked : Back(y.prev, M[l]) /\ Sorted(y.rank, M[l])
  <2> SUFFICES ASSUME NEW l \in Walked PROVE Back(y.prev, M[l]) /\ Sorted(y.rank, M[l])
      OBVIOUS
  <2>1. /\ l \in Kinds /\ l # "free"
        /\ Back(z.prev, L[l]) /\ Sorted(z.rank, L[l])
      BY DEF Lists, Walked, Kinds
  <2> QED BY <1>1, <1>10, <2>1
<1>20. Idle(M, t) BY <1>13 DEF Idle, Walked, Kinds
<1>21. \A v \in 1..N : Idle(M, v) => y.prev[v] = 0
  <2> SUFFICES ASSUME NEW v \in 1..N, Idle(M, v) PROVE z.prev[v] = 0
      BY <1>1
  <2>1. ASSUME NEW l \in Walked PROVE ~On(L[l], v)
    <3>1. l \in Kinds /\ ~On(M[l], v) BY DEF Idle, Walked, Kinds
    <3>2. l # "free" BY DEF Walked
    <3>3. M[l] = L[l] BY <1>10, <3>1, <3>2
    <3> QED BY <3>1, <3>3
  <2> QED BY <2>1 DEF Lists, Idle
<1>22. Lists(y, u \cup {t}, N, M) BY <1>0, <1>1, <1>16, <1>17, <1>18, <1>19, <1>21 DEF Lists
<1> QED BY <1>20, <1>22 DEF y, t

\* When no timer is free, the array grows and all of its new timers are.
LEMMA GrowKeeps ==
  ASSUME NEW z, NEW u, NEW N, NEW L, Lists(z, u, N, L), z.free = 0
  PROVE  \E M : Lists(grow(z), u, 2 * (N + 1), M) /\ grow(z).free = 2 * (N + 1)
<1> DEFINE y == grow(z)
           n == N + 1
           K == 2 * n
           nx == [t \in 1..K |-> IF t > n THEN t - 1 ELSE IF t < n THEN z.next[t] ELSE 0]
           pv == [t \in 1..K |-> IF t < n THEN z.prev[t] ELSE 0]
           rk == [t \in 1..K |-> IF t < n THEN z.rank[t] ELSE 0]
<1>0. /\ N \in Nat /\ IsLinks(z, N) /\ Threads(z, N, L) /\ "free" \in Kinds
      /\ n \in Nat /\ n = N + 1 /\ K \in Nat /\ K = n + n
    BY DEF Lists, Kinds
<1>1. /\ y.next = nx /\ y.prev = pv /\ y.rank = rk
      /\ y.cpu = z.cpu /\ y.rt = z.rt /\ y.free = K /\ IsLinks(y, K)
  <2>1. Cardinality(DOMAIN z.next) + 1 = n
    <3>1. DOMAIN z.next = 1..N BY <1>0 DEF IsLinks
    <3>2. \A m \in Nat : Cardinality(1..m) = m BY FS_Interval
    <3> QED BY <1>0, <3>1, <3>2
  <2>2. y = [z EXCEPT !.next = [t \in 1..(2 * n) |-> IF t > n THEN t - 1
                                ELSE [v \in 1..(2 * n) |-> IF v < n THEN z.next[v] ELSE 0][t]],
                      !.prev = pv, !.rank = rk, !.free = K]
    <3> DEFINE c == Cardinality(DOMAIN z.next) + 1
    <3>1. y = [z EXCEPT !.next = [t \in 1..(2 * c) |-> IF t > c THEN t - 1
                                  ELSE [v \in 1..(2 * c) |-> IF v < c THEN z.next[v] ELSE 0][t]],
                        !.prev = [t \in 1..(2 * c) |-> IF t < c THEN z.prev[t] ELSE 0],
                        !.rank = [t \in 1..(2 * c) |-> IF t < c THEN z.rank[t] ELSE 0],
                        !.free = 2 * c]
        BY <1>0 DEF IsLinks, grow
    <3>2. c = n BY <2>1
    <3> HIDE DEF n, c, y
    <3> QED BY <3>1, <3>2
  <2>3. nx = [t \in 1..(2 * n) |-> IF t > n THEN t - 1
              ELSE [v \in 1..(2 * n) |-> IF v < n THEN z.next[v] ELSE 0][t]]
      OBVIOUS
  <2>4. /\ nx \in [1..K -> 0..K] /\ pv \in [1..K -> 0..K] /\ rk \in [1..K -> Nat]
        /\ K \in 0..K /\ 0..N \subseteq 0..K
    <3> HIDE DEF n, K
    <3>1. \A t \in 1..K : t < n => t \in 1..N BY <1>0
    <3>2. \A t \in 1..N : z.next[t] \in 0..N /\ z.prev[t] \in 0..N /\ z.rank[t] \in Nat
        BY <1>0 DEF IsLinks
    <3>3. 0..N \subseteq 0..K /\ 0 \in 0..K /\ \A t \in 1..K : t > n => t - 1 \in 0..K BY <1>0
    <3>4. nx \in [1..K -> 0..K] BY <3>1, <3>2, <3>3
    <3>5. pv \in [1..K -> 0..K] BY <3>1, <3>2, <3>3
    <3>6. rk \in [1..K -> Nat] BY <3>1, <3>2
    <3>7. K \in 0..K BY <1>0
    <3> QED BY <3>3, <3>4, <3>5, <3>6, <3>7
  <2> HIDE DEF nx, pv, rk, K, y, n
  <2>5. y = [z EXCEPT !.next = nx, !.prev = pv, !.rank = rk, !.free = K] BY <2>2, <2>3
  <2>6. /\ y.next = nx /\ y.prev = pv /\ y.rank = rk
        /\ y.cpu = z.cpu /\ y.rt = z.rt /\ y.free = K
        /\ y = [next |-> nx, prev |-> pv, rank |-> rk, cpu |-> z.cpu, rt |-> z.rt, free |-> K]
      BY <1>0, <2>5 DEF IsLinks
  <2>7. z.cpu \in 0..K /\ z.rt \in 0..K BY <1>0, <2>4 DEF IsLinks
  <2>8. IsLinks(y, K) BY <2>4, <2>6, <2>7 DEF IsLinks
  <2> QED BY <2>6, <2>8
<1> HIDE DEF y
<1> DEFINE d == n + 1
           q == [i \in 1..d |-> K + 1 - i]
           M == [L EXCEPT !["free"] = q]
<1> HIDE DEF n, K
<1>2. d \in Nat /\ d = n + 1 BY <1>0
<1> HIDE DEF d
<1>3. q \in Seq(1..K) /\ Len(q) = d
  <2>1. q \in [1..d -> 1..K] BY <1>0, <1>2
  <2> HIDE DEF q
  <2> QED BY <1>0, <1>2, <2>1, SeqFrom
<1>4. \A i \in 1..d : q[i] = K + 1 - i OBVIOUS
<1> HIDE DEF q
<1>5. \A l \in Kinds : /\ Len(L[l]) \in Nat /\ L[l] \in Seq(1..K)
                       /\ \A i \in 1..Len(L[l]) : L[l][i] \in 1..N /\ L[l][i] < n
  <2> SUFFICES ASSUME NEW l \in Kinds
               PROVE  /\ Len(L[l]) \in Nat /\ L[l] \in Seq(1..K)
                      /\ \A i \in 1..Len(L[l]) : L[l][i] \in 1..N /\ L[l][i] < n
      OBVIOUS
  <2> DEFINE s == L[l]
             m == Len(s)
  <2>1. m \in Nat /\ s \in [1..m -> 1..N] BY ListFacts
  <2> HIDE DEF m, s
  <2>2. s \in [1..m -> 1..K] BY <1>0, <2>1
  <2>3. s \in Seq(1..K) BY <1>0, <2>1, <2>2, SeqFrom
  <2>4. \A i \in 1..m : s[i] \in 1..N /\ s[i] < n BY <1>0, <2>1
  <2> QED BY <2>1, <2>3, <2>4 DEF m, s
<1>6. M \in [Kinds -> Seq(1..K)] /\ M["free"] = q /\ \A l \in Kinds : l # "free" => M[l] = L[l]
  <2>1. DOMAIN L = Kinds BY <1>0 DEF Threads
  <2> QED BY <1>0, <1>3, <1>5, <2>1
<1> HIDE DEF M
<1>7. Len(L["free"]) = 0
  <2>1. z.free = IF Len(L["free"]) = 0 THEN 0 ELSE L["free"][1] BY <1>0, ListFacts
  <2> QED BY <1>0, <1>5, <2>1
<1>8. Distinct(M)
  <2> SUFFICES ASSUME NEW l \in Kinds, NEW i \in 1..Len(M[l]),
                      NEW r \in Kinds, NEW m \in 1..Len(M[r]), M[l][i] = M[r][m]
               PROVE  l = r /\ i = m
      BY DEF Distinct
  <2>1. \A j \in 1..d : q[j] >= n BY <1>0, <1>2, <1>4
  <2>2. CASE l = "free" /\ r = "free"
    <3>1. i \in 1..d /\ m \in 1..d /\ K + 1 - i = K + 1 - m BY <1>3, <1>4, <1>6, <2>2
    <3> QED BY <1>0, <1>2, <2>2, <3>1
  <2>3. CASE l = "free" /\ r # "free"
    <3>1. i \in 1..d /\ M[l][i] = q[i] /\ m \in 1..Len(L[r]) /\ M[r][m] = L[r][m]
        BY <1>3, <1>6, <2>3
    <3>2. q[i] >= n /\ L[r][m] < n /\ L[r][m] \in 1..N BY <1>5, <2>1, <3>1
    <3>3. q[i] = L[r][m] BY <3>1
    <3> QED BY <1>0, <3>2, <3>3
  <2>4. CASE l # "free" /\ r = "free"
    <3>1. m \in 1..d /\ M[r][m] = q[m] /\ i \in 1..Len(L[l]) /\ M[l][i] = L[l][i]
        BY <1>3, <1>6, <2>4
    <3> QED BY <1>0, <1>5, <2>1, <3>1
  <2>5. CASE l # "free" /\ r # "free" BY <1>0, <1>6, <2>5 DEF Threads, Distinct
  <2> QED BY <2>2, <2>3, <2>4, <2>5
<1>9. \A v \in 1..K : On(M["free"], v) <=> v >= n
  <2> SUFFICES ASSUME NEW v \in 1..K PROVE (\E i \in 1..d : q[i] = v) <=> v >= n
      BY <1>3, <1>6 DEF On
  <2>1. ASSUME v >= n PROVE \E i \in 1..d : q[i] = v
    <3>1. K + 1 - v \in 1..d /\ K + 1 - (K + 1 - v) = v BY <1>0, <1>2, <2>1
    <3> QED BY <1>4, <3>1
  <2>2. ASSUME NEW i \in 1..d, q[i] = v PROVE v >= n BY <1>0, <1>2, <1>4, <2>2
  <2> QED BY <2>1, <2>2
<1>10. \A l \in Kinds : Runs(y.next, y[l], M[l])
  <2>1. ASSUME NEW l \in Kinds, l # "free" PROVE Runs(y.next, y[l], M[l])
    <3>1. y[l] = z[l] BY <1>1, <2>1 DEF Kinds
    <3>2. \A i \in 1..Len(L[l]) : y.next[L[l][i]] = z.next[L[l][i]]
      <4>1. \A t \in 1..N : t < n => nx[t] = z.next[t] BY <1>0
      <4> HIDE DEF nx
      <4> QED BY <1>1, <1>5, <4>1
    <3> QED BY <1>0, <1>6, <2>1, <3>1, <3>2 DEF Threads, Runs
  <2>2. ASSUME NEW i \in 1..d PROVE y.next[q[i]] = IF i = d THEN 0 ELSE q[i + 1]
    <3>1. q[i] = K + 1 - i /\ q[i] \in 1..K BY <1>0, <1>2, <1>4
    <3>2. CASE i = d
      <4>1. q[i] = n BY <1>0, <1>2, <3>1, <3>2
      <4> QED BY <1>0, <1>1, <3>1, <3>2, <4>1
    <3>3. CASE i # d
      <4>1. q[i] > n /\ q[i + 1] = q[i] - 1 BY <1>0, <1>2, <1>4, <3>1, <3>3
      <4> QED BY <1>1, <3>1, <3>3, <4>1
    <3> QED BY <3>2, <3>3
  <2>3. y.free = q[1] /\ d # 0 BY <1>0, <1>1, <1>2, <1>4
  <2>4. Runs(y.next, y["free"], M["free"]) BY <1>3, <1>6, <2>2, <2>3 DEF Runs
  <2> QED BY <2>1, <2>4
<1>11. \A v \in 1..K : y.next[v] # 0 => \E l \in Kinds : On(M[l], v)
  <2> SUFFICES ASSUME NEW v \in 1..K, y.next[v] # 0 PROVE \E l \in Kinds : On(M[l], v)
      OBVIOUS
  <2>1. CASE v >= n BY <1>0, <1>9, <2>1
  <2>2. CASE v < n
    <3>1. v \in 1..N /\ z.next[v] # 0 BY <1>0, <1>1, <2>2
    <3>2. PICK l \in Kinds : On(L[l], v) BY <1>0, <3>1 DEF Threads
    <3>3. l # "free" BY <1>7, <3>2 DEF On
    <3> QED BY <1>6, <3>2, <3>3
  <2> QED BY <1>0, <2>1, <2>2
<1>12. Threads(y, K, M) BY <1>6, <1>8, <1>10, <1>11 DEF Threads
<1>13. u \subseteq 1..K
  <2>1. u \subseteq 1..N BY DEF Lists
  <2>2. 1..N \subseteq 1..K BY <1>0
  <2> QED BY <2>1, <2>2
<1>14. \A v \in 1..K : v \in u <=> ~On(M["free"], v)
  <2>1. \A v \in 1..N : v \in u BY <1>7 DEF Lists, On
  <2>2. \A v \in u : v \in 1..N BY DEF Lists
  <2>3. \A v \in 1..K : v \in 1..N <=> ~(v >= n) BY <1>0
  <2> QED BY <1>9, <2>1, <2>2, <2>3
<1>15. \A l \in Walked : Back(y.prev, M[l]) /\ Sorted(y.rank, M[l])
  <2> SUFFICES ASSUME NEW l \in Walked PROVE Back(y.prev, M[l]) /\ Sorted(y.rank, M[l])
      OBVIOUS
  <2>1. /\ l \in Kinds /\ l # "free"
        /\ Back(z.prev, L[l]) /\ Sorted(z.rank, L[l])
      BY DEF Lists, Walked, Kinds
  <2>2. \A i \in 1..Len(L[l]) : /\ y.prev[L[l][i]] = z.prev[L[l][i]]
                                /\ y.rank[L[l][i]] = z.rank[L[l][i]]
    <3>1. \A t \in 1..N : t < n => pv[t] = z.prev[t] /\ rk[t] = z.rank[t] BY <1>0
    <3> HIDE DEF pv, rk
    <3> QED BY <1>1, <1>5, <2>1, <3>1
  <2>3. \A i \in 2..Len(L[l]) : i \in 1..Len(L[l]) /\ i - 1 \in 1..Len(L[l]) BY <1>5, <2>1
  <2>4. M[l] = L[l] BY <1>6, <2>1
  <2>5. Back(y.prev, L[l]) BY <2>1, <2>2 DEF Back
  <2>6. Sorted(y.rank, L[l]) BY <2>1, <2>2, <2>3 DEF Sorted
  <2> QED BY <2>4, <2>5, <2>6
<1>16. \A v \in 1..K : Idle(M, v) => y.prev[v] = 0
  <2> SUFFICES ASSUME NEW v \in 1..K, Idle(M, v), v < n PROVE y.prev[v] = 0
      BY <1>0, <1>1
  <2>1. v \in 1..N BY <1>0
  <2>2. Idle(L, v) BY <1>6 DEF Idle, Walked, Kinds
  <2>3. z.prev[v] = 0 BY <2>1, <2>2 DEF Lists
  <2> QED BY <1>1, <2>3
<1>17. Lists(y, u, K, M) BY <1>0, <1>1, <1>12, <1>13, <1>14, <1>15, <1>16 DEF Lists
<1> QED BY <1>1, <1>17 DEF y, K, n

-----------------------------------------------------------------------------
(* Every step keeps the lists sound *)

\* The links are those of three lists
LInv == \E N, L : Lists(Links, used, N, L)

\* It holds at the start, where all lists are empty.
LEMMA LinksStart == ListInit => LInv
<1> SUFFICES ASSUME ListInit PROVE LInv
    OBVIOUS
<1> DEFINE L == [k \in Kinds |-> <<>>]
<1>1. NumHw \in Nat BY ListConstants
<1>2. /\ Links.next = [t \in 1..NumHw |-> 0] /\ Links.prev = [t \in 1..NumHw |-> 0]
      /\ Links.rank = [t \in 1..NumHw |-> 0]
      /\ Links.cpu = 0 /\ Links.rt = 0 /\ Links.free = 0 /\ IsLinks(Links, NumHw)
    BY <1>1 DEF ListInit, Links, IsLinks
<1>3. L \in [Kinds -> Seq(1..NumHw)] /\ \A k \in Kinds : Len(L[k]) = 0 OBVIOUS
<1> HIDE DEF L
<1>4. \A k \in Kinds : Links[k] = 0 BY <1>2 DEF Kinds
<1>5. Threads(Links, NumHw, L) BY <1>2, <1>3, <1>4 DEF Threads, Distinct, Runs
<1>6. "free" \in Kinds /\ Walked \subseteq Kinds /\ used = 1..NumHw
    BY DEF Kinds, Walked, ListInit
<1>7. \A k \in Walked : Back(Links.prev, L[k]) /\ Sorted(Links.rank, L[k])
    BY <1>3, <1>6 DEF Back, Sorted
<1>8. Lists(Links, used, NumHw, L) BY <1>1, <1>2, <1>3, <1>5, <1>6, <1>7 DEF Lists, On
<1> QED BY <1>8 DEF LInv

\* Links that become those of sound lists keep the invariant.
LEMMA BecomeKeeps ==
  ASSUME NEW w, NEW u, NEW N, NEW L, Lists(w, u, N, L), Become(w), used' = u
  PROVE  LInv'
<1>1. IsLinks(w, N) BY DEF Lists
<1>2. Links' = w BY <1>1 DEF Links, Become, IsLinks
<1> QED BY <1>2 DEF LInv

\* tilem_z80_set_timer with a count enters an idle timer.
LEMMA EnterKeeps ==
  ASSUME NEW z, NEW u, NEW N, NEW L, Lists(z, u, N, L), NEW k \in Walked, NEW t \in u,
         Idle(L, t), NEW r \in Rank
  PROVE  \E M : Lists(enter(z, k, t, r), u, N, M)
<1> DEFINE w == [z EXCEPT !.rank[t] = r]
<1>1. r \in Nat BY ListConstants
<1>2. Lists(w, u, N, L) BY <1>1, RerankKeeps
<1> HIDE DEF w
<1>3. \E M : Lists(timer_insert(w, k, t), u, N, M) BY <1>2, InsertKeeps
<1> QED BY <1>3 DEF enter, w

\* The invariant is inductive.
LEMMA LinksStep == LInv /\ [ListNext]_listVars => LInv'
<1> SUFFICES ASSUME LInv, [ListNext]_listVars PROVE LInv'
    OBVIOUS
<1> DEFINE z == Links
<1>1. PICK N, L : Lists(z, used, N, L) BY DEF LInv
<1>2. ASSUME NEW k \in {"cpu", "rt"}, NEW r \in Rank, add_timer(k, r) PROVE LInv'
  <2>1. \E K, M : Lists(WithFree(z), used, K, M) /\ WithFree(z).free # 0
    <3>1. CASE z.free = 0
      <4>1. PICK M : Lists(grow(z), used, 2 * (N + 1), M) /\ grow(z).free = 2 * (N + 1)
          BY <1>1, <3>1, GrowKeeps
      <4>2. N \in Nat /\ 2 * (N + 1) # 0 BY <1>1 DEF Lists
      <4>3. WithFree(z) = grow(z) BY <3>1 DEF WithFree
      <4> QED BY <4>1, <4>2, <4>3
    <3>2. CASE z.free # 0
      <4>1. WithFree(z) = z BY <3>2 DEF WithFree
      <4> QED BY <1>1, <3>2, <4>1
    <3> QED BY <3>1, <3>2
  <2> DEFINE y == WithFree(z)
             t == NewTimer
             a == timer_alloc(z)
             v == used \cup {t}
  <2>2. PICK K, M : Lists(y, used, K, M) /\ y.free # 0 BY <2>1
  <2>3. t = y.free /\ a = [y EXCEPT !.free = y.next[@], !.next[y.free] = 0]
      BY DEF NewTimer, timer_alloc
  <2> HIDE DEF y, t, a, z
  <2>4. PICK M1 : Lists(a, v, K, M1) /\ Idle(M1, t) BY <2>2, <2>3, AllocKeeps
  <2>5. PICK M2 : Lists(enter(a, k, t, r), v, K, M2) BY <2>4, EnterKeeps DEF Walked
  <2>6. Become(enter(a, k, t, r)) /\ used' = v BY <1>2 DEF add_timer, a, t, z
  <2> QED BY <2>5, <2>6, BecomeKeeps
<1>3. ASSUME NEW k \in {"cpu", "rt"}, NEW r \in Rank, NEW t \in used, set_timer(t, k, r)
      PROVE  LInv'
  <2>1. PICK M : Lists(timer_unset(z, t), used, N, M) /\ Idle(M, t) BY <1>1, UnsetKeeps
  <2> DEFINE a == timer_unset(z, t)
  <2>2. Become(enter(a, k, t, r)) /\ used' = used BY <1>3 DEF set_timer
  <2> HIDE DEF a
  <2>3. Lists(a, used, N, M) /\ Idle(M, t) BY <2>1 DEF a
  <2>4. PICK M2 : Lists(enter(a, k, t, r), used, N, M2) BY <2>3, EnterKeeps DEF Walked
  <2> QED BY <2>2, <2>4, BecomeKeeps
<1>4. ASSUME NEW t \in used, disable(t) PROVE LInv'
  <2>1. PICK M : Lists(timer_unset(z, t), used, N, M) BY <1>1, UnsetKeeps
  <2>2. Become(timer_unset(z, t)) /\ used' = used BY <1>4 DEF disable
  <2> QED BY <2>1, <2>2, BecomeKeeps
<1>5. ASSUME NEW t \in used, remove_timer(t) PROVE LInv'
  <2>1. PICK M : Lists(timer_unset(z, t), used, N, M) /\ Idle(M, t) BY <1>1, UnsetKeeps
  <2> DEFINE a == timer_unset(z, t)
             v == used \ {t}
  <2>2. Become(free(a, t)) /\ used' = v BY <1>5 DEF remove_timer
  <2> HIDE DEF a
  <2>3. Lists(a, used, N, M) /\ Idle(M, t) BY <2>1 DEF a
  <2>4. PICK M2 : Lists(free(a, t), v, N, M2) BY <2>3, FreeKeeps
  <2> QED BY <2>2, <2>4, BecomeKeeps
<1>6. ASSUME UNCHANGED listVars PROVE LInv'
  <2>1. Links' = Links /\ used' = used BY <1>6 DEF listVars, links, Links
  <2> QED BY <2>1 DEF LInv
<1> QED BY <1>2, <1>3, <1>4, <1>5, <1>6 DEF ListNext

\* The links are those of three lists in every state.
LEMMA LinksAlways == ListSpec => []LInv
<1> QED BY LinksStart, LinksStep, PTL DEF ListSpec

-----------------------------------------------------------------------------
(* What the walks of the lists find *)

\* No element is twice in s
OneTime(s) == \A i, m \in 1..Len(s) : s[i] = s[m] => i = m
\* s and r have no element in common
Apart(s, r) == \A i \in 1..Len(s), m \in 1..Len(r) : s[i] # r[m]

\* Two sequences without repetition and apart make one, apart from what both are.
LEMMA Joined ==
  ASSUME NEW S, NEW a \in Seq(S), NEW b \in Seq(S), OneTime(a), OneTime(b), Apart(a, b)
  PROVE  /\ a \o b \in Seq(S) /\ OneTime(a \o b)
         /\ \A c : Apart(a, c) /\ Apart(b, c) => Apart(a \o b, c)
<1> DEFINE x == Len(a)
           y == Len(b)
           s == a \o b
<1>1. /\ x \in Nat /\ y \in Nat /\ s \in Seq(S) /\ Len(s) = x + y
      /\ \A i \in 1..(x + y) : s[i] = IF i <= x THEN a[i] ELSE b[i - x]
    OBVIOUS
<1>2. /\ \A i, m \in 1..x : a[i] = a[m] => i = m
      /\ \A i, m \in 1..y : b[i] = b[m] => i = m
      /\ \A i \in 1..x, m \in 1..y : a[i] # b[m]
    BY DEF OneTime, Apart
<1>3. \A c : Apart(a, c) /\ Apart(b, c) =>
        /\ \A i \in 1..x, m \in 1..Len(c) : a[i] # c[m]
        /\ \A i \in 1..y, m \in 1..Len(c) : b[i] # c[m]
    BY DEF Apart
<1> HIDE DEF x, y, s
<1>4. \A i \in 1..(x + y) : \/ i \in 1..x /\ s[i] = a[i]
                            \/ ~(i \in 1..x) /\ i - x \in 1..y /\ s[i] = b[i - x]
    BY <1>1
<1>5. ASSUME NEW i \in 1..(x + y), NEW m \in 1..(x + y), s[i] = s[m] PROVE i = m
  <2>1. CASE i \in 1..x /\ s[i] = a[i] BY <1>1, <1>2, <1>4, <1>5, <2>1
  <2>2. CASE ~(i \in 1..x) /\ i - x \in 1..y /\ s[i] = b[i - x]
    <3>1. ~(m \in 1..x /\ s[m] = a[m]) BY <1>2, <1>5, <2>2
    <3>2. m - x \in 1..y /\ s[m] = b[m - x] BY <1>4, <3>1
    <3>3. i - x = m - x BY <1>2, <1>5, <2>2, <3>2
    <3> QED BY <1>1, <3>3
  <2> QED BY <1>4, <2>1, <2>2
<1>6. ASSUME NEW c, Apart(a, c), Apart(b, c), NEW i \in 1..(x + y), NEW m \in 1..Len(c)
      PROVE  s[i] # c[m]
    BY <1>3, <1>4, <1>6
<1>7. ASSUME NEW c, Apart(a, c), Apart(b, c) PROVE Apart(s, c)
  <2>1. \A i \in 1..(x + y), m \in 1..Len(c) : s[i] # c[m] BY <1>6, <1>7
  <2> QED BY <1>1, <2>1 DEF Apart
<1>8. OneTime(s) BY <1>1, <1>5 DEF OneTime
<1> QED BY <1>1, <1>7, <1>8 DEF s

\* The three lists one after the other have no timer twice.
LEMMA JoinedInjective ==
  ASSUME NEW N, NEW L \in [Kinds -> Seq(1..N)], Distinct(L)
  PROVE  IsInjective(L["cpu"] \o L["rt"] \o L["free"])
<1> DEFINE a == L["cpu"]
           b == L["rt"]
           c == L["free"]
           s == a \o b
<1>1. /\ a \in Seq(1..N) /\ b \in Seq(1..N) /\ c \in Seq(1..N)
      /\ OneTime(a) /\ OneTime(b) /\ OneTime(c)
      /\ Apart(a, b) /\ Apart(a, c) /\ Apart(b, c)
  <2>1. "cpu" \in Kinds /\ "rt" \in Kinds /\ "free" \in Kinds BY DEF Kinds
  <2> QED BY <2>1 DEF Distinct, OneTime, Apart
<1> HIDE DEF a, b, c
<1>2. s \in Seq(1..N) /\ OneTime(s) /\ Apart(s, c) BY <1>1, Joined
<1> HIDE DEF s
<1>3. s \o c \in Seq(1..N) /\ OneTime(s \o c) BY <1>1, <1>2, Joined
<1>4. IsInjective(s \o c)
  <2> DEFINE r == s \o c
  <2>1. r \in Seq(1..N) /\ OneTime(r) BY <1>3
  <2> HIDE DEF r
  <2>2. DOMAIN r = 1..Len(r) BY <2>1
  <2> QED BY <2>1, <2>2 DEF OneTime, IsInjective, r
<1> QED BY <1>4 DEF s, a, b, c

\* What LInv says of the sequences holds of the walks of the lists.
LEMMA ListsFound == LInv => ListsSound
<1> SUFFICES ASSUME LInv PROVE ListsSound
    OBVIOUS
<1>1. PICK N, L : Lists(Links, used, N, L) BY DEF LInv
<1>2. /\ N \in Nat /\ Threads(Links, N, L) /\ IsLinks(Links, N) /\ used \subseteq 1..N
      /\ Links.next = next /\ Links.prev = prev /\ Links.rank = rank
      /\ Links["cpu"] = timer_cpu /\ Links["rt"] = timer_rt /\ Links["free"] = timer_free
    BY <1>1 DEF Lists, Links
<1>3. next \in [1..N -> 0..N] /\ prev \in [1..N -> 0..N] /\ Id = 1..N
    BY <1>2 DEF IsLinks, Id
<1>4. \A k \in Kinds : /\ Len(L[k]) \in Nat /\ L[k] \in Seq(1..N) /\ IsInjective(L[k])
                       /\ DOMAIN L[k] = 1..Len(L[k]) /\ Runs(next, Links[k], L[k])
                       /\ \A i \in 1..Len(L[k]) : L[k][i] \in 1..N
  <2> SUFFICES ASSUME NEW k \in Kinds
               PROVE /\ Len(L[k]) \in Nat /\ L[k] \in Seq(1..N) /\ IsInjective(L[k])
                     /\ DOMAIN L[k] = 1..Len(L[k]) /\ Runs(next, Links[k], L[k])
                     /\ \A i \in 1..Len(L[k]) : L[k][i] \in 1..N
      OBVIOUS
  <2>1. Len(L[k]) \in Nat /\ L[k] \in [1..Len(L[k]) -> 1..N] BY <1>1, ListFacts
  <2>2. L[k] \in Seq(1..N) /\ Runs(next, Links[k], L[k]) BY <1>2 DEF Threads
  <2>3. \A i, m \in 1..Len(L[k]) : L[k][i] = L[k][m] => i = m BY <1>2 DEF Threads, Distinct
  <2> QED BY <2>1, <2>2, <2>3 DEF IsInjective
<1>5. \A k \in Kinds : Chain(Links[k]) = L[k] BY <1>2, <1>3, <1>4, WalkIs DEF Chain
<1>6. /\ Chain(timer_cpu) = L["cpu"] /\ Chain(timer_rt) = L["rt"]
      /\ Chain(timer_free) = L["free"]
    BY <1>2, <1>5 DEF Kinds
<1>7. \A k \in Walked : /\ k \in Kinds
                        /\ Back(prev, L[k]) /\ Sorted(rank, L[k])
    BY <1>1, <1>2 DEF Lists, Walked, Kinds
<1>8. LinksAgree
  <2>1. IsInjective(L["cpu"] \o L["rt"] \o L["free"])
      BY <1>2, JoinedInjective DEF Threads
  <2>2. ToSet(L["free"]) = Id \ used
    <3>1. "free" \in Kinds BY DEF Kinds
    <3>2. ToSet(L["free"]) = {L["free"][i] : i \in 1..Len(L["free"])}
        BY <1>4, <3>1 DEF ToSet
    <3>3. \A t \in 1..N : t \in used <=> ~On(L["free"], t) BY <1>1 DEF Lists
    <3> QED BY <1>3, <1>4, <3>1, <3>2, <3>3, SMTT(20) DEF On
  <2>3. \A s \in {L["cpu"], L["rt"]} : \A i \in DOMAIN s :
          prev[s[i]] = IF i = 1 THEN 0 ELSE s[i - 1]
      BY <1>4, <1>7 DEF Walked, Back
  <2> QED BY <1>6, <2>1, <2>2, <2>3 DEF LinksAgree
<1>9. RunningExact
  <2> SUFFICES ASSUME NEW t \in used
               PROVE  timer_running(t) <=> t \in ToSet(L["cpu"]) \cup ToSet(L["rt"])
      BY <1>6 DEF RunningExact
  <2>1. \A k \in Walked : t \in ToSet(L[k]) <=> On(L[k], t) BY <1>4, <1>7 DEF ToSet, On
  <2>2. t \in ToSet(L["cpu"]) \cup ToSet(L["rt"]) <=> ~Idle(L, t)
      BY <2>1 DEF Idle, Walked
  <2>3. t \in 1..N BY <1>2
  <2>4. ASSUME Idle(L, t) PROVE ~timer_running(t)
    <3>1. prev[t] = 0 BY <1>1, <1>2, <2>3, <2>4 DEF Lists
    <3>2. \A k \in Walked : Links[k] # t
        BY <1>4, <1>7, <2>3, <2>4 DEF Idle, Runs, On
    <3> QED BY <1>2, <3>1, <3>2 DEF timer_running, Walked
  <2>5. ASSUME NEW k \in Walked, NEW i \in 1..Len(L[k]), L[k][i] = t PROVE timer_running(t)
    <3>1. CASE i = 1
      <4>1. Links[k] = t BY <1>4, <1>7, <2>5, <3>1 DEF Runs
      <4> QED BY <1>2, <4>1 DEF timer_running, Walked
    <3>2. CASE i # 1
      <4>1. i - 1 \in 1..Len(L[k]) BY <1>4, <1>7, <3>2
      <4>2. prev[t] = L[k][i - 1] /\ L[k][i - 1] \in 1..N BY <1>4, <1>7, <2>5, <3>2, <4>1 DEF Back
      <4> QED BY <4>2 DEF timer_running
    <3> QED BY <3>1, <3>2
  <2> QED BY <2>2, <2>4, <2>5 DEF Idle, On
<1>10. ListSorted
  <2>1. \A k \in Walked : \A i \in 2..Len(L[k]) : rank[L[k][i - 1]] <= rank[L[k][i]]
      BY <1>7 DEF Sorted
  <2>2. \A i \in 2..Len(L["cpu"]) : rank[L["cpu"][i - 1]] <= rank[L["cpu"][i]]
      BY <2>1 DEF Walked
  <2>3. \A i \in 2..Len(L["rt"]) : rank[L["rt"][i - 1]] <= rank[L["rt"][i]]
      BY <2>1 DEF Walked
  <2> QED BY <1>6, <2>2, <2>3 DEF ListSorted
<1> QED BY <1>8, <1>9, <1>10 DEF ListsSound

\* The three lists of timers share none, none runs in a circle, the links back
\* agree, a timer is free exactly while it is not used, tilem_z80_timer_running is
\* exact, and the two lists that are walked stay sorted (z80.c:57-169, 360-419).
THEOREM ListsStaySound == ListSpec => []ListsSound
<1> QED BY LinksAlways, ListsFound, PTL
=============================================================================
