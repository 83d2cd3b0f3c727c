---------------------------- MODULE TimersProofs ----------------------------
(***************************************************************************)
(* Theorems about Timers, for any timers, counts, speeds and clock width.   *)
(***************************************************************************)
EXTENDS Timers, SequenceTheorems, NaturalsInduction, WellFoundedInduction, TLAPS

-----------------------------------------------------------------------------
(* Lists without repetition *)

\* Putting t behind the first n elements of a list
LEMMA InsertBehind ==
  ASSUME NEW s \in Seq(Timer), IsInjective(s), NEW t \in Timer, t \notin ToSet(s),
         NEW n \in 0..Len(s)
  PROVE  LET w == SubSeq(s, 1, n) \o <<t>> \o SubSeq(s, n + 1, Len(s)) IN
         /\ w \in Seq(Timer) /\ Len(w) = Len(s) + 1
         /\ \A i \in 1..(Len(s) + 1) :
              w[i] = IF i <= n THEN s[i] ELSE IF i = n + 1 THEN t ELSE s[i - 1]
<1> DEFINE w == SubSeq(s, 1, n) \o <<t>> \o SubSeq(s, n + 1, Len(s))
           a == SubSeq(s, 1, n)
           b == a \o <<t>>
           c == SubSeq(s, n + 1, Len(s))
<1>1. n \in Nat /\ Len(s) \in Nat /\ n <= Len(s)
  OBVIOUS
<1>2. a \in Seq(Timer) /\ Len(a) = n /\ \A i \in 1..n : a[i] = s[i]
  BY <1>1, SubSeqProperties
<1>3. c \in Seq(Timer) /\ Len(c) = Len(s) - n /\ \A i \in 1..(Len(s) - n) : c[i] = s[n + i]
  BY <1>1, SubSeqProperties
<1> HIDE DEF a, c
<1>4. /\ b \in Seq(Timer) /\ Len(b) = n + 1
      /\ \A i \in 1..(n + 1) : b[i] = IF i <= n THEN a[i] ELSE t
  BY <1>1, <1>2
<1>5. w = b \o c
  BY DEF a, c
<1> HIDE DEF w, b
<1>6. /\ w \in Seq(Timer) /\ Len(w) = Len(b) + Len(c)
      /\ \A i \in 1..(Len(b) + Len(c)) :
           w[i] = IF i <= Len(b) THEN b[i] ELSE c[i - Len(b)]
  BY <1>3, <1>4, <1>5, ConcatProperties
<1>7. Len(w) = Len(s) + 1
      /\ \A i \in 1..(Len(s) + 1) : w[i] = IF i <= n + 1 THEN b[i] ELSE c[i - (n + 1)]
  BY <1>1, <1>3, <1>4, <1>6
<1>8. ASSUME NEW i \in 1..(Len(s) + 1)
      PROVE  w[i] = IF i <= n THEN s[i] ELSE IF i = n + 1 THEN t ELSE s[i - 1]
  <2>1. CASE i <= n
    <3>1. i \in 1..n /\ i \in 1..(n + 1)
      BY <1>1, <2>1
    <3>2. w[i] = b[i] /\ b[i] = a[i] /\ a[i] = s[i]
      BY <1>1, <1>2, <1>4, <1>7, <2>1, <3>1
    <3>3. QED
      BY <2>1, <3>2
  <2>2. CASE i = n + 1
    BY <1>1, <1>4, <1>7, <2>2
  <2>3. CASE i > n + 1
    <3>1. i - (n + 1) \in 1..(Len(s) - n) /\ n + (i - (n + 1)) = i - 1
      BY <1>1, <2>3
    <3>2. c[i - (n + 1)] = s[i - 1]
      BY <1>3, <3>1
    <3>3. w[i] = c[i - (n + 1)]
      BY <1>1, <1>7, <2>3
    <3>4. QED
      BY <1>1, <2>3, <3>2, <3>3
  <2>4. QED
    BY <1>1, <2>1, <2>2, <2>3
<1>9. QED
  BY <1>6, <1>7, <1>8 DEF w

LEMMA InsertSet ==
  ASSUME NEW s \in Seq(Timer), IsInjective(s), NEW t \in Timer, t \notin ToSet(s),
         NEW n \in 0..Len(s),
         NEW w, w \in Seq(Timer), Len(w) = Len(s) + 1,
         \A i \in 1..(Len(s) + 1) :
              w[i] = IF i <= n THEN s[i] ELSE IF i = n + 1 THEN t ELSE s[i - 1]
  PROVE  IsInjective(w) /\ ToSet(w) = ToSet(s) \cup {t}
<1>1. DOMAIN s = 1..Len(s) /\ DOMAIN w = 1..(Len(s) + 1) /\ Len(s) \in Nat /\ n \in Nat
  OBVIOUS
<1>2. \A i \in 1..Len(s) : s[i] # t
  BY <1>1 DEF ToSet
<1>3. \A i, j \in 1..Len(s) : s[i] = s[j] => i = j
  BY <1>1 DEF IsInjective
<1>4. IsInjective(w)
  <2> SUFFICES ASSUME NEW i \in 1..(Len(s) + 1), NEW j \in 1..(Len(s) + 1), w[i] = w[j]
               PROVE  i = j
    BY <1>1 DEF IsInjective
  <2>1. CASE i = n + 1 \/ j = n + 1
    BY <1>1, <1>2, <2>1
  <2>2. CASE i # n + 1 /\ j # n + 1
    <3> DEFINE p == IF i <= n THEN i ELSE i - 1
               q == IF j <= n THEN j ELSE j - 1
    <3>1. p \in 1..Len(s) /\ q \in 1..Len(s) /\ w[i] = s[p] /\ w[j] = s[q]
      BY <1>1, <2>2
    <3>2. p = q
      BY <1>3, <3>1
    <3>3. QED
      BY <1>1, <2>2, <3>2
  <2>3. QED
    BY <2>1, <2>2
<1>5. ToSet(w) \subseteq ToSet(s) \cup {t}
  <2> SUFFICES ASSUME NEW i \in 1..(Len(s) + 1)
               PROVE  w[i] = t \/ \E j \in 1..Len(s) : w[i] = s[j]
    BY <1>1 DEF ToSet
  <2>1. CASE i <= n
    <3>1. i \in 1..Len(s) /\ w[i] = s[i]
      BY <1>1, <2>1
    <3>2. QED
      BY <3>1
  <2>2. CASE i > n + 1
    <3>1. i - 1 \in 1..Len(s) /\ w[i] = s[i - 1]
      BY <1>1, <2>2
    <3>2. QED
      BY <3>1
  <2>3. QED
    BY <1>1, <2>1, <2>2
<1>6. ToSet(s) \cup {t} \subseteq ToSet(w)
  <2>1. t \in ToSet(w)
    <3>1. n + 1 \in 1..(Len(s) + 1) /\ w[n + 1] = t
      BY <1>1
    <3>2. QED
      BY <1>1, <3>1 DEF ToSet
  <2>2. ASSUME NEW j \in 1..Len(s) PROVE \E i \in 1..(Len(s) + 1) : w[i] = s[j]
    <3>1. CASE j <= n
      <4>1. j \in 1..(Len(s) + 1) /\ w[j] = s[j]
        BY <1>1, <3>1
      <4>2. QED
        BY <4>1
    <3>2. CASE j > n
      <4>1. j + 1 \in 1..(Len(s) + 1) /\ w[j + 1] = s[j]
        BY <1>1, <3>2
      <4>2. QED
        BY <4>1
    <3>3. QED
      BY <1>1, <3>1, <3>2
  <2>3. ToSet(s) \subseteq ToSet(w)
    <3> SUFFICES ASSUME NEW j \in 1..Len(s)
                 PROVE  \E i \in 1..(Len(s) + 1) : w[i] = s[j]
      BY <1>1 DEF ToSet
    <3>1. QED
      BY <2>2
  <2>4. QED
    BY <2>1, <2>3
<1>7. QED
  BY <1>4, <1>5, <1>6

\* Taking the element at i out of a list
LEMMA RemoveOne ==
  ASSUME NEW s \in Seq(Timer), IsInjective(s), NEW i \in 1..Len(s)
  PROVE  /\ RemoveAt(s, i) \in Seq(Timer) /\ Len(RemoveAt(s, i)) = Len(s) - 1
         /\ \A j \in 1..(Len(s) - 1) :
              RemoveAt(s, i)[j] = IF j < i THEN s[j] ELSE s[j + 1]
         /\ IsInjective(RemoveAt(s, i))
         /\ ToSet(RemoveAt(s, i)) = ToSet(s) \ {s[i]}
<1> DEFINE a == SubSeq(s, 1, i - 1)
           b == SubSeq(s, i + 1, Len(s))
           w == RemoveAt(s, i)
<1>1. i \in Nat /\ i >= 1 /\ i <= Len(s) /\ Len(s) \in Nat /\ DOMAIN s = 1..Len(s)
  OBVIOUS
<1>2. a \in Seq(Timer) /\ Len(a) = i - 1 /\ \A j \in 1..(i - 1) : a[j] = s[j]
  BY <1>1, SubSeqProperties
<1>3. b \in Seq(Timer) /\ Len(b) = Len(s) - i /\ \A j \in 1..(Len(s) - i) : b[j] = s[i + j]
  BY <1>1, SubSeqProperties
<1>4. w = a \o b
  BY DEF RemoveAt
<1> HIDE DEF a, b, w
<1>5. /\ a \o b \in Seq(Timer) /\ Len(a \o b) = Len(a) + Len(b)
      /\ \A j \in 1..(Len(a) + Len(b)) :
           (a \o b)[j] = IF j <= Len(a) THEN a[j] ELSE b[j - Len(a)]
  BY <1>2, <1>3, ConcatProperties
<1>6. Len(a) + Len(b) = Len(s) - 1
  BY <1>1, <1>2, <1>3
<1>7. ASSUME NEW j \in 1..(Len(s) - 1)
      PROVE  w[j] = IF j < i THEN s[j] ELSE s[j + 1]
  <2>1. CASE j < i
    BY <1>1, <1>2, <1>4, <1>5, <1>6, <2>1
  <2>2. CASE j >= i
    <3>1. j - Len(a) \in 1..(Len(s) - i) /\ i + (j - Len(a)) = j + 1
      BY <1>1, <1>2, <2>2
    <3>2. b[j - Len(a)] = s[j + 1]
      BY <1>3, <3>1
    <3>3. w[j] = b[j - Len(a)]
      BY <1>1, <1>2, <1>4, <1>5, <1>6, <2>2
    <3>4. QED
      BY <1>1, <2>2, <3>2, <3>3
  <2>3. QED
    BY <1>1, <2>1, <2>2
<1>8. w \in Seq(Timer) /\ Len(w) = Len(s) - 1 /\ DOMAIN w = 1..(Len(s) - 1)
  BY <1>4, <1>5, <1>6
<1>9. IsInjective(w)
  <2> SUFFICES ASSUME NEW j \in 1..(Len(s) - 1), NEW k \in 1..(Len(s) - 1), w[j] = w[k]
               PROVE  j = k
    BY <1>8 DEF IsInjective
  <2> DEFINE p == IF j < i THEN j ELSE j + 1
             q == IF k < i THEN k ELSE k + 1
  <2>1. p \in 1..Len(s) /\ q \in 1..Len(s) /\ w[j] = s[p] /\ w[k] = s[q]
    BY <1>1, <1>7
  <2>2. p = q
    BY <1>1, <2>1 DEF IsInjective
  <2>3. QED
    BY <1>1, <2>2
<1>10. ASSUME NEW j \in 1..(Len(s) - 1) PROVE \E k \in 1..Len(s) : w[j] = s[k] /\ k # i
  <2> DEFINE p == IF j < i THEN j ELSE j + 1
  <2>1. p \in 1..Len(s) /\ w[j] = s[p] /\ p # i
    BY <1>1, <1>7
  <2>2. QED
    BY <2>1
<1>11. ASSUME NEW k \in 1..Len(s), k # i PROVE \E j \in 1..(Len(s) - 1) : w[j] = s[k]
  <2> DEFINE p == IF k < i THEN k ELSE k - 1
  <2>1. p \in 1..(Len(s) - 1) /\ w[p] = s[k]
    <3>1. CASE k < i
      BY <1>1, <1>7, <3>1
    <3>2. CASE k > i
      <4>1. k - 1 \in 1..(Len(s) - 1) /\ ~(k - 1 < i) /\ (k - 1) + 1 = k
        BY <1>1, <3>2
      <4>2. QED
        BY <1>1, <1>7, <3>2, <4>1
    <3>3. QED
      BY <1>1, <1>11, <3>1, <3>2
  <2>2. QED
    BY <2>1
<1>12. ToSet(w) = ToSet(s) \ {s[i]}
  <2>1. \A k \in 1..Len(s) : s[k] = s[i] <=> k = i
    BY <1>1 DEF IsInjective
  <2>2. ToSet(w) \subseteq ToSet(s) \ {s[i]}
    BY <1>1, <1>8, <1>10, <2>1 DEF ToSet
  <2>3. ToSet(s) \ {s[i]} \subseteq ToSet(w)
    BY <1>1, <1>8, <1>11, <2>1 DEF ToSet
  <2>4. QED
    BY <2>2, <2>3
<1>13. QED
  BY <1>7, <1>8, <1>9, <1>12 DEF w
-----------------------------------------------------------------------------
(* The functions of the timer lists *)

NoRepeat == \A k \in Kind : IsInjective(list[k])
Apart == ToSet(list["cpu"]) \cap ToSet(list["rt"]) = {}

LEMMA LeastNat ==
  ASSUME NEW T, T \subseteq Nat, T # {}
  PROVE  \E n \in T : \A m \in T : n <= m
<1> DEFINE R == OpToRel(<, Nat)
<1>1. IsWellFoundedOn(R, Nat)
  BY NatLessThanWellFounded
<1>2. \A a, b \in Nat : a < b => <<a, b>> \in R
  BY Zenon DEF OpToRel
<1> HIDE DEF R
<1>3. PICK n \in T : \A m \in T : ~(<<m, n>> \in R)
  BY <1>1, WFMin
<1>4. ASSUME NEW m \in T PROVE n <= m
  <2>1. m \in Nat /\ n \in Nat
    BY <1>3
  <2>2. ~(m < n)
    BY <1>2, <1>3, <2>1
  <2>3. QED
    BY <2>1, <2>2
<1>5. QED
  BY <1>3, <1>4

\* Where timer_insert stops: behind the first n elements
Stops(l, s, t, n) ==
  IF n = 0 THEN s = <<>> \/ timer_earlier(l, t, s[1])
  ELSE /\ ~timer_earlier(l, t, s[1])
       /\ \A i \in 2..n : timer_earlier(l, s[i], t)
       /\ n = Len(s) \/ ~timer_earlier(l, s[n + 1], t)

\* w is s with t behind the first n elements
Behind(s, t, n, w) ==
  /\ w \in Seq(Timer) /\ Len(w) = Len(s) + 1
  /\ \A i \in 1..(Len(s) + 1) :
       w[i] = IF i <= n THEN s[i] ELSE IF i = n + 1 THEN t ELSE s[i - 1]

\* timer_insert finds such a place and puts t there.
LEMMA InsertStops ==
  ASSUME NEW l \in [Timer -> Int], NEW s \in Seq(Timer), IsInjective(s),
         NEW t \in Timer, t \notin ToSet(s)
  PROVE  \E n \in 0..Len(s) : Stops(l, s, t, n) /\ Behind(s, t, n, timer_insert(l, s, t))
<1> DEFINE at(n) == /\ \A i \in 2..n : timer_earlier(l, s[i], t)
                    /\ n = Len(s) \/ ~timer_earlier(l, s[n + 1], t)
           front == s = <<>> \/ timer_earlier(l, t, s[1])
           n0 == IF front THEN 0 ELSE CHOOSE n \in 1..Len(s) : at(n)
           w  == SubSeq(s, 1, n0) \o <<t>> \o SubSeq(s, n0 + 1, Len(s))
<1>1. Len(s) \in Nat
  OBVIOUS
<1>2. ASSUME ~front PROVE \E n \in 1..Len(s) : at(n)
  <2> DEFINE Stop == {n \in Nat : n \in 1..Len(s) /\ (n = Len(s) \/ ~timer_earlier(l, s[n + 1], t))}
  <2>1. Len(s) \in 1..Len(s)
    BY <1>1, <1>2
  <2>2. Stop # {} /\ Stop \subseteq Nat
    BY <1>1, <2>1
  <2> HIDE DEF Stop
  <2>3. PICK n \in Stop : \A m \in Stop : n <= m
    BY <2>2, LeastNat
  <2>4. n \in 1..Len(s) /\ (n = Len(s) \/ ~timer_earlier(l, s[n + 1], t))
    BY DEF Stop
  <2>5. ASSUME NEW i \in 2..n PROVE timer_earlier(l, s[i], t)
    <3>1. i - 1 \in Nat /\ i - 1 \in 1..Len(s) /\ i - 1 < n /\ n \in Nat /\ (i - 1) + 1 = i
      BY <1>1, <2>4
    <3>2. i - 1 \notin Stop
      BY <2>3, <3>1
    <3>3. QED
      BY <3>1, <3>2 DEF Stop
  <2>6. at(n)
    BY <2>4, <2>5
  <2>7. QED
    BY <2>4, <2>6
<1>3. n0 \in 0..Len(s) /\ Stops(l, s, t, n0)
  <2>1. CASE front
    BY <1>1, <2>1 DEF Stops
  <2>2. CASE ~front
    <3> DEFINE m == CHOOSE n \in 1..Len(s) : at(n)
    <3>1. m \in 1..Len(s) /\ at(m)
      <4> HIDE DEF at
      <4>1. QED
        BY <1>2, <2>2
    <3>2. n0 = m
      BY <2>2
    <3> HIDE DEF m, n0
    <3>3. QED
      BY <1>1, <2>2, <3>1, <3>2 DEF Stops
  <2>3. QED
    BY <2>1, <2>2
<1>4. timer_insert(l, s, t) = w
  <2>1. CASE ~front
    <3>1. n0 = CHOOSE n \in 1..Len(s) : at(n)
      BY <2>1
    <3>2. QED
      BY <2>1, <3>1, Zenon DEF timer_insert
  <2>2. CASE front
    <3>1. n0 = 0
      BY <2>2
    <3>2. SubSeq(s, 1, 0) = <<>> /\ SubSeq(s, 0 + 1, Len(s)) = s
      BY <1>1
    <3>3. w = <<>> \o <<t>> \o s
      BY <3>1, <3>2, Zenon
    <3>4. <<>> \o <<t>> = <<t>>
      OBVIOUS
    <3>5. QED
      BY <2>2, <3>3, <3>4 DEF timer_insert
  <2>3. QED
    BY <2>1, <2>2
<1> HIDE DEF n0
<1>5. /\ w \in Seq(Timer) /\ Len(w) = Len(s) + 1
      /\ \A i \in 1..(Len(s) + 1) :
           w[i] = IF i <= n0 THEN s[i] ELSE IF i = n0 + 1 THEN t ELSE s[i - 1]
  BY <1>3, InsertBehind
<1> HIDE DEF w, at, front
<1>6. Behind(s, t, n0, timer_insert(l, s, t))
  BY <1>4, <1>5 DEF Behind
<1>7. QED
  BY <1>3, <1>6

\* timer_insert puts t in, and nothing else, wherever it goes.
LEMMA InsertKeepsSet ==
  ASSUME NEW l \in [Timer -> Int], NEW s \in Seq(Timer), IsInjective(s),
         NEW t \in Timer, t \notin ToSet(s)
  PROVE  /\ timer_insert(l, s, t) \in Seq(Timer)
         /\ IsInjective(timer_insert(l, s, t))
         /\ ToSet(timer_insert(l, s, t)) = ToSet(s) \cup {t}
<1> DEFINE w == timer_insert(l, s, t)
<1>1. PICK n \in 0..Len(s) : Behind(s, t, n, w)
  BY InsertStops
<1> HIDE DEF w
<1>2. w \in Seq(Timer) /\ IsInjective(w) /\ ToSet(w) = ToSet(s) \cup {t}
  BY <1>1, InsertSet DEF Behind
<1>3. QED
  BY <1>2 DEF w

\* timer_unset takes t out of both lists, and nothing else.
LEMMA UnsetLists ==
  ASSUME list \in [Kind -> Seq(Timer)], NoRepeat, NEW t \in Timer
  PROVE  /\ Unset(t) \in [Kind -> Seq(Timer)]
         /\ \A k \in Kind : /\ IsInjective(Unset(t)[k])
                            /\ ToSet(Unset(t)[k]) = ToSet(list[k]) \ {t}
<1> SUFFICES ASSUME NEW k \in Kind
             PROVE  /\ Unset(t)[k] \in Seq(Timer) /\ IsInjective(Unset(t)[k])
                    /\ ToSet(Unset(t)[k]) = ToSet(list[k]) \ {t}
  BY DEF Unset
<1>1. list[k] \in Seq(Timer) /\ IsInjective(list[k])
  BY DEF NoRepeat
<1>2. CASE t \notin ToSet(list[k])
  BY <1>1, <1>2 DEF Unset
<1>3. CASE t \in ToSet(list[k])
  <2> DEFINE i == CHOOSE i \in DOMAIN list[k] : list[k][i] = t
  <2>1. i \in DOMAIN list[k] /\ list[k][i] = t
    BY <1>3 DEF ToSet
  <2>2. Unset(t)[k] = RemoveAt(list[k], i)
    BY <1>3 DEF Unset
  <2>3. i \in 1..Len(list[k])
    BY <1>1, <2>1
  <2> HIDE DEF i
  <2>4. QED
    BY <1>1, <2>1, <2>2, <2>3, RemoveOne
<1>4. QED
  BY <1>2, <1>3
LEMMA ModW == \A x \in Int : x % W \in 0..(W - 1)
BY TimerConstants

LEMMA ClocksInt ==
  ASSUME clockspeed \in Speed, NEW n \in Nat, NEW k \in Kind
  PROVE  Clocks(n, k) \in Int
<1>1. clockspeed \in Nat /\ Khz \in Nat \ {0}
  BY TimerConstants
<1>2. clockspeed * n \in Nat /\ Khz \div 2 \in Nat
  BY <1>1
<1>3. (clockspeed * n + Khz \div 2) \div Khz \in Int
  BY <1>1, <1>2
<1>4. QED
  BY <1>3 DEF Clocks

LEMMA PeriodNat == \A p \in Period \cup {0} : p \in Nat
BY TimerConstants

ListTypes ==
  /\ list \in [Kind -> Seq(Timer)]
  /\ left \in [Timer -> 0..(W - 1)]
  /\ period \in [Timer -> Period \cup {0}]

\* Setting a timer leaves it in the list it was set in, or in none, and the others
\* where they were.
LEMMA SetKeepsLists ==
  ASSUME ListTypes, NoRepeat, Apart, clockspeed \in Speed,
         NEW t \in Timer, NEW n \in Nat, NEW p \in Period \cup {0}, NEW k \in Kind,
         NEW e \in Int, timer_set(t, n, p, k, e)
  PROVE  /\ ListTypes' /\ NoRepeat' /\ Apart'
         /\ On' = IF n = 0 THEN On \ {t} ELSE On \cup {t}
<1>1. /\ Unset(t) \in [Kind -> Seq(Timer)]
      /\ \A j \in Kind : /\ IsInjective(Unset(t)[j])
                         /\ ToSet(Unset(t)[j]) = ToSet(list[j]) \ {t}
  BY UnsetLists DEF ListTypes
<1>2. "cpu" \in Kind /\ "rt" \in Kind /\ Kind = {"cpu", "rt"}
  BY DEF Kind
<1>3. CASE n = 0
  <2>1. list' = Unset(t) /\ left' = left /\ period' = period
    BY <1>3 DEF timer_set
  <2>2. ListTypes'
    BY <1>1, <2>1 DEF ListTypes
  <2>3. NoRepeat'
    BY <1>1, <2>1 DEF NoRepeat
  <2>4. /\ ToSet(list'["cpu"]) = ToSet(list["cpu"]) \ {t}
        /\ ToSet(list'["rt"]) = ToSet(list["rt"]) \ {t}
    BY <1>1, <1>2, <2>1
  <2>5. Apart' /\ On' = On \ {t}
    BY <2>4 DEF Apart, On
  <2>6. QED
    BY <1>3, <2>2, <2>3, <2>5
<1>4. CASE n # 0
  <2> DEFINE s == timer_insert(left', Unset(t)[k], t)
  <2>1. /\ left' = [left EXCEPT ![t] = (Clocks(n, k) - e) % W]
        /\ period' = [period EXCEPT ![t] = p]
        /\ list' = [Unset(t) EXCEPT ![k] = s]
    BY <1>4 DEF timer_set
  <2>2. Clocks(n, k) - e \in Int
    BY ClocksInt
  <2>3. (Clocks(n, k) - e) % W \in 0..(W - 1)
    BY <2>2, ModW
  <2>4. left' \in [Timer -> 0..(W - 1)]
    BY <2>1, <2>3 DEF ListTypes
  <2>5. period' \in [Timer -> Period \cup {0}]
    BY <2>1 DEF ListTypes
  <2>6. left' \in [Timer -> Int]
    BY <2>4, TimerConstants
  <2>7. s \in Seq(Timer) /\ IsInjective(s) /\ ToSet(s) = ToSet(Unset(t)[k]) \cup {t}
    BY <1>1, <2>6, InsertKeepsSet
  <2> HIDE DEF s
  <2>8. list' \in [Kind -> Seq(Timer)]
    BY <1>1, <2>1, <2>7
  <2>9. \A j \in Kind : list'[j] = IF j = k THEN s ELSE Unset(t)[j]
    BY <1>1, <2>1
  <2>10. NoRepeat'
    BY <1>1, <2>7, <2>9 DEF NoRepeat
  <2>11. \A j \in Kind : ToSet(list'[j]) = IF j = k THEN ToSet(list[j]) \cup {t}
                                           ELSE ToSet(list[j]) \ {t}
    BY <1>1, <2>7, <2>9
  <2>12. Apart' /\ On' = On \cup {t}
    <3>1. CASE k = "cpu"
      BY <1>2, <2>11, <3>1 DEF Apart, On
    <3>2. CASE k = "rt"
      BY <1>2, <2>11, <3>2 DEF Apart, On
    <3>3. QED
      BY <1>2, <3>1, <3>2
  <2>13. QED
    BY <1>4, <2>4, <2>5, <2>8, <2>10, <2>12 DEF ListTypes
<1>5. QED
  BY <1>3, <1>4
-----------------------------------------------------------------------------
(* The inductive invariant.  A step of the run loop or a call preserves it    *)
(* through what it does to the set of timers that are set.                    *)

RunInv ==
  /\ pc = "idle" <=> run = NoTimer
  /\ run # NoTimer => run \in used
  /\ RunTimerSet

TInv == TypeOK /\ OneListEach /\ RunInv

ControlTypes ==
  /\ pc \in Kind \cup {"idle", "next", "done"} \cup InOp
  /\ back \in {"op2", "done", "next"}
  /\ intr \in BOOLEAN /\ incall \in BOOLEAN /\ stopping \in BOOLEAN
  /\ spent \in 0..MaxOp /\ run \in Timer \cup {NoTimer} /\ calls \in Nat

LEMMA TInvParts ==
  TInv <=> /\ ListTypes /\ NoRepeat /\ Apart /\ On \subseteq used
           /\ used \subseteq Timer /\ clockspeed \in Speed
           /\ ControlTypes /\ RunInv
BY DEF TInv, TypeOK, ListTypes, ControlTypes, OneListEach, NoRepeat, Apart

LEMMA AddKeeps ==
  ASSUME TInv, NEW n \in Count, NEW p \in Period \cup {0}, NEW k \in Kind,
         add_timer(n, p, k)
  PROVE  /\ ListTypes' /\ NoRepeat' /\ Apart'
         /\ NewTimer \in Timer \ used
         /\ On' = On \cup {NewTimer} /\ used' = used \cup {NewTimer}
         /\ clockspeed' = clockspeed
<1>1. NewTimer \in Timer \ used
  BY DEF add_timer, Free, NewTimer
<1>2. n \in Nat /\ n # 0
  BY TimerConstants
<1>3. timer_set(NewTimer, n, p, k, 0)
  BY DEF add_timer
<1> HIDE DEF NewTimer
<1>4. /\ ListTypes' /\ NoRepeat' /\ Apart'
      /\ On' = IF n = 0 THEN On \ {NewTimer} ELSE On \cup {NewTimer}
  BY <1>1, <1>2, <1>3, TInvParts, SetKeepsLists
<1>5. QED
  BY <1>1, <1>2, <1>4 DEF add_timer

LEMMA RemoveKeeps ==
  ASSUME TInv, NEW t \in Timer, remove_timer(t)
  PROVE  /\ ListTypes' /\ NoRepeat' /\ Apart'
         /\ On' = On \ {t} /\ used' = used \ {t} /\ clockspeed' = clockspeed
<1>1. ListTypes /\ NoRepeat /\ Apart
  BY TInvParts
<1>2. /\ Unset(t) \in [Kind -> Seq(Timer)]
      /\ \A j \in Kind : /\ IsInjective(Unset(t)[j])
                         /\ ToSet(Unset(t)[j]) = ToSet(list[j]) \ {t}
  BY <1>1, UnsetLists DEF ListTypes
<1>3. /\ list' = Unset(t) /\ used' = used \ {t} /\ clockspeed' = clockspeed
      /\ left' = [left EXCEPT ![t] = 0] /\ period' = [period EXCEPT ![t] = 0]
  BY DEF remove_timer
<1>4. 0 \in 0..(W - 1)
  BY TimerConstants
<1>5. ListTypes' /\ NoRepeat'
  BY <1>1, <1>2, <1>3, <1>4 DEF ListTypes, NoRepeat
<1>6. Apart' /\ On' = On \ {t}
  BY <1>1, <1>2, <1>3 DEF Apart, On, Kind
<1>7. QED
  BY <1>3, <1>5, <1>6

LEMMA AdvanceKeeps ==
  ASSUME TInv, NEW d \in Int, Advance(d)
  PROVE  /\ ListTypes' /\ NoRepeat' /\ Apart' /\ On' = On
         /\ used' = used /\ clockspeed' = clockspeed
<1>1. ListTypes /\ NoRepeat /\ Apart
  BY TInvParts
<1>2. \A t \in Timer : left[t] \in 0..(W - 1) /\ (left[t] - d) % W \in 0..(W - 1)
  <2> SUFFICES ASSUME NEW t \in Timer
               PROVE  left[t] \in 0..(W - 1) /\ (left[t] - d) % W \in 0..(W - 1)
    OBVIOUS
  <2>1. left[t] \in 0..(W - 1)
    BY <1>1 DEF ListTypes
  <2>2. left[t] - d \in Int
    BY <2>1, TimerConstants
  <2>3. QED
    BY <2>1, <2>2, ModW
<1>3. left' \in [Timer -> 0..(W - 1)]
  BY <1>2 DEF Advance
<1>4. QED
  BY <1>1, <1>3 DEF Advance, ListTypes, NoRepeat, Apart, On

LEMMA SpeedKeeps ==
  ASSUME TInv, NEW s \in Speed, set_speed(s)
  PROVE  /\ ListTypes' /\ NoRepeat' /\ Apart' /\ On' = On
         /\ used' = used /\ clockspeed' \in Speed
<1>1. ListTypes /\ NoRepeat /\ Apart /\ clockspeed \in Nat \ {0} /\ s \in Nat
  BY TInvParts, TimerConstants
<1>2. ASSUME NEW t \in Timer
      PROVE  left[t] \in 0..(W - 1) /\ Scaled(left[t], s) % W \in 0..(W - 1)
  <2>1. left[t] \in 0..(W - 1) /\ left[t] \in Nat
    BY <1>1, TimerConstants DEF ListTypes
  <2>2. left[t] * s \in Nat /\ clockspeed \div 2 \in Nat
    BY <1>1, <2>1
  <2>3. Scaled(left[t], s) \in Int
    BY <1>1, <2>2 DEF Scaled
  <2>4. QED
    BY <2>1, <2>3, ModW
<1>3. left' \in [Timer -> 0..(W - 1)]
  BY <1>2 DEF set_speed
<1>4. QED
  BY <1>1, <1>3 DEF set_speed, ListTypes, NoRepeat, Apart, On

LEMMA TInvInit == Init => TInv
<1> SUFFICES ASSUME Init PROVE TInv
  OBVIOUS
<1>1. ListTypes
  BY TimerConstants DEF Init, ListTypes
<1>2. NoRepeat /\ Apart /\ On = {}
  BY DEF Init, NoRepeat, Apart, On, Kind, IsInjective, ToSet
<1>3. used \subseteq Timer /\ clockspeed \in Speed
  BY TimerConstants DEF Init
<1>4. ControlTypes
  <2>1. spent \in 0..MaxOp /\ calls \in Nat
    BY TimerConstants DEF Init
  <2>2. QED
    BY <2>1 DEF Init, ControlTypes, Kind, InOp
<1>5. RunInv
  BY DEF Init, RunInv, RunTimerSet
<1>6. QED
  BY <1>1, <1>2, <1>3, <1>4, <1>5, TInvParts
LEMMA TInvStep == TInv /\ [Next]_vars => TInv'
<1> SUFFICES ASSUME TInv, [Next]_vars PROVE TInv'
  OBVIOUS
<1>a. /\ ListTypes /\ NoRepeat /\ Apart /\ On \subseteq used
      /\ used \subseteq Timer /\ clockspeed \in Speed
      /\ ControlTypes /\ RunInv
  BY TInvParts
<1>b. ASSUME ListTypes', NoRepeat', Apart', On' \subseteq used', used' \subseteq Timer,
             clockspeed' \in Speed, ControlTypes', RunInv'
      PROVE  TInv'
  BY <1>b DEF TInv, TypeOK, ListTypes, ControlTypes, OneListEach, NoRepeat, Apart
\* Steps that leave the timers alone, and the run's timer with them
<1>c. ASSUME UNCHANGED timerVars, ControlTypes', RunInv' PROVE TInv'
  <2>1. ListTypes' /\ NoRepeat' /\ Apart' /\ On' = On
    BY <1>a, <1>c DEF timerVars, ListTypes, NoRepeat, Apart, On
  <2>2. QED
    BY <1>a, <1>b, <1>c, <2>1 DEF timerVars
<1> USE DEF Kind, InOp, controlVars
<1>1. CASE Call
  <2>1. ControlTypes' /\ pc' = pc /\ run' = run /\ stopping' = stopping
    BY <1>a, <1>1 DEF Call, ControlTypes
  <2>2. CASE \E n \in Count, p \in Period, k \in Kind : add_timer(n, p, k)
    <3>1. PICK n \in Count, p \in Period, k \in Kind : add_timer(n, p, k)
      BY <2>2
    <3>2. /\ ListTypes' /\ NoRepeat' /\ Apart' /\ NewTimer \in Timer
          /\ On' = On \cup {NewTimer} /\ used' = used \cup {NewTimer}
          /\ clockspeed' = clockspeed
      BY <3>1, AddKeeps
    <3>3. RunInv'
      BY <1>a, <2>1, <3>2 DEF RunInv, RunTimerSet
    <3>4. QED
      BY <1>a, <1>b, <2>1, <3>2, <3>3
  <2>3. CASE \E t \in used \ {run}, p \in Period, n \in Count \cup {0}, k \in Kind :
               set_timer(t, n, p, k)
    <3>1. PICK t \in used \ {run}, p \in Period, n \in Count \cup {0}, k \in Kind :
            set_timer(t, n, p, k)
      BY <2>3
    <3>2. t \in Timer /\ n \in Nat /\ p \in Period \cup {0}
      BY <1>a, TimerConstants
    <3>3. timer_set(t, n, p, k, 0) /\ used' = used /\ clockspeed' = clockspeed
      BY <3>1 DEF set_timer
    <3>4. /\ ListTypes' /\ NoRepeat' /\ Apart'
          /\ On' = IF n = 0 THEN On \ {t} ELSE On \cup {t}
      BY <1>a, <3>2, <3>3, SetKeepsLists
    <3>5. RunInv'
      BY <1>a, <2>1, <3>3, <3>4 DEF RunInv, RunTimerSet
    <3>6. QED
      BY <1>a, <1>b, <2>1, <3>3, <3>4, <3>5
  <2>4. CASE \E t \in used \ {run}, p \in Period : set_timer_period(t, p)
    <3>1. PICK t \in used \ {run}, p \in Period : set_timer_period(t, p)
      BY <2>4
    <3>2. /\ ListTypes' /\ NoRepeat' /\ Apart' /\ On' = On
          /\ used' = used /\ clockspeed' = clockspeed
      BY <1>a, <3>1 DEF set_timer_period, ListTypes, NoRepeat, Apart, On
    <3>3. RunInv'
      BY <1>a, <2>1, <3>2 DEF RunInv, RunTimerSet
    <3>4. QED
      BY <1>a, <1>b, <2>1, <3>2, <3>3
  <2>5. CASE \E t \in used \ (HwTimer \cup {run}) : remove_timer(t)
    <3>1. PICK t \in used \ (HwTimer \cup {run}) : remove_timer(t)
      BY <2>5
    <3>2. /\ ListTypes' /\ NoRepeat' /\ Apart' /\ On' = On \ {t}
          /\ used' = used \ {t} /\ clockspeed' = clockspeed
      BY <1>a, <3>1, RemoveKeeps
    <3>3. RunInv'
      BY <1>a, <2>1, <3>2 DEF RunInv, RunTimerSet
    <3>4. QED
      BY <1>a, <1>b, <2>1, <3>2, <3>3
  <2>6. CASE \E s \in Speed \ {clockspeed} : set_speed(s)
    <3>1. PICK s \in Speed : set_speed(s)
      BY <2>6
    <3>2. /\ ListTypes' /\ NoRepeat' /\ Apart' /\ On' = On
          /\ used' = used /\ clockspeed' \in Speed
      BY <3>1, SpeedKeeps
    <3>3. RunInv'
      BY <1>a, <2>1, <3>2 DEF RunInv, RunTimerSet
    <3>4. QED
      BY <1>a, <1>b, <2>1, <3>2, <3>3
  <2>7. QED
    BY <1>1, <2>2, <2>3, <2>4, <2>5, <2>6, Zenon DEF Call
<1>2. CASE run_begin
  <2>1. PICK n \in Count, k \in Kind : add_timer(n, 0, k)
    BY <1>2 DEF run_begin
  <2>2. /\ ListTypes' /\ NoRepeat' /\ Apart' /\ NewTimer \in Timer \ used
        /\ On' = On \cup {NewTimer} /\ used' = used \cup {NewTimer}
        /\ clockspeed' = clockspeed
    BY <2>1, AddKeeps
  <2>3. NewTimer # NoTimer
    BY <2>2, TimerConstants
  <2>4. run' = NewTimer /\ pc' = "next" /\ stopping' = FALSE
        /\ UNCHANGED <<back, intr, incall, spent, calls>>
    BY <1>2 DEF run_begin
  <2> HIDE DEF NewTimer
  <2>5. ControlTypes'
    BY <1>a, <2>2, <2>4 DEF ControlTypes
  <2>6. RunInv'
    BY <2>2, <2>3, <2>4 DEF RunInv, RunTimerSet
  <2>7. QED
    BY <1>a, <1>b, <2>2, <2>5, <2>6
<1>3. CASE run_end
  <2>1. run \in Timer
    BY <1>a, <1>3 DEF run_end, RunInv
  <2>2. /\ ListTypes' /\ NoRepeat' /\ Apart' /\ On' = On \ {run}
        /\ used' = used \ {run} /\ clockspeed' = clockspeed
    BY <1>3, <2>1, RemoveKeeps DEF run_end
  <2>3. ControlTypes' /\ RunInv'
    BY <1>a, <1>3 DEF run_end, ControlTypes, RunInv, RunTimerSet
  <2>4. QED
    BY <1>a, <1>b, <2>2, <2>3
<1>4. CASE begin_op \/ stop \/ port_io \/ end_op \/ callback_return
           \/ accept_interrupt \/ loop \/ \E k \in Kind : check_done(k)
  <2>1. UNCHANGED timerVars /\ run' = run
    BY <1>4 DEF begin_op, stop, port_io, end_op, callback_return, accept_interrupt,
                loop, check_done
  <2>2. ControlTypes'
    <3>1. CASE begin_op \/ stop \/ port_io
      BY <1>a, <3>1 DEF begin_op, stop, port_io, begin_check, ControlTypes
    <3>2. CASE end_op
      <4>1. 0 \in 0..MaxOp
        BY TimerConstants
      <4>2. QED
        BY <1>a, <3>2, <4>1 DEF end_op, begin_check, ControlTypes
    <3>3. CASE callback_return \/ accept_interrupt \/ loop
      BY <1>a, <3>3 DEF callback_return, accept_interrupt, loop, ControlTypes
    <3>4. CASE \E k \in Kind : check_done(k)
      BY <1>a, <3>4 DEF check_done, ControlTypes
    <3>5. QED
      BY <1>4, <3>1, <3>2, <3>3, <3>4
  <2>3. (pc = "idle" <=> pc' = "idle") /\ (~stopping' => ~stopping)
    BY <1>a, <1>4 DEF begin_op, stop, port_io, end_op, callback_return, Callable,
                      accept_interrupt, loop, check_done, begin_check, ControlTypes
  <2>4. RunInv'
    BY <1>a, <2>1, <2>3 DEF RunInv, RunTimerSet, timerVars, On
  <2>5. QED
    BY <1>c, <2>1, <2>2, <2>4
<1>5. CASE delay
  <2>1. PICK d \in 1..(MaxOp - spent) : Advance(d) /\ spent' = spent + d
    BY <1>5 DEF delay
  <2>2. spent' \in 0..MaxOp /\ d \in Int
    BY <1>a, <2>1, TimerConstants DEF ControlTypes
  <2>3. /\ ListTypes' /\ NoRepeat' /\ Apart' /\ On' = On
        /\ used' = used /\ clockspeed' = clockspeed
    BY <2>1, <2>2, AdvanceKeeps
  <2>4. ControlTypes' /\ RunInv'
    BY <1>a, <1>5, <2>2, <2>3 DEF delay, ControlTypes, RunInv, RunTimerSet
  <2>5. QED
    BY <1>a, <1>b, <2>3, <2>4
<1>6. CASE halt
  <2> DEFINE first == {left[list[k][1]] : k \in {j \in Kind : list[j] # <<>>}}
             t1 == CHOOSE n \in first : \A m \in first : n <= m
  <2>1. first \subseteq Nat /\ first # {}
    <3>1. ASSUME NEW k \in Kind, list[k] # <<>> PROVE left[list[k][1]] \in Nat
      <4>1. list[k] \in Seq(Timer)
        BY <1>a DEF ListTypes
      <4>2. list[k][1] \in Timer
        BY <3>1, <4>1
      <4>3. QED
        BY <1>a, <4>2, TimerConstants DEF ListTypes
    <3>2. \E k \in Kind : list[k] # <<>>
      BY <1>6 DEF halt, On, ToSet
    <3>3. QED
      BY <3>1, <3>2
  <2>2. t1 \in Nat
    <3> HIDE DEF first
    <3>1. \E n \in first : \A m \in first : n <= m
      BY <2>1, LeastNat
    <3>2. t1 \in first
      BY <3>1
    <3>3. QED
      BY <2>1, <3>2
  <2>3. Advance(t1 - (t1 % HaltStep))
    BY <1>6, Zenon DEF halt
  <2> HIDE DEF t1, first
  <2>4. t1 - (t1 % HaltStep) \in Int
    BY <2>2, TimerConstants
  <2>5. /\ ListTypes' /\ NoRepeat' /\ Apart' /\ On' = On
        /\ used' = used /\ clockspeed' = clockspeed
    BY <2>3, <2>4, AdvanceKeeps
  <2>6. /\ pc = "done" /\ pc' = "cpu" /\ back' = "next"
        /\ UNCHANGED <<intr, incall, spent, run, stopping, calls>>
    BY <1>6 DEF halt, begin_check
  <2>7. ControlTypes' /\ RunInv'
    BY <1>a, <2>5, <2>6 DEF ControlTypes, RunInv, RunTimerSet
  <2>8. QED
    BY <1>a, <1>b, <2>5, <2>7
<1>7. CASE \E k \in Kind : fire(k)
  <2>1. PICK k \in Kind : fire(k)
    BY <1>7
  <2> DEFINE t == list[k][1]
  <2>2. /\ list[k] # <<>> /\ timer_set(t, period[t], period[t], k, Late(t))
        /\ stopping' = (stopping \/ t = run) /\ incall' = (t # run)
        /\ UNCHANGED <<used, clockspeed, pc, back, intr, spent, run, calls>>
    BY <2>1 DEF fire, FirstDue
  <2>3. t \in On
    <3>1. list[k] \in Seq(Timer)
      BY <1>a DEF ListTypes
    <3>2. 1 \in DOMAIN list[k]
      BY <2>2, <3>1
    <3>3. QED
      BY <3>2 DEF On, ToSet
  <2> HIDE DEF t
  <2>4. t \in Timer /\ period[t] \in Nat /\ period[t] \in Period \cup {0}
    <3>1. t \in Timer
      BY <1>a, <2>3
    <3>2. period[t] \in Period \cup {0}
      BY <1>a, <3>1 DEF ListTypes
    <3>3. period[t] \in Nat
      BY <3>2, PeriodNat, Zenon
    <3>4. QED
      BY <3>1, <3>2, <3>3
  <2>5. Late(t) \in Int
    <3>1. -left[t] \in Int
      BY <1>a, <2>4, TimerConstants DEF ListTypes
    <3>2. QED
      BY <3>1, ModW, TimerConstants DEF Late
  <2>6. /\ ListTypes' /\ NoRepeat' /\ Apart'
        /\ On' = IF period[t] = 0 THEN On \ {t} ELSE On \cup {t}
    BY <1>a, <2>2, <2>4, <2>5, SetKeepsLists
  <2>7. ControlTypes'
    BY <1>a, <2>2 DEF ControlTypes
  <2>8. RunInv'
    BY <1>a, <2>2, <2>6 DEF RunInv, RunTimerSet
  <2>9. QED
    BY <1>a, <1>b, <2>2, <2>3, <2>6, <2>7, <2>8
<1>8. CASE UNCHANGED vars
  <2>1. UNCHANGED timerVars /\ UNCHANGED controlVars /\ calls' = calls
    BY <1>8 DEF vars
  <2>2. ControlTypes' /\ RunInv'
    BY <1>a, <2>1 DEF timerVars, ControlTypes, RunInv, RunTimerSet, On
  <2>3. QED
    BY <1>c, <2>1, <2>2
<1>9. QED
  BY <1>1, <1>2, <1>3, <1>4, <1>5, <1>6, <1>7, <1>8 DEF Next, core

LEMMA TInvAlways == Spec => []TInv
BY TInvInit, TInvStep, PTL DEF Spec

\* Every variable of the run loop keeps its type; the difference of a count and
\* the clock stays a number of the clock's width (emu/z80.c:127-152,348-355).
THEOREM TimerTypes == Spec => []TypeOK
<1>1. TInv => TypeOK
  BY DEF TInv
<1>2. QED
  BY <1>1, TInvAlways, PTL

\* A timer is in at most one of the two lists, and once, whatever callbacks and
\* instructions do with the timer functions while check_timers goes through a list
\* (emu/z80.c:652-690).
THEOREM InOneList == Spec => []OneListEach
<1>1. TInv => OneListEach
  BY DEF TInv
<1>2. QED
  BY <1>1, TInvAlways, PTL

\* The timer of a run is set until it stops the run, so the halted Z80 always
\* finds one (emu/z80.c:932-952,973-991).
THEOREM RunHasTimer == Spec => []RunTimerSet
<1>1. TInv => RunTimerSet
  BY DEF TInv, RunInv
<1>2. QED
  BY <1>1, TInvAlways, PTL
-----------------------------------------------------------------------------
(***************************************************************************)
(* Arithmetic: remainders, quotients and distances from the clock           *)
(***************************************************************************)
LEMMA ModIs ==
  ASSUME NEW w \in Nat, w > 0, NEW x \in Int, NEW y \in 0..(w - 1),
         x = y \/ x = y - w \/ x = y + w
  PROVE  x % w = y
OBVIOUS

LEMMA DivUp ==
  ASSUME NEW c \in Nat, c > 0, NEW a \in Int, NEW q \in Int, a < c * q + c
  PROVE  a \div c <= q
OBVIOUS

LEMMA DivMono ==
  ASSUME NEW c \in Nat, c > 0, NEW a \in Int, NEW b \in Int, a <= b
  PROVE  a \div c <= b \div c
OBVIOUS

LEMMA DivNat ==
  ASSUME NEW c \in Nat, c > 0, NEW a \in Nat
  PROVE  a \div c \in Nat /\ c * (a \div c) <= a /\ a < c * (a \div c) + c
OBVIOUS

LEMMA TimesMono ==
  ASSUME NEW a \in Nat, NEW b \in Nat, NEW c \in Nat, a <= b
  PROVE  a * c <= b * c /\ a * c \in Nat /\ b * c \in Nat
OBVIOUS

\* The distance that a number x of the clock's width stands for
Sign(x) == IF (-x) % W < Slack THEN -((-x) % W) ELSE x

\* The distances that can be told apart
Fit == {z \in Int : -Slack < z /\ z + Slack < W}

LEMMA WidthIs == W \in Nat /\ Slack \in Nat /\ Slack > 0 /\ Slack <= W /\ W > 0
                 /\ MaxOp \in Nat
BY TimerConstants

LEMMA SignIs ==
  ASSUME NEW z \in Fit
  PROVE  /\ z % W \in 0..(W - 1)
         /\ Sign(z % W) = z
         /\ ((z % W) + Slack) % W = z + Slack
         /\ (-(z % W)) % W = IF z <= 0 THEN -z ELSE W - z
<1> DEFINE x == z % W
           y == (-x) % W
<1>1. z \in Int /\ -Slack < z /\ z + Slack < W BY DEF Fit
<1>2. x = IF z < 0 THEN z + W ELSE z
  <2>1. CASE z < 0
    <3>1. z + W \in 0..(W - 1) /\ z = (z + W) - W BY <1>1, <2>1, WidthIs
    <3> QED BY <1>1, <2>1, <3>1, WidthIs, ModIs
  <2>2. CASE z >= 0
    <3>1. z \in 0..(W - 1) BY <1>1, <2>2, WidthIs
    <3> QED BY <1>1, <2>2, <3>1, WidthIs, ModIs
  <2> QED BY <1>1, <2>1, <2>2
<1> HIDE DEF x
<1>3. x \in 0..(W - 1) BY <1>1, <1>2, WidthIs
<1>4. y = IF z <= 0 THEN -z ELSE W - z
  <2> DEFINE r == IF z <= 0 THEN -z ELSE W - z
  <2>1. r \in 0..(W - 1) /\ (-x = r \/ -x = r - W) /\ -x \in Int BY <1>1, <1>2, <1>3, WidthIs
  <2> HIDE DEF r
  <2>2. y = r BY <2>1, WidthIs, ModIs
  <2> QED BY <2>2 DEF r
<1>5. (x + Slack) % W = z + Slack
  <2>1. z + Slack \in 0..(W - 1) /\ (x + Slack = z + Slack \/ x + Slack = z + Slack + W)
        /\ x + Slack \in Int
      BY <1>1, <1>2, WidthIs
  <2> QED BY <2>1, WidthIs, ModIs
<1>6. Sign(x) = IF y < Slack THEN -y ELSE x BY DEF Sign
<1> HIDE DEF y
<1>7. Sign(x) = z BY <1>1, <1>2, <1>4, <1>6, WidthIs
<1> QED BY <1>3, <1>4, <1>5, <1>7 DEF x, y

LEMMA LeftIs ==
  ASSUME NEW x \in 0..(W - 1)
  PROVE  Sign(x) \in Int /\ Sign(x) % W = x
<1> DEFINE y == (-x) % W
<1>1. x \in Int BY WidthIs
<1>2. y = IF x = 0 THEN 0 ELSE W - x
  <2> DEFINE r == IF x = 0 THEN 0 ELSE W - x
  <2>1. r \in 0..(W - 1) /\ (-x = r \/ -x = r - W) /\ -x \in Int BY WidthIs
  <2> HIDE DEF r
  <2>2. y = r BY <2>1, WidthIs, ModIs
  <2> QED BY <2>2 DEF r
<1> HIDE DEF y
<1>3. Sign(x) = IF y < Slack THEN -y ELSE x BY DEF Sign, y
<1>4. Sign(x) = x \/ Sign(x) = x - W BY <1>2, <1>3, WidthIs
<1> HIDE DEF Sign
<1>5. Sign(x) \in Int BY <1>1, <1>4, WidthIs
<1>6. Sign(x) % W = x BY <1>1, <1>4, <1>5, WidthIs, ModIs
<1> QED BY <1>5, <1>6

\* Late and Due by the distance
LEMMA SignedIs ==
  ASSUME left \in [Timer -> 0..(W - 1)], NEW t \in Timer
  PROVE  Signed(t) = Sign(left[t]) /\ Signed(t) \in Int
         /\ (Signed(t) \in Fit => /\ Due(t) <=> Signed(t) <= 0
                                  /\ Due(t) => Late(t) = -Signed(t)
                                  /\ ~Due(t) => left[t] = Signed(t))
<1>1. left[t] \in 0..(W - 1) OBVIOUS
<1>2. Signed(t) = Sign(left[t]) /\ Signed(t) \in Int BY <1>1, LeftIs DEF Signed, Sign, Due, Late
<1>3. ASSUME Signed(t) \in Fit
      PROVE  /\ Due(t) <=> Signed(t) <= 0
             /\ Due(t) => Late(t) = -Signed(t)
             /\ ~Due(t) => left[t] = Signed(t)
  <2> DEFINE z == Signed(t)
             y == (-(z % W)) % W
  <2>1. z % W = left[t] BY <1>1, <1>2, LeftIs
  <2>2. y = IF z <= 0 THEN -z ELSE W - z BY <1>3, SignIs
  <2>3. Late(t) = y BY <2>1 DEF Late
  <2>4. z \in Int /\ -Slack < z /\ z + Slack < W BY <1>3 DEF Fit
  <2>5. z = IF Due(t) THEN -Late(t) ELSE left[t] BY DEF Signed
  <2>6. Due(t) <=> Late(t) < Slack BY DEF Due
  <2> HIDE DEF y, z
  <2>7. Due(t) <=> z <= 0 BY <2>2, <2>3, <2>4, <2>6, WidthIs
  <2>8. Due(t) => Late(t) = -z BY <2>2, <2>3, <2>4, <2>7
  <2>9. ~Due(t) => left[t] = z BY <2>5
  <2> QED BY <2>7, <2>8, <2>9 DEF z
<1> QED BY <1>2, <1>3
-----------------------------------------------------------------------------
(***************************************************************************)
(* The order of the lists                                                   *)
(***************************************************************************)
\* A list is in order by the counts l
InOrder(l, s) == \A i, j \in 1..Len(s) : i <= j => Sign(l[s[i]]) <= Sign(l[s[j]])

\* timer_earlier compares the distances from the clock.
LEMMA EarlierIs ==
  ASSUME NEW l \in [Timer -> 0..(W - 1)], NEW t \in Timer, NEW u \in Timer,
         Sign(l[t]) \in Fit, Sign(l[u]) \in Fit
  PROVE  timer_earlier(l, t, u) <=> Sign(l[t]) < Sign(l[u])
<1>1. l[t] \in 0..(W - 1) /\ l[u] \in 0..(W - 1)
  OBVIOUS
<1>2. Sign(l[t]) % W = l[t] /\ Sign(l[u]) % W = l[u]
  BY <1>1, LeftIs
<1>3. (l[t] + Slack) % W = Sign(l[t]) + Slack /\ (l[u] + Slack) % W = Sign(l[u]) + Slack
  BY <1>2, SignIs
<1>4. Sign(l[t]) \in Int /\ Sign(l[u]) \in Int
  BY DEF Fit
<1>5. QED
  BY <1>3, <1>4, WidthIs DEF timer_earlier

\* An order is kept if no two of the list's timers change places.
LEMMA OrderKept ==
  ASSUME NEW l, NEW m, NEW s \in Seq(Timer), InOrder(l, s),
         \A t, u \in ToSet(s) : Sign(l[t]) <= Sign(l[u]) => Sign(m[t]) <= Sign(m[u])
  PROVE  InOrder(m, s)
<1>1. \A i \in 1..Len(s) : s[i] \in ToSet(s)
  BY DEF ToSet
<1>2. QED
  BY <1>1 DEF InOrder

LEMMA OrderOfRest ==
  ASSUME NEW l \in [Timer -> 0..(W - 1)], NEW s \in Seq(Timer), IsInjective(s),
         NEW i \in 1..Len(s), InOrder(l, s)
  PROVE  InOrder(l, RemoveAt(s, i))
<1> DEFINE w == RemoveAt(s, i)
<1>1. /\ Len(w) = Len(s) - 1
      /\ \A j \in 1..(Len(s) - 1) : w[j] = IF j < i THEN s[j] ELSE s[j + 1]
  BY RemoveOne
<1>2. Len(s) \in Nat
  OBVIOUS
<1> HIDE DEF w
<1>3. ASSUME NEW p \in 1..(Len(s) - 1), NEW q \in 1..(Len(s) - 1), p <= q
      PROVE  Sign(l[w[p]]) <= Sign(l[w[q]])
  <2> DEFINE a == IF p < i THEN p ELSE p + 1
             b == IF q < i THEN q ELSE q + 1
  <2>1. a \in 1..Len(s) /\ b \in 1..Len(s) /\ a <= b /\ w[p] = s[a] /\ w[q] = s[b]
    BY <1>1, <1>2, <1>3, SMTT(60)
  <2> HIDE DEF a, b
  <2>2. QED
    BY <2>1 DEF InOrder
<1>4. InOrder(l, w)
  BY <1>1, <1>3 DEF InOrder
<1>5. QED
  BY <1>4 DEF w

\* The timers behind which timer_insert puts t are not later, the others not
\* earlier.
LEMMA StopsBetween ==
  ASSUME NEW l \in [Timer -> 0..(W - 1)], NEW s \in Seq(Timer), NEW t \in Timer,
         \A u \in ToSet(s) \cup {t} : Sign(l[u]) \in Fit,
         InOrder(l, s), NEW n \in 0..Len(s), Stops(l, s, t, n)
  PROVE  /\ \A i \in 1..n : Sign(l[s[i]]) <= Sign(l[t])
         /\ \A i \in (n + 1)..Len(s) : Sign(l[t]) <= Sign(l[s[i]])
<1>1. \A i \in 1..Len(s) : s[i] \in Timer /\ s[i] \in ToSet(s)
  BY DEF ToSet
<1>2. Len(s) \in Nat /\ n \in Nat /\ n <= Len(s)
  OBVIOUS
<1>3. Fit \subseteq Int
  BY DEF Fit
<1>4. ASSUME NEW i \in 1..Len(s)
      PROVE  /\ timer_earlier(l, s[i], t) <=> Sign(l[s[i]]) < Sign(l[t])
             /\ timer_earlier(l, t, s[i]) <=> Sign(l[t]) < Sign(l[s[i]])
             /\ Sign(l[s[i]]) \in Int /\ Sign(l[t]) \in Int
  <2>1. s[i] \in Timer /\ Sign(l[s[i]]) \in Fit /\ Sign(l[t]) \in Fit
    BY <1>1
  <2>2. QED
    BY <1>3, <2>1, EarlierIs
<1>5. CASE n = 0
  <2>1. ASSUME NEW i \in 1..Len(s) PROVE Sign(l[t]) <= Sign(l[s[i]])
    <3>1. s # <<>> /\ 1 \in 1..Len(s) /\ 1 <= i
      BY <1>2
    <3>2. Sign(l[t]) < Sign(l[s[1]]) /\ Sign(l[s[1]]) \in Int
      BY <1>4, <1>5, <3>1 DEF Stops
    <3>3. Sign(l[s[1]]) <= Sign(l[s[i]]) /\ Sign(l[s[i]]) \in Int /\ Sign(l[t]) \in Int
      BY <1>4, <3>1 DEF InOrder
    <3>4. QED
      BY <3>2, <3>3
  <2>2. QED
    BY <1>2, <1>5, <2>1
<1>6. CASE n # 0
  <2>1. /\ ~timer_earlier(l, t, s[1])
        /\ \A i \in 2..n : timer_earlier(l, s[i], t)
        /\ n = Len(s) \/ ~timer_earlier(l, s[n + 1], t)
    BY <1>6 DEF Stops
  <2>2. ASSUME NEW i \in 1..n PROVE Sign(l[s[i]]) <= Sign(l[t])
    <3>1. i \in 1..Len(s)
      BY <1>2
    <3>2. i = 1 \/ i \in 2..n
      BY <1>2
    <3>3. QED
      BY <1>4, <2>1, <3>1, <3>2
  <2>3. ASSUME NEW i \in (n + 1)..Len(s) PROVE Sign(l[t]) <= Sign(l[s[i]])
    <3>1. i \in 1..Len(s) /\ n + 1 \in 1..Len(s) /\ n + 1 <= i /\ n # Len(s)
      BY <1>2
    <3>2. ~(Sign(l[s[n + 1]]) < Sign(l[t])) /\ Sign(l[s[n + 1]]) \in Int
      BY <1>4, <2>1, <3>1
    <3>3. Sign(l[s[n + 1]]) <= Sign(l[s[i]]) /\ Sign(l[s[i]]) \in Int /\ Sign(l[t]) \in Int
      BY <1>4, <3>1 DEF InOrder
    <3>4. QED
      BY <3>2, <3>3
  <2>4. QED
    BY <2>2, <2>3
<1>7. QED
  BY <1>5, <1>6

\* timer_insert keeps a list in order.
LEMMA InsertKeepsOrder ==
  ASSUME NEW l \in [Timer -> 0..(W - 1)], NEW s \in Seq(Timer), IsInjective(s),
         NEW t \in Timer, t \notin ToSet(s),
         \A u \in ToSet(s) \cup {t} : Sign(l[u]) \in Fit, InOrder(l, s)
  PROVE  InOrder(l, timer_insert(l, s, t))
<1> DEFINE w == timer_insert(l, s, t)
<1>1. l \in [Timer -> Int]
  BY WidthIs
<1>2. PICK n \in 0..Len(s) : Stops(l, s, t, n) /\ Behind(s, t, n, w)
  BY <1>1, InsertStops
<1> HIDE DEF w
<1>3. /\ Len(w) = Len(s) + 1
      /\ \A i \in 1..(Len(s) + 1) :
           w[i] = IF i <= n THEN s[i] ELSE IF i = n + 1 THEN t ELSE s[i - 1]
  BY <1>2 DEF Behind
<1>4. /\ \A i \in 1..n : Sign(l[s[i]]) <= Sign(l[t])
      /\ \A i \in (n + 1)..Len(s) : Sign(l[t]) <= Sign(l[s[i]])
  BY <1>2, StopsBetween
<1>5. Len(s) \in Nat /\ n \in Nat /\ n <= Len(s)
  OBVIOUS
<1>6. Sign(l[t]) \in Int
  BY DEF Fit
<1>7. ASSUME NEW i \in 1..(Len(s) + 1), NEW j \in 1..(Len(s) + 1), i <= j
      PROVE  Sign(l[w[i]]) <= Sign(l[w[j]])
  <2> DEFINE a == IF i <= n THEN i ELSE i - 1
             b == IF j <= n THEN j ELSE j - 1
  <2>1. CASE i = n + 1 /\ j = n + 1
    BY <1>3, <1>6, <2>1
  <2>2. CASE i = n + 1 /\ j # n + 1
    <3>1. j - 1 \in (n + 1)..Len(s) /\ w[i] = t /\ w[j] = s[j - 1]
      BY <1>3, <1>5, <1>7, <2>2
    <3>2. QED
      BY <1>4, <3>1
  <2>3. CASE i # n + 1 /\ j = n + 1
    <3>1. i \in 1..n /\ w[i] = s[i] /\ w[j] = t
      BY <1>3, <1>5, <1>7, <2>3
    <3>2. QED
      BY <1>4, <3>1
  <2>4. CASE i # n + 1 /\ j # n + 1
    <3>1. a \in 1..Len(s) /\ b \in 1..Len(s) /\ a <= b /\ w[i] = s[a] /\ w[j] = s[b]
      BY <1>3, <1>5, <1>7, <2>4, SMTT(60)
    <3> HIDE DEF a, b
    <3>2. QED
      BY <3>1 DEF InOrder
  <2>5. QED
    BY <2>1, <2>2, <2>3, <2>4
<1>8. InOrder(l, w)
  BY <1>3, <1>7 DEF InOrder
<1>9. QED
  BY <1>8 DEF w
-----------------------------------------------------------------------------
(***************************************************************************)
(* How far ahead a timer can be: z is no more than some count or period of  *)
(* kind k at clock speed c                                                  *)
(***************************************************************************)
FarAt(c, n, k) == IF k = "rt" THEN c * (n \div Khz + 1) ELSE n
Within(c, k, z) == \E n \in Count \cup Period : z <= FarAt(c, n, k)
ScaledAt(c, z, s) == (z * s + c \div 2) \div c

LEMMA SpeedIs == /\ \A c \in Speed : c \in Nat /\ c > 0
                 /\ Khz \in Nat /\ Khz > 0
                 /\ \A n \in Count \cup Period : n \in Nat
BY TimerConstants

LEMMA FarIs ==
  ASSUME NEW c \in Speed, NEW n \in Count \cup Period, NEW k \in Kind
  PROVE  FarAt(c, n, k) \in Nat /\ FarAt(c, n, k) + Slack < W
<1>1. c \in Nat /\ n \in Nat /\ n \div Khz \in Nat
  BY SpeedIs, DivNat
<1>2. n + Slack < W /\ c * (n \div Khz + 1) + Slack < W
  BY TimerProportions
<1>3. c * (n \div Khz + 1) \in Nat
  BY <1>1
<1>4. QED
  BY <1>1, <1>2, <1>3 DEF FarAt

LEMMA WithinLess ==
  ASSUME NEW c \in Speed, NEW k \in Kind, NEW y \in Int, NEW z \in Int, z <= y,
         Within(c, k, y)
  PROVE  Within(c, k, z)
<1>1. PICK n \in Count \cup Period : y <= FarAt(c, n, k)
  BY DEF Within
<1>2. FarAt(c, n, k) \in Int
  BY FarIs
<1>3. z <= FarAt(c, n, k)
  BY <1>1, <1>2
<1>4. QED
  BY <1>3 DEF Within

LEMMA WithinFits ==
  ASSUME NEW c \in Speed, NEW k \in Kind, NEW z \in Int, z > -Slack, Within(c, k, z)
  PROVE  z \in Fit
<1>1. PICK n \in Count \cup Period : z <= FarAt(c, n, k)
  BY DEF Within
<1>2. FarAt(c, n, k) \in Int /\ FarAt(c, n, k) + Slack < W
  BY FarIs
<1>3. QED
  BY <1>1, <1>2, WidthIs DEF Fit

\* A timer that has just been set is within the bound.
LEMMA ClocksWithin ==
  ASSUME clockspeed \in Speed, NEW n \in Count \cup Period, NEW k \in Kind
  PROVE  /\ Clocks(n, k) \in Nat /\ Within(clockspeed, k, Clocks(n, k))
         /\ k = "cpu" => Clocks(n, k) = n
<1>1. n \in Nat /\ clockspeed \in Nat /\ clockspeed > 0 /\ Khz \in Nat /\ Khz > 0
  BY SpeedIs
<1>2. Clocks(n, k) \in Nat /\ Clocks(n, k) <= FarAt(clockspeed, n, k)
  <2>1. CASE k = "rt"
    <3> DEFINE q == n \div Khz
               h == Khz \div 2
    <3>1. q \in Nat /\ n < Khz * q + Khz
      BY <1>1, DivNat
    <3>2. h \in Nat /\ h + h <= Khz
      BY <1>1
    <3> HIDE DEF q, h
    <3>3. n + 1 <= Khz * (q + 1)
      BY <1>1, <3>1
    <3>4. clockspeed * n + clockspeed <= Khz * (clockspeed * (q + 1))
      <4>1. (n + 1) * clockspeed <= (Khz * (q + 1)) * clockspeed
        BY <1>1, <3>1, <3>3, TimesMono
      <4>2. (n + 1) * clockspeed = clockspeed * n + clockspeed
        BY <1>1
      <4>3. (Khz * (q + 1)) * clockspeed = Khz * (clockspeed * (q + 1))
        BY <1>1, <3>1
      <4>4. QED
        BY <4>1, <4>2, <4>3
    <3> DEFINE r == clockspeed * (q + 1)
               a == clockspeed * n
    <3>5. r \in Nat /\ a \in Nat
      BY <1>1, <3>1
    <3>6. a + clockspeed <= Khz * r
      BY <3>4
    <3> HIDE DEF r, a
    <3>7. a + h < Khz * r + Khz /\ a + h \in Nat
      <4>1. Khz * r \in Nat
        BY <1>1, <3>5
      <4>2. QED
        BY <1>1, <3>2, <3>5, <3>6, <4>1
    <3>8. (a + h) \div Khz \in Nat /\ (a + h) \div Khz <= r
      BY <1>1, <3>5, <3>7, DivNat, DivUp
    <3>9. Clocks(n, k) = (a + h) \div Khz /\ FarAt(clockspeed, n, k) = r
      BY <2>1 DEF Clocks, FarAt, a, h, r, q
    <3>10. QED
      BY <3>8, <3>9
  <2>2. CASE k # "rt"
    BY <1>1, <2>2 DEF Clocks, FarAt
  <2>3. QED
    BY <2>1, <2>2
<1>3. Within(clockspeed, k, Clocks(n, k))
  BY <1>2 DEF Within
<1>4. QED
  BY <1>2, <1>3 DEF Clocks

\* A change of the clock speed keeps the bound and the order of real time.
LEMMA ScaledWithin ==
  ASSUME NEW c \in Speed, NEW s \in Speed, NEW z \in Nat, Within(c, "rt", z)
  PROVE  ScaledAt(c, z, s) \in Nat /\ Within(s, "rt", ScaledAt(c, z, s))
<1>1. PICK n \in Count \cup Period : z <= FarAt(c, n, "rt")
  BY DEF Within
<1>2. c \in Nat /\ c > 0 /\ s \in Nat /\ n \in Nat /\ Khz \in Nat /\ Khz > 0
  BY SpeedIs
<1> DEFINE m == n \div Khz + 1
           a == z * s
           h == c \div 2
<1>3. m \in Nat /\ z <= c * m
  BY <1>1, <1>2, DivNat DEF FarAt
<1>4. h \in Nat /\ h < c
  BY <1>2
<1> HIDE DEF m, h
<1>5. a \in Nat /\ a <= c * (s * m)
  <2>1. c * m \in Nat
    BY <1>2, <1>3
  <2>2. z * s <= (c * m) * s /\ z * s \in Nat
    BY <1>2, <1>3, <2>1, TimesMono
  <2>3. (c * m) * s = c * (s * m)
    BY <1>2, <1>3
  <2>4. QED
    BY <2>2, <2>3
<1> DEFINE r == s * m
<1>6. r \in Nat /\ a <= c * r
  BY <1>2, <1>3, <1>5
<1> HIDE DEF a, r
<1>7. a + h \in Nat /\ a + h < c * r + c
  <2>1. c * r \in Nat
    BY <1>2, <1>6
  <2>2. QED
    BY <1>2, <1>4, <1>5, <1>6, <2>1
<1>8. (a + h) \div c \in Nat /\ (a + h) \div c <= r
  BY <1>2, <1>6, <1>7, DivNat, DivUp
<1>9. ScaledAt(c, z, s) = (a + h) \div c /\ FarAt(s, n, "rt") = r
  BY DEF ScaledAt, FarAt, a, h, r, m
<1>10. QED
  BY <1>8, <1>9 DEF Within

LEMMA ScaledMono ==
  ASSUME NEW c \in Speed, NEW s \in Speed, NEW y \in Nat, NEW z \in Nat, y <= z
  PROVE  ScaledAt(c, y, s) <= ScaledAt(c, z, s)
<1>1. c \in Nat /\ c > 0 /\ s \in Nat
  BY SpeedIs
<1>2. y * s <= z * s /\ y * s \in Nat /\ z * s \in Nat
  BY <1>1, TimesMono
<1> DEFINE a == y * s
           b == z * s
           h == c \div 2
<1>3. a + h \in Int /\ b + h \in Int /\ a + h <= b + h
  BY <1>1, <1>2
<1> HIDE DEF a, b, h
<1>4. (a + h) \div c <= (b + h) \div c
  BY <1>1, <1>3, DivMono
<1>5. QED
  BY <1>4 DEF ScaledAt, a, b, h
-----------------------------------------------------------------------------
(***************************************************************************)
(* What the functions do to the order of the lists and to the distances     *)
(***************************************************************************)
Ordered == \A k \in Kind : InOrder(left, list[k])
Bounded == \A k \in Kind : \A t \in ToSet(list[k]) :
             Within(clockspeed, k, Sign(left[t]))
NoLater(m) == \A t \in On : Sign(left[t]) >= -m

ListsInv == /\ ListTypes /\ NoRepeat /\ Apart /\ clockspeed \in Speed
            /\ Ordered /\ Bounded /\ NoLater(MaxOp)

LEMMA SignedDef == \A t \in Timer : /\ Signed(t) = Sign(left[t])
                                    /\ Signed(t)' = Sign(left'[t])
BY DEF Signed, Due, Late, Sign

LEMMA BoundedIs ==
  /\ ListTypes => (NoneForgotten <=> Bounded)
  /\ ListTypes' => (NoneForgotten' <=> Bounded')
<1>1. ASSUME ListTypes PROVE \A k \in Kind : ToSet(list[k]) \subseteq Timer
  BY <1>1 DEF ListTypes, ToSet
<1>2. ASSUME ListTypes' PROVE \A k \in Kind : ToSet(list'[k]) \subseteq Timer
  BY <1>2 DEF ListTypes, ToSet
<1>3. ASSUME ListTypes PROVE NoneForgotten <=> Bounded
  BY <1>1, <1>3, SignedDef DEF NoneForgotten, Bounded, Within, Farthest, FarAt
<1>4. ASSUME ListTypes' PROVE NoneForgotten' <=> Bounded'
  BY <1>2, <1>4, SignedDef DEF NoneForgotten, Bounded, Within, Farthest, FarAt
<1>5. QED
  BY <1>3, <1>4

LEMMA OnIs ==
  /\ ListTypes => /\ On \subseteq Timer
                  /\ \A k \in Kind : ToSet(list[k]) \subseteq On
                  /\ \A t \in On : \E k \in Kind : t \in ToSet(list[k])
  /\ ListTypes' => /\ On' \subseteq Timer
                   /\ \A k \in Kind : ToSet(list'[k]) \subseteq On'
                   /\ \A t \in On' : \E k \in Kind : t \in ToSet(list'[k])
BY DEF ListTypes, On, ToSet, Kind

\* The distance of every timer that is set can be told.
LEMMA DistancesFit ==
  ASSUME ListsInv, NEW t \in On
  PROVE  /\ t \in Timer /\ Sign(left[t]) \in Fit /\ Sign(left[t]) \in Int
         /\ left[t] \in 0..(W - 1) /\ Sign(left[t]) % W = left[t]
         /\ Sign(left[t]) >= -MaxOp /\ MaxOp \in Nat /\ MaxOp < Slack
<1>1. PICK k \in Kind : t \in Timer /\ t \in ToSet(list[k])
  BY OnIs DEF ListsInv
<1>2. left[t] \in 0..(W - 1)
  BY <1>1 DEF ListsInv, ListTypes
<1>3. Sign(left[t]) \in Int /\ Sign(left[t]) % W = left[t]
  BY <1>2, LeftIs
<1>4. Sign(left[t]) >= -MaxOp /\ MaxOp \in Nat /\ MaxOp < Slack
  BY TimerProportions, WidthIs DEF ListsInv, NoLater
<1>5. Within(clockspeed, k, Sign(left[t])) /\ clockspeed \in Speed
  BY <1>1 DEF ListsInv, Bounded
<1>6. Sign(left[t]) > -Slack
  BY <1>3, <1>4, WidthIs
<1>7. Sign(left[t]) \in Fit
  BY <1>3, <1>5, <1>6, WithinFits
<1>8. QED
  BY <1>1, <1>2, <1>3, <1>4, <1>7

\* timer_unset keeps the lists in order.
LEMMA UnsetKeepsOrder ==
  ASSUME ListsInv, NEW t \in Timer, NEW k \in Kind
  PROVE  InOrder(left, Unset(t)[k])
<1>1. /\ list[k] \in Seq(Timer) /\ IsInjective(list[k]) /\ InOrder(left, list[k])
      /\ left \in [Timer -> 0..(W - 1)]
  BY DEF ListsInv, ListTypes, NoRepeat, Ordered
<1>2. CASE t \notin ToSet(list[k])
  BY <1>1, <1>2 DEF Unset
<1>3. CASE t \in ToSet(list[k])
  <2> DEFINE i == CHOOSE i \in DOMAIN list[k] : list[k][i] = t
  <2>1. i \in DOMAIN list[k]
    BY <1>3 DEF ToSet
  <2>2. Unset(t)[k] = RemoveAt(list[k], i)
    BY <1>3 DEF Unset
  <2>3. i \in 1..Len(list[k])
    BY <1>1, <2>1
  <2> HIDE DEF i
  <2>4. QED
    BY <1>1, <2>2, <2>3, OrderOfRest
<1>4. QED
  BY <1>2, <1>3

\* What setting a timer does: t goes to the list of kind k, at its new distance, or
\* to no list.
SetTo(t, n, p, k, e) ==
  /\ \A j \in Kind : ToSet(list'[j]) = IF j = k /\ n # 0 THEN ToSet(list[j]) \cup {t}
                                       ELSE ToSet(list[j]) \ {t}
  /\ \A u \in Timer \ {t} : left'[u] = left[u]
  /\ n # 0 => Sign(left'[t]) = Clocks(n, k) - e /\ period' = [period EXCEPT ![t] = p]
  /\ n = 0 => left' = left /\ period' = period

LEMMA SetKeepsOrder ==
  ASSUME ListsInv, NEW t \in Timer, NEW n \in Count \cup Period \cup {0},
         NEW p \in Period \cup {0}, NEW k \in Kind, NEW e \in 0..MaxOp,
         timer_set(t, n, p, k, e)
  PROVE  SetTo(t, n, p, k, e) /\ Ordered' /\ ListTypes' /\ NoRepeat' /\ Apart'
         /\ On' = IF n = 0 THEN On \ {t} ELSE On \cup {t}
<1>1. /\ Unset(t) \in [Kind -> Seq(Timer)]
      /\ \A j \in Kind : /\ IsInjective(Unset(t)[j])
                         /\ ToSet(Unset(t)[j]) = ToSet(list[j]) \ {t}
                         /\ InOrder(left, Unset(t)[j])
  BY UnsetLists, UnsetKeepsOrder DEF ListsInv, ListTypes
<1>2. n \in Nat /\ e \in Int
  BY SpeedIs, WidthIs
<1>3. /\ ListTypes' /\ NoRepeat' /\ Apart'
      /\ On' = IF n = 0 THEN On \ {t} ELSE On \cup {t}
  BY <1>2, SetKeepsLists DEF ListsInv
<1>4. CASE n = 0
  <2>1. list' = Unset(t) /\ left' = left /\ period' = period
    BY <1>4 DEF timer_set
  <2>2. SetTo(t, n, p, k, e) /\ Ordered'
    BY <1>1, <1>4, <2>1 DEF SetTo, Ordered
  <2>3. QED
    BY <1>3, <2>2
<1>5. CASE n # 0
  <2> DEFINE s == timer_insert(left', Unset(t)[k], t)
             z == Clocks(n, k) - e
  <2>1. /\ left' = [left EXCEPT ![t] = z % W]
        /\ period' = [period EXCEPT ![t] = p]
        /\ list' = [Unset(t) EXCEPT ![k] = s]
    BY <1>5 DEF timer_set
  <2>2. Clocks(n, k) \in Nat /\ Within(clockspeed, k, Clocks(n, k)) /\ clockspeed \in Speed
    BY <1>5, ClocksWithin DEF ListsInv
  <2>3. z \in Int /\ z <= Clocks(n, k) /\ z > -Slack
    BY <1>2, <2>2, TimerProportions, WidthIs
  <2> HIDE DEF z
  <2>4. z \in Fit
    BY <2>2, <2>3, WithinLess, WithinFits
  <2>5. left \in [Timer -> 0..(W - 1)] /\ left' \in [Timer -> 0..(W - 1)]
    BY <1>3 DEF ListsInv, ListTypes
  <2>6. left'[t] = z % W /\ \A u \in Timer \ {t} : left'[u] = left[u]
    BY <2>1, <2>5
  <2>7. Sign(left'[t]) = z
    BY <2>4, <2>6, SignIs
  <2>8. \A j \in Kind : ToSet(Unset(t)[j]) \subseteq On \ {t} /\ On \subseteq Timer
    BY <1>1, OnIs DEF ListsInv
  <2>9. ASSUME NEW j \in Kind PROVE InOrder(left', Unset(t)[j])
    <3>1. \A u \in ToSet(Unset(t)[j]) : left'[u] = left[u]
      BY <2>6, <2>8
    <3>2. InOrder(left, Unset(t)[j]) /\ Unset(t)[j] \in Seq(Timer)
      BY <1>1
    <3>3. \A u, v \in ToSet(Unset(t)[j]) :
             Sign(left[u]) <= Sign(left[v]) => Sign(left'[u]) <= Sign(left'[v])
      BY <3>1
    <3>4. QED
      BY <3>2, <3>3, OrderKept
  <2>10. InOrder(left', s)
    <3>1. \A u \in ToSet(Unset(t)[k]) \cup {t} : Sign(left'[u]) \in Fit
      BY <2>4, <2>6, <2>7, <2>8, DistancesFit
    <3>2. Unset(t)[k] \in Seq(Timer) /\ IsInjective(Unset(t)[k]) /\ t \notin ToSet(Unset(t)[k])
      BY <1>1
    <3>3. QED
      BY <2>5, <2>9, <3>1, <3>2, InsertKeepsOrder
  <2>11. ToSet(s) = ToSet(Unset(t)[k]) \cup {t}
    <3>1. left' \in [Timer -> Int]
      BY <2>5, WidthIs
    <3>2. Unset(t)[k] \in Seq(Timer) /\ IsInjective(Unset(t)[k]) /\ t \notin ToSet(Unset(t)[k])
      BY <1>1
    <3>3. QED
      BY <3>1, <3>2, InsertKeepsSet
  <2> HIDE DEF s
  <2>12. \A j \in Kind : list'[j] = IF j = k THEN s ELSE Unset(t)[j]
    BY <1>1, <2>1
  <2>13. Ordered'
    BY <2>9, <2>10, <2>12 DEF Ordered
  <2>14. \A j \in Kind : ToSet(list'[j]) = IF j = k THEN ToSet(list[j]) \cup {t}
                                           ELSE ToSet(list[j]) \ {t}
    BY <1>1, <2>11, <2>12
  <2>15. SetTo(t, n, p, k, e)
    BY <1>5, <2>1, <2>6, <2>7, <2>14 DEF SetTo, z
  <2>16. QED
    BY <1>3, <2>13, <2>15
<1>6. QED
  BY <1>4, <1>5

\* The lists are as they should be, but for how late a timer may be.
Listed == /\ ListTypes /\ NoRepeat /\ Apart /\ clockspeed \in Speed
          /\ Ordered /\ Bounded

LEMMA SetKeepsBound ==
  ASSUME ListsInv, NEW t \in Timer, NEW n \in Count \cup Period \cup {0},
         NEW p \in Period \cup {0}, NEW k \in Kind, NEW e \in 0..MaxOp,
         timer_set(t, n, p, k, e), clockspeed' = clockspeed
  PROVE  /\ Listed' /\ SetTo(t, n, p, k, e)
         /\ On' = IF n = 0 THEN On \ {t} ELSE On \cup {t}
         /\ \A j \in Kind : \A u \in ToSet(list'[j]) :
              \/ u \in ToSet(list[j]) /\ u # t /\ Sign(left'[u]) = Sign(left[u])
              \/ /\ u = t /\ j = k /\ n # 0 /\ Sign(left'[u]) = Clocks(n, k) - e
                 /\ Clocks(n, k) \in Nat /\ (k = "cpu" => Clocks(n, k) > 0)
<1>1. /\ SetTo(t, n, p, k, e) /\ Ordered' /\ ListTypes' /\ NoRepeat' /\ Apart'
      /\ On' = IF n = 0 THEN On \ {t} ELSE On \cup {t}
  BY SetKeepsOrder
<1>2. ASSUME n # 0
      PROVE  /\ Clocks(n, k) \in Nat /\ Within(clockspeed, k, Clocks(n, k))
             /\ (k = "cpu" => Clocks(n, k) > 0)
             /\ Within(clockspeed, k, Clocks(n, k) - e)
  <2>1. /\ Clocks(n, k) \in Nat /\ Within(clockspeed, k, Clocks(n, k))
        /\ (k = "cpu" => Clocks(n, k) = n) /\ n \in Nat /\ clockspeed \in Speed
    BY <1>2, ClocksWithin, SpeedIs DEF ListsInv
  <2>2. Clocks(n, k) - e \in Int /\ Clocks(n, k) - e <= Clocks(n, k)
    BY <2>1, WidthIs
  <2>3. QED
    BY <1>2, <2>1, <2>2, WithinLess
<1>3. \A j \in Kind : ToSet(list[j]) \subseteq Timer
  BY DEF ListsInv, ListTypes, ToSet
<1>4. ASSUME NEW j \in Kind, NEW u \in ToSet(list'[j])
      PROVE  \/ u \in ToSet(list[j]) /\ u # t /\ left'[u] = left[u]
             \/ u = t /\ j = k /\ n # 0 /\ Sign(left'[u]) = Clocks(n, k) - e
  BY <1>1, <1>3, <1>4 DEF SetTo
<1>5. Bounded'
  BY <1>2, <1>4 DEF Bounded, ListsInv
<1>6. QED
  BY <1>1, <1>2, <1>4, <1>5 DEF Listed, ListsInv

LEMMA RemoveKeepsBound ==
  ASSUME ListsInv, NEW t \in Timer, remove_timer(t)
  PROVE  /\ Listed' /\ On' = On \ {t}
         /\ \A j \in Kind : ToSet(list'[j]) = ToSet(list[j]) \ {t}
         /\ \A u \in Timer \ {t} : left'[u] = left[u] /\ period'[u] = period[u]
<1>1. /\ Unset(t) \in [Kind -> Seq(Timer)]
      /\ \A j \in Kind : /\ IsInjective(Unset(t)[j])
                         /\ ToSet(Unset(t)[j]) = ToSet(list[j]) \ {t}
                         /\ InOrder(left, Unset(t)[j])
  BY UnsetLists, UnsetKeepsOrder DEF ListsInv, ListTypes
<1>2. /\ list' = Unset(t) /\ clockspeed' = clockspeed
      /\ left' = [left EXCEPT ![t] = 0] /\ period' = [period EXCEPT ![t] = 0]
  BY DEF remove_timer
<1>3. left \in [Timer -> 0..(W - 1)] /\ period \in [Timer -> Period \cup {0}] /\ 0 \in 0..(W - 1)
  BY WidthIs DEF ListsInv, ListTypes
<1>4. ListTypes' /\ NoRepeat'
  BY <1>1, <1>2, <1>3 DEF ListTypes, NoRepeat
<1>5. \A u \in Timer \ {t} : left'[u] = left[u] /\ period'[u] = period[u]
  BY <1>2, <1>3
<1>6. \A j \in Kind : ToSet(list'[j]) = ToSet(list[j]) \ {t} /\ ToSet(list[j]) \subseteq Timer
  BY <1>1, <1>2, OnIs DEF ListsInv
<1>7. Apart' /\ On' = On \ {t}
  BY <1>6 DEF ListsInv, Apart, On, Kind
<1>8. Bounded'
  BY <1>2, <1>5, <1>6 DEF ListsInv, Bounded
<1>9. Ordered'
  <2> SUFFICES ASSUME NEW j \in Kind PROVE InOrder(left', list'[j])
    BY DEF Ordered
  <2>1. \A u \in ToSet(list'[j]) : left'[u] = left[u]
    BY <1>5, <1>6
  <2>2. list'[j] \in Seq(Timer) /\ InOrder(left, list'[j])
    BY <1>1, <1>2
  <2>3. \A u, v \in ToSet(list'[j]) :
           Sign(left[u]) <= Sign(left[v]) => Sign(left'[u]) <= Sign(left'[v])
    BY <2>1
  <2>4. QED
    BY <2>2, <2>3, OrderKept
<1>10. QED
  BY <1>2, <1>4, <1>5, <1>6, <1>7, <1>8, <1>9 DEF Listed, ListsInv

\* Distances that can be told shrink by the clocks that pass.
LEMMA LeftLess ==
  ASSUME NEW x \in 0..(W - 1), NEW d \in Nat, Sign(x) - d \in Fit
  PROVE  Sign((x - d) % W) = Sign(x) - d
<1> DEFINE z == Sign(x)
           y == (z - d) % W
<1>1. z \in Int /\ z % W = x
  BY LeftIs
<1>2. z = x \/ z = x - W
  <2>1. (-x) % W = IF x = 0 THEN 0 ELSE W - x
    <3> DEFINE r == IF x = 0 THEN 0 ELSE W - x
    <3>1. r \in 0..(W - 1) /\ (-x = r \/ -x = r - W) /\ -x \in Int
      BY WidthIs
    <3> HIDE DEF r
    <3>2. (-x) % W = r
      BY <3>1, WidthIs, ModIs
    <3>3. QED
      BY <3>2 DEF r
  <2>2. QED
    BY <2>1, WidthIs DEF Sign
<1>3. y \in 0..(W - 1) /\ Sign(y) = z - d
  BY SignIs
<1> HIDE DEF z
<1>4. z - d \in Fit /\ z - d \in Int /\ -Slack < z - d /\ (z - d) + Slack < W
  BY <1>1 DEF z, Fit
<1>5. y = IF z - d < 0 THEN (z - d) + W ELSE z - d
  <2>1. CASE z - d < 0
    <3>1. (z - d) + W \in 0..(W - 1) /\ z - d = ((z - d) + W) - W
      BY <1>4, <2>1, WidthIs
    <3>2. QED
      BY <1>4, <2>1, <3>1, WidthIs, ModIs
  <2>2. CASE ~(z - d < 0)
    <3>1. z - d \in 0..(W - 1)
      BY <1>4, <2>2, WidthIs
    <3>2. QED
      BY <1>4, <2>2, <3>1, WidthIs, ModIs
  <2>3. QED
    BY <2>1, <2>2
<1> HIDE DEF y
<1>6. x - d \in Int /\ (x - d = y \/ x - d = y - W \/ x - d = y + W)
  BY <1>1, <1>2, <1>4, <1>5, WidthIs
<1>7. (x - d) % W = y
  BY <1>3, <1>6, WidthIs, ModIs
<1>8. QED
  BY <1>3, <1>7 DEF z

LEMMA AdvanceKeepsBound ==
  ASSUME TInv, ListsInv, NEW d \in Nat, Advance(d),
         \A t \in On : Sign(left[t]) - d >= -MaxOp
  PROVE  /\ Listed' /\ On' = On /\ list' = list
         /\ \A t \in On : Sign(left'[t]) = Sign(left[t]) - d
<1>1. /\ ListTypes' /\ NoRepeat' /\ Apart' /\ On' = On
      /\ list' = list /\ clockspeed' = clockspeed
  BY AdvanceKeeps DEF Advance
<1>2. ASSUME NEW t \in On
      PROVE  Sign(left'[t]) = Sign(left[t]) - d /\ Sign(left[t]) \in Int
  <2>1. t \in Timer /\ Sign(left[t]) \in Int /\ left[t] \in 0..(W - 1)
        /\ Sign(left[t]) \in Fit /\ MaxOp \in Nat /\ MaxOp < Slack
    BY DistancesFit
  <2>2. Sign(left[t]) - d \in Int /\ -Slack < Sign(left[t]) - d
        /\ (Sign(left[t]) - d) + Slack < W
    <3>1. Sign(left[t]) - d >= -MaxOp
      OBVIOUS
    <3>2. Sign(left[t]) + Slack < W
      BY <2>1 DEF Fit
    <3> HIDE DEF Sign
    <3>3. QED
      BY <2>1, <3>1, <3>2, WidthIs
  <2>3. Sign(left[t]) - d \in Fit
    BY <2>2 DEF Fit
  <2>4. left'[t] = (left[t] - d) % W
    BY <2>1 DEF Advance
  <2>5. QED
    BY <2>1, <2>3, <2>4, LeftLess
<1>3. \A k \in Kind : ToSet(list[k]) \subseteq On
  BY OnIs DEF ListsInv
<1>4. Ordered'
  <2> SUFFICES ASSUME NEW k \in Kind PROVE InOrder(left', list[k])
    BY <1>1 DEF Ordered
  <2>1. list[k] \in Seq(Timer) /\ InOrder(left, list[k])
    BY DEF ListsInv, ListTypes, Ordered
  <2>2. ASSUME NEW t \in ToSet(list[k]), NEW u \in ToSet(list[k]), Sign(left[t]) <= Sign(left[u])
        PROVE  Sign(left'[t]) <= Sign(left'[u])
    <3>1. /\ Sign(left'[t]) = Sign(left[t]) - d /\ Sign(left[t]) \in Int
          /\ Sign(left'[u]) = Sign(left[u]) - d /\ Sign(left[u]) \in Int
      BY <1>2, <1>3
    <3>2. QED
      BY <2>2, <3>1
  <2>3. QED
    BY <2>1, <2>2, OrderKept
<1>5. Bounded'
  <2> SUFFICES ASSUME NEW k \in Kind, NEW t \in ToSet(list[k])
               PROVE  Within(clockspeed, k, Sign(left'[t]))
    BY <1>1 DEF Bounded
  <2>1. Within(clockspeed, k, Sign(left[t])) /\ clockspeed \in Speed
    BY DEF ListsInv, Bounded
  <2>2. Sign(left'[t]) = Sign(left[t]) - d /\ Sign(left[t]) \in Int
    BY <1>2, <1>3
  <2>3. Sign(left'[t]) \in Int /\ Sign(left'[t]) <= Sign(left[t])
    BY <2>2
  <2>4. QED
    BY <2>1, <2>2, <2>3, WithinLess
<1>6. QED
  BY <1>1, <1>2, <1>4, <1>5 DEF Listed, ListsInv

\* A timer that is in no list gets later by the clocks that pass.
LEMMA RunGetsLater ==
  ASSUME left \in [Timer -> 0..(W - 1)], run \in Timer, NEW d \in Nat, Advance(d),
         Late(run) + d < W
  PROVE  ((-left'[run]) % W) = Late(run) + d
<1> DEFINE x == left[run]
           y == x - d
<1>1. x \in 0..(W - 1) /\ left'[run] = y % W /\ Late(run) = (-x) % W
  BY DEF Advance, Late
<1> DEFINE r == IF x = 0 THEN 0 ELSE W - x
<1>2. r \in 0..(W - 1) /\ (-x = r \/ -x = r - W) /\ -x \in Int
  BY <1>1, WidthIs
<1> HIDE DEF x
<1>3. (-x) % W = r
  <2> HIDE DEF r
  <2>1. QED
    BY <1>2, WidthIs, ModIs
<1>4. r + d < W
  BY <1>1, <1>3
<1> DEFINE q == IF x = 0 /\ d = 0 THEN 0 ELSE IF x = 0 THEN W - d ELSE x - d
<1>5. q \in 0..(W - 1) /\ (y = q \/ y = q - W) /\ y \in Int
  BY <1>1, <1>4, WidthIs
<1>6. y % W = q
  <2> HIDE DEF q, y
  <2>1. QED
    BY <1>5, WidthIs, ModIs
<1>7. r + d \in 0..(W - 1) /\ (-q = r + d \/ -q = (r + d) - W) /\ -q \in Int
  BY <1>1, <1>2, <1>4, WidthIs
<1>8. (-q) % W = r + d
  <2> HIDE DEF q, r
  <2>1. QED
    BY <1>7, WidthIs, ModIs
<1>9. QED
  <2> HIDE DEF q, r, y
  <2>1. QED
    BY <1>1, <1>3, <1>6, <1>8

LEMMA SpeedKeepsBound ==
  ASSUME TInv, ListsInv, NEW s \in Speed, set_speed(s)
  PROVE  /\ Listed' /\ On' = On /\ list' = list /\ period' = period
         /\ \A t \in Timer : t \notin ToSet(list["rt"]) => left'[t] = left[t]
         /\ \A t \in On : Sign(left'[t]) =
              IF t \in ToSet(list["rt"]) /\ Sign(left[t]) > 0
              THEN ScaledAt(clockspeed, Sign(left[t]), s) ELSE Sign(left[t])
         /\ \A t \in On : Sign(left'[t]) \in Int /\
              IF t \in ToSet(list["rt"]) /\ Sign(left[t]) > 0
              THEN Sign(left'[t]) >= 0 ELSE Sign(left'[t]) = Sign(left[t])
<1>1. /\ ListTypes' /\ NoRepeat' /\ Apart' /\ On' = On
      /\ list' = list /\ clockspeed' = s /\ period' = period
  BY SpeedKeeps DEF set_speed
<1>2. \A t \in Timer : left'[t] = IF t \in ToSet(list["rt"]) /\ ~Due(t)
                                  THEN Scaled(left[t], s) % W ELSE left[t]
  BY DEF set_speed
<1>3. "rt" \in Kind /\ "cpu" \in Kind /\ \A k \in Kind : k = "rt" \/ k = "cpu"
  BY DEF Kind
<1>4. clockspeed \in Speed /\ left \in [Timer -> 0..(W - 1)]
  BY DEF ListsInv, ListTypes
<1> DEFINE far(t) == t \in ToSet(list["rt"]) /\ Sign(left[t]) > 0
           to(t) == ScaledAt(clockspeed, Sign(left[t]), s)
<1>5. ASSUME NEW t \in On, far(t)
      PROVE  /\ Sign(left'[t]) = to(t) /\ to(t) \in Nat /\ Within(s, "rt", to(t))
             /\ Sign(left[t]) \in Nat
  <2>1. t \in Timer /\ Sign(left[t]) \in Fit /\ Sign(left[t]) \in Int
    BY DistancesFit
  <2>2. Signed(t) = Sign(left[t]) /\ ~Due(t) /\ left[t] = Sign(left[t])
    <3>1. /\ Signed(t) = Sign(left[t])
          /\ Signed(t) \in Fit => /\ Due(t) <=> Signed(t) <= 0
                                  /\ ~Due(t) => left[t] = Signed(t)
      BY <1>4, <2>1, SignedIs
    <3> HIDE DEF Sign, Due, Signed
    <3>2. QED
      BY <1>5, <2>1, <3>1
  <2>3. left'[t] = to(t) % W
    <3>1. left'[t] = Scaled(left[t], s) % W
      BY <1>2, <1>5, <2>1, <2>2
    <3>2. Scaled(left[t], s) = to(t)
      BY <2>2 DEF Scaled, ScaledAt
    <3>3. QED
      BY <3>1, <3>2
  <2>4. Sign(left[t]) \in Nat
    BY <1>5, <2>1
  <2>5. Within(clockspeed, "rt", Sign(left[t]))
    BY <1>3, <1>5 DEF ListsInv, Bounded
  <2>6. to(t) \in Nat /\ Within(s, "rt", to(t))
    BY <1>4, <2>4, <2>5, ScaledWithin
  <2> HIDE DEF to
  <2>7. to(t) \in Int /\ to(t) > -Slack
    BY <2>6, WidthIs
  <2>8. to(t) \in Fit
    BY <1>3, <2>6, <2>7, WithinFits
  <2>9. Sign(left'[t]) = to(t)
    BY <2>3, <2>8, SignIs
  <2>10. QED
    BY <2>4, <2>6, <2>9
<1>6. ASSUME NEW t \in On, ~far(t)
      PROVE  left'[t] = left[t] /\ Sign(left[t]) \in Int
  <2>1. t \in Timer /\ Sign(left[t]) \in Fit /\ Sign(left[t]) \in Int
    BY DistancesFit
  <2>2. t \notin ToSet(list["rt"]) \/ Due(t)
    <3>1. /\ Signed(t) = Sign(left[t])
          /\ Signed(t) \in Fit => (Due(t) <=> Signed(t) <= 0)
      BY <1>4, <2>1, SignedIs
    <3> HIDE DEF Sign, Due, Signed
    <3>2. QED
      BY <1>6, <2>1, <3>1
  <2>3. QED
    BY <1>2, <2>1, <2>2
<1>7. \A k \in Kind : ToSet(list[k]) \subseteq On
  BY OnIs DEF ListsInv
<1>8. \A t \in ToSet(list["cpu"]) : t \notin ToSet(list["rt"])
  BY DEF ListsInv, Apart
<1>9. Bounded'
  <2> SUFFICES ASSUME NEW k \in Kind, NEW t \in ToSet(list[k])
               PROVE  Within(s, k, Sign(left'[t]))
    BY <1>1 DEF Bounded
  <2>1. t \in On /\ Within(clockspeed, k, Sign(left[t]))
    BY <1>7 DEF ListsInv, Bounded
  <2>2. CASE far(t)
    BY <1>3, <1>5, <1>8, <2>1, <2>2
  <2>3. CASE ~far(t)
    <3>1. left'[t] = left[t] /\ Sign(left[t]) \in Int
      BY <1>6, <2>1, <2>3
    <3>2. PICK n \in Count \cup Period : Sign(left[t]) <= FarAt(clockspeed, n, k)
      BY <2>1 DEF Within
    <3>3. CASE k = "cpu"
      BY <3>1, <3>2, <3>3 DEF Within, FarAt
    <3>4. CASE k = "rt"
      <4>1. Sign(left[t]) <= 0
        BY <2>3, <3>1, <3>4
      <4>2. FarAt(s, n, k) \in Nat
        BY FarIs
      <4>3. Sign(left'[t]) <= FarAt(s, n, k)
        BY <3>1, <4>1, <4>2
      <4>4. QED
        BY <4>3 DEF Within
    <3>5. QED
      BY <1>3, <3>3, <3>4
  <2>4. QED
    BY <2>2, <2>3
<1>10. Ordered'
  <2> SUFFICES ASSUME NEW k \in Kind PROVE InOrder(left', list[k])
    BY <1>1 DEF Ordered
  <2>1. list[k] \in Seq(Timer) /\ InOrder(left, list[k])
    BY DEF ListsInv, ListTypes, Ordered
  <2>2. ASSUME NEW t \in ToSet(list[k]), NEW u \in ToSet(list[k]), Sign(left[t]) <= Sign(left[u])
        PROVE  Sign(left'[t]) <= Sign(left'[u])
    <3>1. t \in On /\ u \in On
      BY <1>7
    <3>2. CASE far(t)
      <4>1. far(u) /\ Sign(left[t]) \in Nat /\ Sign(left[u]) \in Nat
        <5>1. Sign(left[t]) \in Nat /\ Sign(left[t]) > 0
          BY <1>5, <3>1, <3>2
        <5>2. Sign(left[u]) \in Int
          BY <3>1, DistancesFit
        <5>3. u \in ToSet(list["rt"])
          BY <1>3, <1>8, <3>2
        <5>4. QED
          BY <2>2, <5>1, <5>2, <5>3
      <4>2. to(t) <= to(u)
        BY <1>4, <2>2, <4>1, ScaledMono
      <4>3. QED
        BY <1>5, <3>1, <3>2, <4>1, <4>2
    <3>3. CASE ~far(t) /\ ~far(u)
      BY <1>6, <2>2, <3>1, <3>3
    <3>4. CASE ~far(t) /\ far(u)
      <4>1. t \in ToSet(list["rt"])
        BY <1>3, <1>8, <3>4
      <4>2. left'[t] = left[t] /\ Sign(left[t]) \in Int /\ Sign(left[t]) <= 0
        BY <1>6, <3>1, <3>4, <4>1
      <4>3. Sign(left'[u]) \in Nat
        BY <1>5, <3>1, <3>4
      <4>4. QED
        BY <4>2, <4>3
    <3>5. QED
      BY <3>2, <3>3, <3>4
  <2>3. QED
    BY <2>1, <2>2, OrderKept
<1>11. \A t \in Timer : t \notin ToSet(list["rt"]) => left'[t] = left[t]
  BY <1>2
<1>12. Listed'
  BY <1>1, <1>9, <1>10 DEF Listed
<1>13. \A t \in On : Sign(left'[t]) = IF far(t) THEN to(t) ELSE Sign(left[t])
  BY <1>5, <1>6
<1>14. ASSUME NEW t \in On
       PROVE  Sign(left'[t]) \in Int /\ IF far(t) THEN Sign(left'[t]) >= 0
                                        ELSE Sign(left'[t]) = Sign(left[t])
  BY <1>5, <1>6
<1>15. QED
  BY <1>1, <1>11, <1>12, <1>13, <1>14
-----------------------------------------------------------------------------
(***************************************************************************)
(* The inductive invariant of the order.  How late a timer can be follows   *)
(* from where z80_execute stands: not at all between two instructions, by   *)
(* the clocks of this instruction in it, and by a whole instruction while   *)
(* the timers are checked after it.                                         *)
(***************************************************************************)
InCheckOfPort == pc \in Kind /\ back = "op2"
Latest == IF pc \in InOp \/ InCheckOfPort THEN spent
          ELSE IF pc \in Kind THEN MaxOp ELSE 0

\* The checks have left no due timer behind.
Ahead ==
  /\ pc = "done" => \A t \in On : Sign(left[t]) > 0
  /\ pc = "rt" => \A t \in ToSet(list["cpu"]) : Sign(left[t]) > 0

StepInv ==
  /\ pc \in {"idle", "next", "done"} \/ (pc \in Kind /\ back # "op2") => spent = 0 /\ ~intr
  /\ incall => pc \in Kind

\* The run's timer went off in this instruction, or in the one before the
\* acceptance of an interrupt.
RunLatest == IF pc \in InOp \/ InCheckOfPort THEN spent + (IF intr THEN MaxOp ELSE 0)
             ELSE IF pc = "done" \/ (pc \in Kind /\ back = "done") THEN MaxOp
             ELSE 2 * MaxOp
RunLate == run # NoTimer /\ run \notin On => Late(run) <= RunLatest

OInv == Ordered /\ Bounded /\ NoLater(Latest) /\ Ahead /\ StepInv /\ RunLate

LEMMA OInvParts ==
  ASSUME TInv, OInv
  PROVE  /\ ListsInv /\ Latest \in 0..MaxOp
         /\ MaxOp \in Nat /\ spent \in 0..MaxOp /\ spent \in Nat
         /\ ListTypes /\ clockspeed \in Speed /\ On \subseteq used /\ used \subseteq Timer
         /\ \A t \in On : Sign(left[t]) \in Int /\ Sign(left[t]) >= -Latest
<1>1. /\ ListTypes /\ NoRepeat /\ Apart /\ clockspeed \in Speed /\ spent \in 0..MaxOp
      /\ On \subseteq used /\ used \subseteq Timer
  BY TInvParts DEF ControlTypes
<1>2. MaxOp \in Nat
  BY WidthIs
<1>3. Latest \in 0..MaxOp /\ spent \in Nat
  BY <1>1, <1>2 DEF Latest
<1>4. ASSUME NEW t \in On
      PROVE  Sign(left[t]) \in Int /\ Sign(left[t]) >= -Latest /\ Sign(left[t]) >= -MaxOp
  <2>1. left[t] \in 0..(W - 1)
    BY <1>1, OnIs DEF ListTypes
  <2>2. Sign(left[t]) \in Int
    BY <2>1, LeftIs
  <2>3. Sign(left[t]) >= -Latest
    BY DEF OInv, NoLater
  <2> HIDE DEF Sign, Latest
  <2>4. QED
    BY <1>2, <1>3, <2>2, <2>3
<1>5. ListsInv
  BY <1>1, <1>4 DEF OInv, ListsInv, NoLater
<1>6. QED
  BY <1>1, <1>2, <1>3, <1>4, <1>5

\* Setting a timer, or making it go off, leaves the order as it was.
LEMMA SetStep ==
  ASSUME TInv, OInv, NEW t \in Timer, NEW n \in Count \cup Period \cup {0},
         NEW p \in Period \cup {0}, NEW k \in Kind, NEW e \in 0..MaxOp, e <= Latest,
         timer_set(t, n, p, k, e), clockspeed' = clockspeed,
         UNCHANGED <<pc, back, intr, spent, run>>,
         pc # "done", pc = "rt" /\ k = "cpu" => e = 0, incall' => pc \in Kind,
         t # run \/ n # 0 \/ Late(run) <= RunLatest
  PROVE  OInv' /\ Listed'
<1>1. /\ ListsInv /\ Latest \in 0..MaxOp /\ MaxOp \in Nat /\ ListTypes
      /\ \A u \in On : Sign(left[u]) \in Int /\ Sign(left[u]) >= -Latest
      /\ On \subseteq Timer
  BY OInvParts
<1>2. /\ Listed' /\ SetTo(t, n, p, k, e)
      /\ On' = IF n = 0 THEN On \ {t} ELSE On \cup {t}
      /\ \A j \in Kind : \A u \in ToSet(list'[j]) :
           \/ u \in ToSet(list[j]) /\ u # t /\ Sign(left'[u]) = Sign(left[u])
           \/ /\ u = t /\ j = k /\ n # 0 /\ Sign(left'[u]) = Clocks(n, k) - e
              /\ Clocks(n, k) \in Nat /\ (k = "cpu" => Clocks(n, k) > 0)
  BY <1>1, SetKeepsBound
<1>3. Latest' = Latest /\ RunLatest' = RunLatest
  BY DEF Latest, RunLatest, InCheckOfPort
<1>4. ASSUME NEW u \in On' PROVE Sign(left'[u]) >= -Latest
  <2>1. PICK j \in Kind : u \in ToSet(list'[j])
    BY <1>2, OnIs DEF Listed
  <2>2. CASE u \in ToSet(list[j]) /\ u # t /\ Sign(left'[u]) = Sign(left[u])
    <3>1. u \in On
      BY <1>1, <2>2, OnIs
    <3>2. QED
      BY <1>1, <2>2, <3>1
  <2>3. CASE u = t /\ Sign(left'[u]) = Clocks(n, k) - e /\ Clocks(n, k) \in Nat
    <3> HIDE DEF Latest, Sign, Clocks
    <3>1. e \in Int /\ Latest \in Int
      BY <1>1
    <3>2. QED
      BY <2>3, <3>1
  <2>4. QED
    BY <1>2, <2>1, <2>2, <2>3
<1>5. NoLater(Latest)'
  BY <1>3, <1>4 DEF NoLater
<1>6. Ahead'
  <2>1. SUFFICES ASSUME pc = "rt", NEW u \in ToSet(list'["cpu"]) PROVE Sign(left'[u]) > 0
    BY DEF Ahead
  <2>2. "cpu" \in Kind
    BY DEF Kind
  <2>3. CASE u \in ToSet(list["cpu"]) /\ u # t /\ Sign(left'[u]) = Sign(left[u])
    BY <2>1, <2>3 DEF OInv, Ahead
  <2>4. CASE k = "cpu" /\ Sign(left'[u]) = Clocks(n, k) - e /\ Clocks(n, k) \in Nat
             /\ Clocks(n, k) > 0
    BY <2>1, <2>4
  <2>5. QED
    BY <1>2, <2>2, <2>3, <2>4
<1>7. StepInv'
  BY DEF OInv, StepInv
<1>8. RunLate'
  <2> SUFFICES ASSUME run # NoTimer, run \notin On' PROVE (-left'[run]) % W <= RunLatest
    BY <1>3 DEF RunLate, Late
  <2>1. run \in Timer
    BY TInvParts DEF ControlTypes
  <2>2. Late(run) <= RunLatest
    <3>1. CASE t # run
      BY <1>2, <3>1 DEF OInv, RunLate
    <3>2. CASE t = run
      BY <1>2, <3>2
    <3>3. QED
      BY <3>1, <3>2
  <2>3. left'[run] = left[run]
    BY <1>2, <2>1 DEF SetTo
  <2>4. QED
    BY <2>2, <2>3 DEF Late
<1>9. QED
  BY <1>2, <1>5, <1>6, <1>7, <1>8 DEF OInv, Listed

\* Removing a timer, other than that of a run that goes on
LEMMA RemoveStep ==
  ASSUME TInv, OInv, NEW t \in Timer, remove_timer(t), StepInv',
         UNCHANGED <<pc, back, intr, spent>> \/ (pc = "next" /\ pc' = "idle"),
         run' = NoTimer \/ (run' = run /\ t # run /\ UNCHANGED <<pc, back, intr, spent>>)
  PROVE  OInv' /\ Listed'
<1>1. /\ ListsInv /\ Latest \in 0..MaxOp /\ ListTypes /\ On \subseteq Timer
      /\ \A u \in On : Sign(left[u]) \in Int /\ Sign(left[u]) >= -Latest
  BY OInvParts
<1>2. /\ Listed' /\ On' = On \ {t}
      /\ \A j \in Kind : ToSet(list'[j]) = ToSet(list[j]) \ {t}
      /\ \A u \in Timer \ {t} : left'[u] = left[u] /\ period'[u] = period[u]
  BY <1>1, RemoveKeepsBound
<1>3. Latest' = Latest
  BY DEF Latest, InCheckOfPort, Kind, InOp
<1>4. NoLater(Latest)'
  BY <1>1, <1>2, <1>3 DEF NoLater
<1>5. Ahead'
  <2>1. "cpu" \in Kind /\ ToSet(list["cpu"]) \subseteq Timer
    BY <1>1, OnIs DEF Kind
  <2>2. pc' # "idle" => pc' = pc
    OBVIOUS
  <2>3. QED
    BY <1>1, <1>2, <2>1, <2>2 DEF OInv, Ahead
<1>6. RunLate'
  <2> SUFFICES ASSUME run' # NoTimer, run' \notin On'
               PROVE  run' = run /\ run # NoTimer /\ run \notin On /\ left'[run] = left[run]
                      /\ RunLatest' = RunLatest
    BY DEF OInv, RunLate, Late
  <2>1. run' = run /\ t # run /\ UNCHANGED <<pc, back, intr, spent>> /\ run \in Timer
    BY TInvParts DEF ControlTypes
  <2>2. RunLatest' = RunLatest
    BY <2>1 DEF RunLatest, InCheckOfPort
  <2>3. QED
    BY <1>2, <2>1, <2>2
<1>7. QED
  BY <1>2, <1>4, <1>5, <1>6 DEF OInv, Listed

LEMMA SpeedStep ==
  ASSUME TInv, OInv, NEW s \in Speed, set_speed(s),
         UNCHANGED <<pc, back, intr, incall, spent, run>>, pc # "done"
  PROVE  OInv' /\ Listed'
<1>1. /\ ListsInv /\ Latest \in 0..MaxOp /\ ListTypes /\ On \subseteq Timer
      /\ \A u \in On : Sign(left[u]) \in Int /\ Sign(left[u]) >= -Latest
  BY OInvParts
<1>2. /\ Listed' /\ On' = On /\ list' = list
      /\ \A t \in Timer : t \notin ToSet(list["rt"]) => left'[t] = left[t]
      /\ \A t \in On : Sign(left'[t]) \in Int /\
              IF t \in ToSet(list["rt"]) /\ Sign(left[t]) > 0
              THEN Sign(left'[t]) >= 0 ELSE Sign(left'[t]) = Sign(left[t])
  BY <1>1, SpeedKeepsBound
<1>3. Latest' = Latest /\ RunLatest' = RunLatest
  BY DEF Latest, RunLatest, InCheckOfPort
<1>4. NoLater(Latest)'
  <2> SUFFICES ASSUME NEW t \in On PROVE Sign(left'[t]) >= -Latest
    BY <1>2, <1>3 DEF NoLater
  <2>1. Latest \in Nat /\ Sign(left'[t]) \in Int /\ Sign(left[t]) >= -Latest
        /\ (Sign(left'[t]) >= 0 \/ Sign(left'[t]) = Sign(left[t]))
    BY <1>1, <1>2
  <2> HIDE DEF Latest, Sign
  <2>2. QED
    BY <2>1
<1>5. Ahead'
  <2>1. \A t \in ToSet(list["cpu"]) : t \in Timer /\ t \notin ToSet(list["rt"])
    BY <1>1 DEF ListsInv, Apart, On
  <2>2. \A t \in ToSet(list["cpu"]) : left'[t] = left[t]
    BY <1>2, <2>1
  <2>3. QED
    BY <1>2, <2>2 DEF OInv, Ahead
<1>6. StepInv'
  BY DEF OInv, StepInv
<1>7. RunLate'
  <2> SUFFICES ASSUME run # NoTimer, run \notin On PROVE left'[run] = left[run]
    BY <1>2, <1>3 DEF OInv, RunLate, Late
  <2>1. run \in Timer /\ run \notin ToSet(list["rt"])
    BY TInvParts DEF ControlTypes, On
  <2>2. QED
    BY <1>2, <2>1
<1>8. QED
  BY <1>2, <1>4, <1>5, <1>6, <1>7 DEF OInv, Listed

\* Time passes: in an instruction by what it takes, and in a halted Z80 up to the
\* first timer.
LEMMA AdvanceStep ==
  ASSUME TInv, OInv, NEW d \in Nat, Advance(d), run' = run,
         Latest' \in 0..MaxOp, \A t \in On : Sign(left[t]) - d >= -Latest',
         StepInv', pc' # "done" /\ pc' # "rt",
         run # NoTimer /\ run \notin On =>
           /\ RunLatest \in Nat /\ RunLatest' \in Nat
           /\ RunLatest + d <= RunLatest' /\ RunLatest' <= 2 * MaxOp
  PROVE  OInv' /\ Listed'
<1>1. /\ ListsInv /\ MaxOp \in Nat /\ ListTypes /\ \A u \in On : Sign(left[u]) \in Int
  BY OInvParts
<1>2. \A t \in On : Sign(left[t]) - d >= -MaxOp
  <2> HIDE DEF Latest, Sign
  <2>1. QED
    BY <1>1
<1>3. /\ Listed' /\ On' = On /\ list' = list
      /\ \A t \in On : Sign(left'[t]) = Sign(left[t]) - d
  BY <1>1, <1>2, AdvanceKeepsBound
<1>4. NoLater(Latest)'
  BY <1>3 DEF NoLater
<1>5. RunLate'
  <2> SUFFICES ASSUME run # NoTimer, run \notin On
               PROVE  (-left'[run]) % W <= RunLatest'
    BY <1>3 DEF RunLate, Late
  <2>1. run \in Timer /\ left \in [Timer -> 0..(W - 1)]
    BY <1>1, TInvParts DEF ControlTypes, ListTypes
  <2>2. Late(run) <= RunLatest /\ Late(run) \in 0..(W - 1)
    <3>1. -left[run] \in Int
      BY <2>1, WidthIs
    <3>2. Late(run) \in 0..(W - 1)
      BY <3>1, ModW DEF Late
    <3>3. QED
      BY <3>2 DEF OInv, RunLate
  <2>3. /\ RunLatest \in Nat /\ RunLatest' \in Nat
        /\ RunLatest + d <= RunLatest' /\ RunLatest' <= 2 * MaxOp /\ 2 * MaxOp < W
    BY TimerProportions
  <2> HIDE DEF RunLatest, Late
  <2>4. Late(run) + d < W /\ Late(run) + d <= RunLatest'
    BY <1>1, <2>2, <2>3, WidthIs
  <2>5. (-left'[run]) % W = Late(run) + d
    BY <2>1, <2>4, RunGetsLater
  <2>6. QED
    BY <2>4, <2>5
<1>6. QED
  BY <1>3, <1>4, <1>5 DEF OInv, Listed, Ahead

\* Steps of the loop that leave the timers as they are
LEMMA ControlStep ==
  ASSUME TInv, OInv, UNCHANGED timerVars, run' = run, StepInv',
         Latest' \in Int, Latest' >= Latest \/ \A t \in On : Sign(left[t]) >= -Latest',
         (Ahead)',
         run # NoTimer /\ run \notin On =>
           RunLatest \in Int /\ RunLatest' \in Int /\ RunLatest <= RunLatest'
  PROVE  OInv' /\ Listed'
<1>1. /\ ListsInv /\ Latest \in Int /\ ListTypes /\ MaxOp \in Nat
      /\ \A u \in On : Sign(left[u]) \in Int /\ Sign(left[u]) >= -Latest
  BY OInvParts
<1>2. /\ list' = list /\ left' = left /\ period' = period /\ clockspeed' = clockspeed
      /\ used' = used /\ On' = On
  BY DEF timerVars, On
<1>3. Listed'
  BY <1>1, <1>2 DEF ListsInv, Listed, ListTypes, NoRepeat, Apart, Ordered, Bounded
<1>4. NoLater(Latest)'
  <2> SUFFICES ASSUME NEW t \in On PROVE Sign(left[t]) >= -Latest'
    BY <1>2 DEF NoLater
  <2>1. Sign(left[t]) \in Int /\ Sign(left[t]) >= -Latest
    BY <1>1
  <2> HIDE DEF Sign, Latest
  <2>2. QED
    BY <1>1, <2>1
<1>5. RunLate'
  <2> SUFFICES ASSUME run # NoTimer, run \notin On PROVE Late(run) <= RunLatest'
    BY <1>2 DEF RunLate, Late
  <2>1. Late(run) <= RunLatest /\ RunLatest \in Int /\ RunLatest' \in Int
        /\ RunLatest <= RunLatest'
    BY DEF OInv, RunLate
  <2>2. Late(run) \in Int
    <3>1. run \in Timer
      BY TInvParts DEF ControlTypes
    <3>2. -left[run] \in Int
      BY <1>1, <3>1, WidthIs DEF ListTypes
    <3>3. QED
      BY <3>2, ModW, WidthIs DEF Late
  <2> HIDE DEF RunLatest, Late
  <2>3. QED
    BY <2>1, <2>2
<1>6. QED
  BY <1>3, <1>4, <1>5 DEF OInv, Listed

\* The first timer of a list is the earliest, and Due says whether its moment has
\* come.
LEMMA FirstIs ==
  ASSUME TInv, OInv, NEW k \in Kind, list[k] # <<>>
  PROVE  /\ list[k][1] \in ToSet(list[k]) /\ list[k][1] \in On /\ list[k][1] \in Timer
         /\ Sign(left[list[k][1]]) \in Int
         /\ \A u \in ToSet(list[k]) : Sign(left[u]) \in Int
                                      /\ Sign(left[list[k][1]]) <= Sign(left[u])
         /\ Due(list[k][1]) <=> Sign(left[list[k][1]]) <= 0
         /\ Due(list[k][1]) => Late(list[k][1]) = -Sign(left[list[k][1]])
         /\ ~Due(list[k][1]) => left[list[k][1]] = Sign(left[list[k][1]])
<1> DEFINE t == list[k][1]
<1>1. ListsInv /\ ListTypes
  BY OInvParts
<1>2. list[k] \in Seq(Timer)
  BY <1>1 DEF ListTypes
<1>3. Len(list[k]) \in Nat /\ 1 \in 1..Len(list[k]) /\ t \in ToSet(list[k])
  BY <1>2 DEF ToSet
<1>4. ToSet(list[k]) \subseteq On
  BY <1>1, OnIs
<1>5. t \in On /\ t \in Timer /\ Sign(left[t]) \in Fit /\ Sign(left[t]) \in Int
      /\ \A u \in ToSet(list[k]) : Sign(left[u]) \in Int
  BY <1>1, <1>3, <1>4, DistancesFit
<1>6. ASSUME NEW u \in ToSet(list[k]) PROVE Sign(left[t]) <= Sign(left[u])
  <2>1. PICK i \in 1..Len(list[k]) : u = list[k][i]
    BY <1>2 DEF ToSet
  <2>2. 1 <= i /\ InOrder(left, list[k])
    BY <1>1 DEF ListsInv, Ordered
  <2>3. QED
    BY <1>3, <2>1, <2>2 DEF InOrder
<1>7. /\ Signed(t) = Sign(left[t])
      /\ Signed(t) \in Fit => /\ Due(t) <=> Signed(t) <= 0
                              /\ Due(t) => Late(t) = -Signed(t)
                              /\ ~Due(t) => left[t] = Signed(t)
  BY <1>1, <1>5, SignedIs DEF ListTypes
<1> HIDE DEF t, Sign, Signed, Due, Late
<1>8. /\ Due(t) <=> Sign(left[t]) <= 0
      /\ Due(t) => Late(t) = -Sign(left[t])
      /\ ~Due(t) => left[t] = Sign(left[t])
  BY <1>5, <1>7
<1>9. QED
  BY <1>3, <1>5, <1>6, <1>8 DEF t

\* A timer that goes off is late by no more than the loop allows.
LEMMA FireIs ==
  ASSUME TInv, OInv, NEW k \in Kind, fire(k)
  PROVE  LET t == list[k][1] IN
         /\ t \in ToSet(list[k]) /\ t \in On /\ t \in Timer
         /\ timer_set(t, period[t], period[t], k, Late(t))
         /\ Late(t) \in 0..MaxOp /\ Late(t) <= Latest /\ Late(t) = -Sign(left[t])
         /\ Sign(left[t]) \in Int
         /\ Late(t) <= RunLatest
         /\ \A u \in ToSet(list[k]) : Sign(left[t]) <= Sign(left[u])
         /\ period[t] \in Period \cup {0}
<1> DEFINE t == list[k][1]
<1>1. /\ pc = k /\ list[k] # <<>> /\ Due(t)
      /\ timer_set(t, period[t], period[t], k, Late(t))
  BY DEF fire, FirstDue
<1>2. /\ t \in ToSet(list[k]) /\ t \in On /\ t \in Timer
      /\ Sign(left[t]) \in Int /\ Sign(left[t]) <= 0 /\ Late(t) = -Sign(left[t])
      /\ \A u \in ToSet(list[k]) : Sign(left[t]) <= Sign(left[u])
  BY <1>1, FirstIs
<1>3. /\ Latest \in 0..MaxOp /\ MaxOp \in Nat /\ spent \in Nat /\ Sign(left[t]) >= -Latest
      /\ ListTypes
  BY <1>2, OInvParts
<1>4. Late(t) \in 0..MaxOp /\ Late(t) <= Latest
  <2> HIDE DEF t, Late, Latest, Sign
  <2>1. QED
    BY <1>2, <1>3
<1>5. Latest <= RunLatest /\ RunLatest \in Int /\ Latest \in Int
  BY <1>1, <1>3 DEF Latest, RunLatest, Kind, InOp
<1>6. Late(t) <= RunLatest
  <2> HIDE DEF t, Late, Latest, RunLatest
  <2>1. QED
    BY <1>3, <1>4, <1>5
<1>7. period[t] \in Period \cup {0}
  BY <1>2, <1>3 DEF ListTypes
<1>8. QED
  BY <1>1, <1>2, <1>4, <1>6, <1>7

\* A halted Z80 goes on to the first timer, and no further.
Skips(d) == Advance(d) /\ \A t \in On : Sign(left[t]) - d >= 0

LEMMA HaltIs ==
  ASSUME TInv, OInv, halt
  PROVE  \E d \in 0..(W - 1) : Skips(d)
<1> DEFINE first == {left[list[k][1]] : k \in {j \in Kind : list[j] # <<>>}}
           t1 == CHOOSE n \in first : \A m \in first : n <= m
           d == t1 - (t1 % HaltStep)
<1>1. pc = "done" /\ On # {}
  BY DEF halt
<1>2. ListTypes /\ \A t \in On : Sign(left[t]) \in Int /\ Sign(left[t]) > 0
  BY <1>1, OInvParts DEF OInv, Ahead
<1>3. ASSUME NEW k \in Kind, list[k] # <<>>
      PROVE  /\ left[list[k][1]] \in 0..(W - 1) /\ left[list[k][1]] \in Nat
             /\ \A u \in ToSet(list[k]) : left[list[k][1]] <= Sign(left[u])
  <2> DEFINE t == list[k][1]
  <2>1. /\ t \in On /\ t \in Timer
        /\ \A u \in ToSet(list[k]) : Sign(left[t]) <= Sign(left[u])
        /\ Due(t) <=> Sign(left[t]) <= 0
        /\ ~Due(t) => left[t] = Sign(left[t])
    BY <1>3, FirstIs
  <2>2. ~Due(t)
    <3> HIDE DEF t, Due, Sign
    <3>1. QED
      BY <1>2, <2>1
  <2>3. left[t] \in 0..(W - 1) /\ left[t] \in Nat
    BY <1>2, <2>1, WidthIs DEF ListTypes
  <2>4. QED
    BY <2>1, <2>2, <2>3
<1>4. \A t \in On : \E k \in Kind : list[k] # <<>> /\ t \in ToSet(list[k])
  BY <1>2, OnIs DEF ToSet
<1>5. first \subseteq Nat /\ first \subseteq 0..(W - 1) /\ first # {}
  BY <1>1, <1>3, <1>4
<1>6. ASSUME NEW t \in On PROVE \E n \in first : n <= Sign(left[t])
  <2>1. PICK k \in Kind : list[k] # <<>> /\ t \in ToSet(list[k])
    BY <1>4
  <2>2. left[list[k][1]] \in first /\ left[list[k][1]] <= Sign(left[t])
    BY <1>3, <2>1
  <2>3. QED
    BY <2>2
<1>7. Advance(d)
  BY Zenon DEF halt
<1> HIDE DEF first
<1>8. t1 \in first /\ \A m \in first : t1 <= m
  <2>1. \E n \in first : \A m \in first : n <= m
    BY <1>5, LeastNat
  <2>2. QED
    BY <2>1
<1> HIDE DEF t1
<1>9. t1 \in Nat /\ t1 \in 0..(W - 1) /\ HaltStep \in Nat /\ HaltStep > 0
  BY <1>5, <1>8, TimerConstants
<1>10. t1 % HaltStep \in Nat /\ t1 % HaltStep <= t1
  BY <1>9
<1>11. d \in 0..(W - 1) /\ d <= t1
  BY <1>9, <1>10, WidthIs
<1> HIDE DEF d
<1>12. ASSUME NEW t \in On PROVE Sign(left[t]) - d >= 0
  <2>1. PICK n \in first : n <= Sign(left[t])
    BY <1>6
  <2>2. n \in Nat /\ t1 <= n /\ Sign(left[t]) \in Int
    BY <1>2, <1>5, <1>8
  <2>3. d \in Int
    BY <1>11, WidthIs
  <2> HIDE DEF Sign
  <2>4. QED
    BY <1>9, <1>11, <2>1, <2>2, <2>3
<1>13. Skips(d)
  BY <1>7, <1>12 DEF Skips
<1>14. QED
  BY <1>11, <1>13

LEMMA OInvInit == Init => OInv
<1> SUFFICES ASSUME Init PROVE OInv
  OBVIOUS
<1>1. \A k \in Kind : list[k] = <<>> /\ ToSet(list[k]) = {}
  BY DEF Init, ToSet
<1>2. On = {}
  BY DEF Init, On, Kind, ToSet
<1>3. Ordered
  <2> SUFFICES ASSUME NEW k \in Kind PROVE InOrder(left, list[k])
    BY DEF Ordered
  <2>1. \A i : i \notin 1..Len(<<>>)
    OBVIOUS
  <2>2. QED
    BY <1>1, <2>1 DEF InOrder
<1>4. Bounded /\ NoLater(Latest)
  BY <1>1, <1>2 DEF Bounded, NoLater
<1>5. Ahead /\ StepInv /\ RunLate
  BY DEF Init, Ahead, StepInv, RunLate, Kind
<1>6. QED
  BY <1>3, <1>4, <1>5 DEF OInv

\* What Call lets a caller do
Calls ==
  \/ \E n \in Count, p \in Period, k \in Kind : add_timer(n, p, k)
  \/ \E t \in used \ {run}, p \in Period, n \in Count \cup {0}, k \in Kind :
       set_timer(t, n, p, k)
  \/ \E t \in used \ {run}, p \in Period : set_timer_period(t, p)
  \/ \E t \in used \ (HwTimer \cup {run}) : remove_timer(t)
  \/ \E s \in Speed : set_speed(s)

LEMMA CallIs == Call => Callable /\ Calls /\ UNCHANGED controlVars
BY Zenon DEF Call, Calls

LEMMA CallStep == TInv /\ OInv /\ Call => OInv' /\ Listed'
<1> SUFFICES ASSUME TInv, OInv, Call PROVE OInv' /\ Listed'
  OBVIOUS
<1>1. /\ pc # "done" /\ (pc \in Kind => incall)
      /\ UNCHANGED <<pc, back, intr, incall, spent, run>> /\ Calls
  BY CallIs DEF Callable, controlVars, Kind, InOp, OInv, StepInv
<1>2. incall' => pc \in Kind
  BY <1>1 DEF OInv, StepInv
<1>3. /\ ListsInv /\ Latest \in 0..MaxOp /\ ListTypes /\ used \subseteq Timer /\ MaxOp \in Nat
  BY OInvParts
<1>4. 0 \in 0..MaxOp /\ 0 <= Latest
  BY <1>3
<1>5. CASE \E n \in Count, p \in Period, k \in Kind : add_timer(n, p, k)
  <2>1. PICK n \in Count, p \in Period, k \in Kind : add_timer(n, p, k)
    BY <1>5
  <2>2. /\ NewTimer \in Timer \ used /\ timer_set(NewTimer, n, p, k, 0)
        /\ clockspeed' = clockspeed
    BY <2>1 DEF add_timer, NewTimer, Free
  <2> HIDE DEF NewTimer
  <2>3. NewTimer # run
    BY <2>2, TInvParts, TimerConstants DEF RunInv
  <2>4. QED
    BY <1>1, <1>2, <1>4, <2>2, <2>3, SetStep
<1>6. CASE \E t \in used \ {run}, p \in Period, n \in Count \cup {0}, k \in Kind :
             set_timer(t, n, p, k)
  <2>1. PICK t \in used \ {run}, p \in Period, n \in Count \cup {0}, k \in Kind :
          set_timer(t, n, p, k)
    BY <1>6
  <2>2. timer_set(t, n, p, k, 0) /\ clockspeed' = clockspeed /\ t \in Timer /\ t # run
    BY <1>3, <2>1 DEF set_timer
  <2>3. QED
    BY <1>1, <1>2, <1>4, <2>2, SetStep
<1>7. CASE \E t \in used \ {run}, p \in Period : set_timer_period(t, p)
  <2>1. /\ UNCHANGED <<list, left, clockspeed>> /\ On' = On
        /\ period' \in [Timer -> Period \cup {0}]
    BY <1>3, <1>7 DEF set_timer_period, On, ListTypes
  <2>2. Listed'
    BY <1>3, <2>1 DEF ListsInv, Listed, ListTypes, NoRepeat, Apart, Ordered, Bounded
  <2>3. OInv'
    <3>1. Latest' = Latest /\ RunLatest' = RunLatest
      BY <1>1 DEF Latest, RunLatest, InCheckOfPort
    <3>2. NoLater(Latest)' /\ Ahead' /\ StepInv' /\ RunLate'
      BY <1>1, <2>1, <3>1 DEF OInv, NoLater, Ahead, StepInv, RunLate, Late
    <3>3. QED
      BY <2>2, <3>2 DEF OInv, Listed
  <2>4. QED
    BY <2>2, <2>3
<1>8. CASE \E t \in used \ (HwTimer \cup {run}) : remove_timer(t)
  <2>1. PICK t \in used \ (HwTimer \cup {run}) : remove_timer(t)
    BY <1>8
  <2>2. t \in Timer /\ t # run
    BY <1>3
  <2>3. StepInv'
    BY <1>1 DEF OInv, StepInv
  <2>4. QED
    BY <1>1, <2>1, <2>2, <2>3, RemoveStep
<1>9. CASE \E s \in Speed : set_speed(s)
  BY <1>1, <1>9, SpeedStep
<1>10. QED
  BY <1>1, <1>5, <1>6, <1>7, <1>8, <1>9 DEF Calls

LEMMA LoopStep ==
  TInv /\ OInv /\ (begin_op \/ stop \/ port_io \/ end_op \/ callback_return
                   \/ accept_interrupt \/ loop \/ \E k \in Kind : check_done(k))
  => OInv' /\ Listed'
<1> SUFFICES ASSUME TInv, OInv,
                    begin_op \/ stop \/ port_io \/ end_op \/ callback_return
                    \/ accept_interrupt \/ loop \/ \E k \in Kind : check_done(k)
             PROVE  OInv' /\ Listed'
  OBVIOUS
<1>1. UNCHANGED timerVars /\ run' = run /\ On' = On
  BY DEF begin_op, stop, port_io, end_op, callback_return, accept_interrupt,
         loop, check_done, timerVars, On
<1>2. /\ MaxOp \in Nat /\ spent \in 0..MaxOp /\ spent \in Nat /\ ControlTypes /\ StepInv
      /\ Latest \in 0..MaxOp /\ Ahead
      /\ \A t \in On : Sign(left[t]) \in Int /\ Sign(left[t]) >= -Latest
  BY OInvParts, TInvParts DEF OInv
<1> USE DEF StepInv, Latest, RunLatest, InCheckOfPort, Kind, InOp
<1>3. ASSUME StepInv', Latest' \in Int,
             Latest' >= Latest \/ \A t \in On : Sign(left[t]) >= -Latest', (Ahead)',
             run # NoTimer /\ run \notin On =>
               RunLatest \in Int /\ RunLatest' \in Int /\ RunLatest <= RunLatest'
      PROVE  OInv' /\ Listed'
  <2> HIDE DEF StepInv, Latest, RunLatest
  <2>1. QED
    BY <1>1, <1>3, ControlStep
<1>4. CASE begin_op
  <2>1. /\ pc = "next" /\ ~stopping /\ pc' = "op"
        /\ UNCHANGED <<timerVars, back, intr, incall, spent, run>>
    BY <1>4 DEF begin_op
  <2>2. ~(run # NoTimer /\ run \notin On)
    BY <2>1, TInvParts DEF RunInv, RunTimerSet
  <2>3. StepInv' /\ Latest' \in Int /\ Latest' >= Latest /\ Ahead'
    BY <1>2, <2>1 DEF Ahead
  <2>4. QED
    BY <1>3, <2>2, <2>3
<1>5. CASE stop \/ callback_return
  <2>1. /\ UNCHANGED <<timerVars, pc, back, intr, spent, run>>
        /\ incall' = incall \/ incall' = FALSE
    BY <1>5 DEF stop, callback_return
  <2>2. StepInv' /\ Latest' = Latest /\ RunLatest' = RunLatest
    BY <1>2, <2>1
  <2>3. Ahead'
    BY <1>2, <2>1 DEF Ahead, timerVars, On
  <2>4. Latest \in Int /\ RunLatest \in Int
    BY <1>2 DEF ControlTypes
  <2>5. QED
    BY <1>3, <2>2, <2>3, <2>4
<1>6. CASE port_io
  <2>1. /\ pc = "op" /\ pc' = "cpu" /\ back' = "op2"
        /\ UNCHANGED <<timerVars, intr, incall, spent, run>>
    BY <1>6 DEF port_io, begin_check
  <2>2. StepInv' /\ Latest' = Latest /\ RunLatest' = RunLatest /\ Ahead'
    BY <1>2, <2>1 DEF Ahead
  <2>3. Latest \in Int /\ RunLatest \in Int
    BY <1>2 DEF ControlTypes
  <2>4. QED
    BY <1>3, <2>2, <2>3
<1>7. CASE end_op
  <2>1. /\ pc \in {"op", "op2"} /\ pc' = "cpu"
        /\ back' = (IF intr THEN "next" ELSE "done") /\ intr' = FALSE /\ spent' = 0
        /\ UNCHANGED <<timerVars, incall, run>>
    BY <1>7 DEF end_op, begin_check
  <2>2. StepInv' /\ Latest' = MaxOp /\ Latest = spent /\ Ahead'
    BY <1>2, <2>1 DEF Ahead
  <2>3. RunLatest \in Int /\ RunLatest' \in Int /\ RunLatest <= RunLatest'
    BY <1>2, <2>1 DEF ControlTypes
  <2>4. Latest' \in Int /\ Latest' >= Latest
    BY <1>2, <2>2
  <2>5. QED
    BY <1>3, <2>2, <2>3, <2>4
<1>8. CASE accept_interrupt
  <2>1. /\ pc = "done" /\ pc' = "op" /\ intr' = TRUE
        /\ UNCHANGED <<timerVars, back, incall, spent, run>>
    BY <1>8 DEF accept_interrupt
  <2>2. /\ StepInv' /\ Latest' = 0 /\ Latest = 0 /\ Ahead'
        /\ RunLatest = MaxOp /\ RunLatest' = MaxOp
    BY <1>2, <2>1 DEF Ahead
  <2>3. QED
    BY <1>2, <1>3, <2>2
<1>9. CASE loop
  <2>1. /\ pc = "done" /\ pc' = "next"
        /\ UNCHANGED <<timerVars, back, intr, incall, spent, run>>
    BY <1>9 DEF loop
  <2>2. /\ StepInv' /\ Latest' = 0 /\ Latest = 0 /\ Ahead'
        /\ RunLatest = MaxOp /\ RunLatest' = 2 * MaxOp
    BY <1>2, <2>1 DEF Ahead
  <2>3. QED
    BY <1>2, <1>3, <2>2
<1>10. CASE \E k \in Kind : check_done(k)
  <2>1. PICK k \in Kind : check_done(k)
    BY <1>10
  <2>2. /\ pc = k /\ ~incall /\ ~FirstDue(k) /\ pc' = (IF k = "cpu" THEN "rt" ELSE back)
        /\ UNCHANGED <<timerVars, back, intr, incall, spent, run>>
    BY <2>1 DEF check_done
  <2>3. ASSUME NEW u \in ToSet(list[k]) PROVE Sign(left[u]) > 0
    <3>1. list[k] # <<>>
      BY DEF ToSet
    <3> DEFINE t == list[k][1]
    <3>2. /\ Sign(left[t]) \in Int /\ Sign(left[u]) \in Int /\ Sign(left[t]) <= Sign(left[u])
          /\ Due(t) <=> Sign(left[t]) <= 0
      BY <3>1, FirstIs
    <3>3. ~Due(t)
      BY <2>2, <3>1 DEF FirstDue
    <3> HIDE DEF t, Sign, Due
    <3>4. QED
      BY <3>2, <3>3
  <2>4. CASE k = "cpu"
    <3>1. pc = "cpu" /\ pc' = "rt"
      BY <2>2, <2>4
    <3>2. Ahead'
      BY <2>2, <2>3, <2>4, <3>1 DEF Ahead, timerVars
    <3>3. StepInv' /\ Latest' = Latest /\ RunLatest' = RunLatest
      BY <1>2, <2>2, <3>1
    <3>4. Latest \in Int /\ RunLatest \in Int
      BY <1>2 DEF ControlTypes
    <3>5. QED
      BY <1>3, <3>2, <3>3, <3>4
  <2>5. CASE k = "rt"
    <3>1. pc = "rt" /\ pc' = back /\ back \in {"op2", "done", "next"}
      BY <1>2, <2>2, <2>5 DEF ControlTypes
    <3>2. \A t \in On : Sign(left[t]) > 0
      BY <1>2, <2>3, <2>5, <3>1 DEF On, Ahead
    <3>3. Ahead'
      BY <1>1, <2>2, <3>1, <3>2 DEF Ahead, timerVars
    <3>4. /\ StepInv' /\ Latest' \in Int /\ Latest' >= 0
          /\ RunLatest \in Int /\ RunLatest' \in Int /\ RunLatest <= RunLatest'
      BY <1>2, <2>2, <3>1 DEF ControlTypes
    <3>5. \A t \in On : Sign(left[t]) >= -Latest'
      <4> HIDE DEF Latest, Sign
      <4>1. QED
        BY <1>2, <3>2, <3>4
    <3>6. QED
      BY <1>3, <3>3, <3>4, <3>5
  <2>6. QED
    BY <2>4, <2>5
<1>11. QED
  BY <1>4, <1>5, <1>6, <1>7, <1>8, <1>9, <1>10

LEMMA RunBeginStep == TInv /\ OInv /\ run_begin => OInv' /\ Listed'
<1> SUFFICES ASSUME TInv, OInv, run_begin PROVE OInv' /\ Listed'
  OBVIOUS
<1>1. PICK n \in Count, k \in Kind : add_timer(n, 0, k)
  BY DEF run_begin
<1>2. /\ pc = "idle" /\ run' = NewTimer /\ pc' = "next"
      /\ UNCHANGED <<back, intr, incall, spent>>
  BY DEF run_begin
<1>3. /\ NewTimer \in Timer \ used /\ timer_set(NewTimer, n, 0, k, 0)
      /\ clockspeed' = clockspeed
  BY <1>1 DEF add_timer, NewTimer, Free
<1> HIDE DEF NewTimer
<1>4. /\ ListsInv /\ Latest \in 0..MaxOp /\ MaxOp \in Nat /\ ListTypes
      /\ \A u \in On : Sign(left[u]) \in Int /\ Sign(left[u]) >= -Latest
      /\ 0 \in 0..MaxOp /\ n \in Nat /\ n > 0
  BY OInvParts, SpeedIs, TimerConstants
<1>5. /\ Listed' /\ On' = On \cup {NewTimer}
      /\ \A j \in Kind : \A u \in ToSet(list'[j]) :
           \/ u \in ToSet(list[j]) /\ u # NewTimer /\ Sign(left'[u]) = Sign(left[u])
           \/ /\ Sign(left'[u]) = Clocks(n, k) - 0 /\ Clocks(n, k) \in Nat
  BY <1>3, <1>4, SetKeepsBound
<1>6. Latest = 0 /\ Latest' = 0
  BY <1>2 DEF Latest, InCheckOfPort, Kind, InOp
<1>7. NoLater(Latest)'
  <2> SUFFICES ASSUME NEW u \in On' PROVE Sign(left'[u]) >= -0
    BY <1>6 DEF NoLater
  <2>1. PICK j \in Kind : u \in ToSet(list'[j])
    BY <1>5, OnIs DEF Listed
  <2>2. CASE u \in ToSet(list[j]) /\ Sign(left'[u]) = Sign(left[u])
    <3>1. u \in On
      BY <1>4, <2>2, OnIs
    <3>2. QED
      BY <1>4, <1>6, <2>2, <3>1
  <2>3. CASE Sign(left'[u]) = Clocks(n, k) - 0 /\ Clocks(n, k) \in Nat
    <3> HIDE DEF Sign, Clocks
    <3>1. QED
      BY <2>3
  <2>4. QED
    BY <1>5, <2>1, <2>2, <2>3
<1>8. StepInv'
  BY <1>2 DEF OInv, StepInv, Kind
<1>9. Ahead' /\ RunLate'
  BY <1>2, <1>5 DEF Ahead, RunLate
<1>10. QED
  BY <1>5, <1>7, <1>8, <1>9 DEF OInv, Listed

LEMMA DelayStep == TInv /\ OInv /\ delay => OInv' /\ Listed'
<1> SUFFICES ASSUME TInv, OInv, delay PROVE OInv' /\ Listed'
  OBVIOUS
<1>1. PICK d \in 1..(MaxOp - spent) : Advance(d) /\ spent' = spent + d
  BY DEF delay
<1>2. pc \in InOp /\ UNCHANGED <<pc, back, intr, incall, run>>
  BY DEF delay
<1>3. /\ MaxOp \in Nat /\ spent \in 0..MaxOp /\ spent \in Nat
      /\ \A t \in On : Sign(left[t]) \in Int /\ Sign(left[t]) >= -Latest
  BY OInvParts
<1>4. d \in Nat /\ spent' \in 0..MaxOp /\ Latest = spent /\ Latest' = spent + d
      /\ intr \in BOOLEAN
  BY <1>1, <1>2, <1>3, TInvParts DEF Latest, ControlTypes
<1>5. \A t \in On : Sign(left[t]) - d >= -Latest'
  <2> HIDE DEF Latest, Sign
  <2>1. QED
    BY <1>3, <1>4
<1>6. StepInv'
  BY <1>2 DEF OInv, StepInv, Kind, InOp
<1>7. /\ RunLatest \in Nat /\ RunLatest' \in Nat
      /\ RunLatest + d <= RunLatest' /\ RunLatest' <= 2 * MaxOp
  BY <1>1, <1>2, <1>3, <1>4 DEF RunLatest
<1>8. pc' # "done" /\ pc' # "rt" /\ Latest' \in 0..MaxOp
  BY <1>1, <1>2, <1>3, <1>4 DEF InOp
<1>9. QED
  BY <1>1, <1>2, <1>4, <1>5, <1>6, <1>7, <1>8, AdvanceStep

LEMMA HaltKeeps == TInv /\ OInv /\ halt => OInv' /\ Listed'
<1> SUFFICES ASSUME TInv, OInv, halt PROVE OInv' /\ Listed'
  OBVIOUS
<1>1. PICK d \in 0..(W - 1) : Skips(d)
  BY HaltIs
<1>2. /\ pc = "done" /\ ~stopping /\ pc' = "cpu" /\ back' = "next"
      /\ UNCHANGED <<intr, incall, spent, run>>
  BY DEF halt, begin_check
<1>3. /\ MaxOp \in Nat /\ \A t \in On : Sign(left[t]) \in Int
  BY OInvParts
<1>4. d \in Nat /\ Latest' = MaxOp /\ Latest' \in 0..MaxOp
  BY <1>2, <1>3, WidthIs DEF Latest, InCheckOfPort, Kind, InOp
<1>5. Advance(d) /\ \A t \in On : Sign(left[t]) - d >= 0
  BY <1>1 DEF Skips
<1>6. \A t \in On : Sign(left[t]) - d >= -Latest'
  <2> HIDE DEF Latest, Sign
  <2>1. QED
    BY <1>3, <1>4, <1>5
<1>7. StepInv'
  BY <1>2 DEF OInv, StepInv, Kind
<1>8. ~(run # NoTimer /\ run \notin On)
  BY <1>2, TInvParts DEF RunInv, RunTimerSet
<1>9. QED
  BY <1>2, <1>4, <1>5, <1>6, <1>7, <1>8, AdvanceStep

LEMMA FireStep == TInv /\ OInv /\ (\E k \in Kind : fire(k)) => OInv' /\ Listed'
<1> SUFFICES ASSUME TInv, OInv, NEW k \in Kind, fire(k) PROVE OInv' /\ Listed'
  OBVIOUS
<1> DEFINE t == list[k][1]
<1>1. /\ t \in Timer /\ timer_set(t, period[t], period[t], k, Late(t))
      /\ Late(t) \in 0..MaxOp /\ Late(t) <= Latest /\ Late(t) <= RunLatest
      /\ period[t] \in Period \cup {0}
  BY FireIs
<1>2. /\ pc = k /\ pc # "done" /\ clockspeed' = clockspeed
      /\ UNCHANGED <<pc, back, intr, spent, run>>
  BY DEF fire, Kind
<1>3. t # run \/ Late(run) <= RunLatest
  BY <1>1
<1> HIDE DEF t
<1>4. QED
  BY <1>1, <1>2, <1>3, SetStep

LEMMA StutterKeeps == TInv /\ OInv /\ UNCHANGED vars => OInv' /\ Listed'
<1> SUFFICES ASSUME TInv, OInv, UNCHANGED vars PROVE OInv' /\ Listed'
  OBVIOUS
<1>1. UNCHANGED timerVars /\ UNCHANGED controlVars
  BY DEF vars
<1>2. /\ UNCHANGED <<list, left, period, used, clockspeed>>
      /\ UNCHANGED <<pc, back, intr, incall, spent, run>> /\ On' = On
  BY <1>1 DEF timerVars, controlVars, On
<1>3. ListsInv
  BY OInvParts
<1>4. Listed'
  BY <1>2, <1>3 DEF ListsInv, Listed, ListTypes, NoRepeat, Apart, Ordered, Bounded
<1>5. Latest' = Latest /\ RunLatest' = RunLatest
  BY <1>2 DEF Latest, RunLatest, InCheckOfPort
<1>6. NoLater(Latest)' /\ Ahead' /\ StepInv' /\ RunLate'
  BY <1>2, <1>5 DEF OInv, NoLater, Ahead, StepInv, RunLate, Late
<1>7. QED
  BY <1>4, <1>6 DEF OInv, Listed

LEMMA OInvStep == TInv /\ OInv /\ [Next]_vars => OInv'
<1> SUFFICES ASSUME TInv, OInv, [Next]_vars PROVE OInv'
  OBVIOUS
<1>1. /\ MaxOp \in Nat /\ spent \in 0..MaxOp /\ spent \in Nat /\ ControlTypes /\ StepInv
      /\ Latest \in 0..MaxOp /\ used \subseteq Timer
      /\ \A t \in On : Sign(left[t]) \in Int /\ Sign(left[t]) >= -Latest
  BY OInvParts, TInvParts DEF OInv
<1>2. CASE Call
  BY <1>2, CallStep
<1>3. CASE begin_op \/ stop \/ port_io \/ end_op \/ callback_return
           \/ accept_interrupt \/ loop \/ \E k \in Kind : check_done(k)
  BY <1>3, LoopStep
<1>4. CASE run_begin
  BY <1>4, RunBeginStep
<1>5. CASE run_end
  <2>1. /\ pc = "next" /\ remove_timer(run) /\ run' = NoTimer /\ pc' = "idle"
        /\ UNCHANGED <<back, intr, incall, spent>>
    BY <1>5 DEF run_end
  <2>2. run \in Timer
    BY <1>1, <2>1, TInvParts DEF RunInv
  <2>3. StepInv'
    BY <1>1, <2>1 DEF StepInv, Kind
  <2>4. QED
    BY <2>1, <2>2, <2>3, RemoveStep
<1>6. CASE delay
  BY <1>6, DelayStep
<1>7. CASE halt
  BY <1>7, HaltKeeps
<1>8. CASE \E k \in Kind : fire(k)
  BY <1>8, FireStep
<1>9. CASE UNCHANGED vars
  BY <1>9, StutterKeeps
<1>10. QED
  BY <1>2, <1>3, <1>4, <1>5, <1>6, <1>7, <1>8, <1>9 DEF Next, core

LEMMA OInvAlways == Spec => [](TInv /\ OInv)
<1>1. Init => TInv /\ OInv
  BY TInvInit, OInvInit
<1>2. TInv /\ OInv /\ [Next]_vars => TInv' /\ OInv'
  BY TInvStep, OInvStep
<1>3. QED
  BY <1>1, <1>2, PTL DEF Spec

\* The first timer of each list is the next to go off, and its distance from the
\* clock can be told: no timer is passed over or taken for one that is late
\* (emu/z80.c:91-125,652-690).
THEOREM TimersStayInOrder == Spec => []TimersInOrder
<1>1. TInv /\ OInv => TimersInOrder
  <2> SUFFICES ASSUME TInv, OInv PROVE ListsSorted /\ NoneForgotten
    BY DEF TimersInOrder
  <2>1. ListsInv /\ ListTypes
    BY OInvParts
  <2>2. NoneForgotten
    BY <2>1, BoundedIs DEF ListsInv
  <2>3. ASSUME NEW k \in Kind, NEW i \in 2..Len(list[k])
        PROVE  ~timer_earlier(left, list[k][i], list[k][i - 1])
    <3>1. list[k] \in Seq(Timer) /\ InOrder(left, list[k]) /\ left \in [Timer -> 0..(W - 1)]
      BY <2>1 DEF ListTypes, ListsInv, Ordered
    <3>2. i \in 1..Len(list[k]) /\ i - 1 \in 1..Len(list[k]) /\ i - 1 <= i
      BY <3>1
    <3> DEFINE t == list[k][i]
               u == list[k][i - 1]
    <3>3. t \in ToSet(list[k]) /\ u \in ToSet(list[k])
      BY <3>1, <3>2 DEF ToSet
    <3>4. t \in On /\ u \in On
      BY <2>1, <3>3, OnIs
    <3>5. /\ t \in Timer /\ Sign(left[t]) \in Fit /\ Sign(left[t]) \in Int
          /\ u \in Timer /\ Sign(left[u]) \in Fit /\ Sign(left[u]) \in Int
      BY <2>1, <3>4, DistancesFit
    <3>6. Sign(left[u]) <= Sign(left[t])
      BY <3>1, <3>2 DEF InOrder
    <3> HIDE DEF t, u
    <3>7. timer_earlier(left, t, u) <=> Sign(left[t]) < Sign(left[u])
      BY <3>1, <3>5, EarlierIs
    <3> HIDE DEF Sign
    <3>8. ~timer_earlier(left, t, u)
      BY <3>5, <3>6, <3>7
    <3>9. QED
      BY <3>8 DEF t, u
  <2>4. QED
    BY <2>2, <2>3 DEF ListsSorted
<1>2. QED
  BY <1>1, OInvAlways, PTL

\* A run that its own timer ends is not later than the rest of the instruction and
\* the acceptance of an interrupt (emu/z80.c:973-991).
THEOREM RunsEndInTime == Spec => RunEndsInTime
<1>1. TInv /\ OInv /\ [Next]_vars => [run_end /\ run \notin On => Late(run) <= 2 * MaxOp]_vars
  <2> SUFFICES ASSUME TInv, OInv, run_end, run \notin On PROVE Late(run) <= 2 * MaxOp
    OBVIOUS
  <2>1. pc = "next" /\ run # NoTimer
    BY TInvParts DEF run_end, RunInv
  <2>2. RunLatest = 2 * MaxOp
    BY <2>1 DEF RunLatest, InCheckOfPort, Kind, InOp
  <2>3. QED
    BY <2>1, <2>2 DEF OInv, RunLate
<1>2. QED
  BY <1>1, OInvAlways, PTL DEF Spec, RunEndsInTime

-----------------------------------------------------------------------------
(***************************************************************************)
(* The lists implement TimerSet.                                            *)
(***************************************************************************)
AbsOn == [k \in Kind |-> ToSet(list[k])]
AbsDue == [t \in Timer |-> IF t \in On THEN Signed(t) ELSE 0]
AbsPeriod == [t \in Timer |-> IF t \in On THEN period[t] ELSE 0]

\* TimerSet's operators over the timers of the lists
LEMMA AbsIs ==
  /\ Abs!Kind = Kind /\ Abs!On = On
  /\ Abs!vars = <<AbsOn, AbsDue, AbsPeriod, clockspeed>>
  /\ \A n, k : Abs!Clocks(n, k) = Clocks(n, k)
  /\ \A t \in On : t \in Timer => AbsDue[t] = Sign(left[t]) /\ AbsPeriod[t] = period[t]
  /\ AbsOn["cpu"] = ToSet(list["cpu"]) /\ AbsOn["rt"] = ToSet(list["rt"])
<1>1. \A t \in On : t \in Timer => AbsDue[t] = Sign(left[t]) /\ AbsPeriod[t] = period[t]
  BY SignedDef DEF AbsDue, AbsPeriod
<1>2. QED
  BY <1>1 DEF Abs!Kind, Abs!On, Abs!vars, Abs!Clocks, Kind, On, Clocks, AbsOn, AbsDue, AbsPeriod

LEMMA AbsNext ==
  ASSUME \/ \E t \in Timer, k \in Kind : Abs!Fire(t, k)
         \/ \E t \in Timer, k \in Kind, n \in Count, p \in Period \cup {0} :
              Abs!Set(t, k, n, p)
         \/ \E t \in Timer : Abs!Unset(t)
         \/ \E t \in Timer, p \in Period : Abs!SetPeriod(t, p)
         \/ \E d \in 1..W : Abs!Pass(d)
         \/ \E s \in Speed : Abs!SetSpeed(s)
  PROVE  Abs!Next(Count, Period \cup {0}, Speed, 1..W)
BY Zenon, AbsIs DEF Abs!Next

\* Setting a timer
LEMMA SetImplements ==
  ASSUME TInv, OInv, NEW t \in Timer, NEW n \in Count, NEW p \in Period \cup {0},
         NEW k \in Kind, timer_set(t, n, p, k, 0), clockspeed' = clockspeed
  PROVE  Abs!Set(t, k, n, p)
<1>1. ListsInv /\ MaxOp \in Nat /\ n # 0 /\ n \in Nat /\ ListTypes /\ On \subseteq Timer
  BY OInvParts, TimerConstants
<1>2. /\ SetTo(t, n, p, k, 0) /\ On' = On \cup {t}
  BY <1>1, SetKeepsBound
<1>3. Clocks(n, k) \in Nat /\ Sign(left'[t]) = Clocks(n, k)
  <2>1. n \in Count \cup Period /\ Sign(left'[t]) = Clocks(n, k) - 0
    BY <1>1, <1>2 DEF SetTo
  <2>2. Clocks(n, k) \in Nat
    BY <1>1, <2>1, ClocksWithin DEF ListsInv
  <2> HIDE DEF Clocks, Sign
  <2>3. QED
    BY <2>1, <2>2
<1>4. AbsOn' = [j \in Kind |-> IF j = k THEN AbsOn[j] \cup {t} ELSE AbsOn[j] \ {t}]
  BY <1>1, <1>2 DEF SetTo, AbsOn
<1>5. AbsDue' = [AbsDue EXCEPT ![t] = Clocks(n, k)]
  <2>1. \A u \in Timer : Signed(u)' = IF u = t THEN Clocks(n, k) ELSE Signed(u)
    BY <1>2, <1>3, SignedDef DEF SetTo
  <2>2. QED
    BY <1>2, <2>1 DEF AbsDue
<1>6. AbsPeriod' = [AbsPeriod EXCEPT ![t] = p]
  BY <1>1, <1>2 DEF SetTo, AbsPeriod, ListTypes
<1>7. QED
  BY <1>4, <1>5, <1>6, AbsIs DEF Abs!Set, AbsOn, AbsDue, AbsPeriod

\* Taking a timer out of its list, if it is in one
LEMMA UnsetImplements ==
  ASSUME ListTypes, NEW t \in Timer, clockspeed' = clockspeed,
         \A j \in Kind : ToSet(list'[j]) = ToSet(list[j]) \ {t},
         \A u \in Timer \ {t} : left'[u] = left[u] /\ period'[u] = period[u]
  PROVE  Abs!Unset(t)
<1>1. On' = On \ {t} /\ On \subseteq Timer
  BY OnIs DEF On, Kind
<1>2. AbsOn' = [j \in Kind |-> AbsOn[j] \ {t}]
  BY DEF AbsOn
<1>3. \A u \in Timer \ {t} : Signed(u)' = Signed(u)
  BY SignedDef
<1>4. AbsDue' = [AbsDue EXCEPT ![t] = 0]
  BY <1>1, <1>3 DEF AbsDue
<1>5. AbsPeriod' = [AbsPeriod EXCEPT ![t] = 0]
  BY <1>1 DEF AbsPeriod
<1>6. QED
  BY <1>2, <1>4, <1>5, AbsIs DEF Abs!Unset, AbsOn, AbsDue, AbsPeriod

\* A new period does not move the timer; that of a timer that is off is not seen.
LEMMA PeriodImplements ==
  ASSUME ListTypes, NEW t \in Timer, NEW p \in Period, set_timer_period(t, p)
  PROVE  Abs!SetPeriod(t, p) \/ UNCHANGED Abs!vars
<1>1. /\ list' = list /\ left' = left /\ clockspeed' = clockspeed /\ On' = On
      /\ period' = [period EXCEPT ![t] = p]
  BY DEF set_timer_period, On
<1>2. AbsOn' = AbsOn
  BY <1>1 DEF AbsOn
<1>3. AbsDue' = AbsDue
  BY <1>1, SignedDef DEF AbsDue
<1>4. CASE t \in On
  <2>1. AbsPeriod' = [AbsPeriod EXCEPT ![t] = p]
    BY <1>1, <1>4 DEF AbsPeriod, ListTypes
  <2>2. QED
    BY <1>1, <1>2, <1>3, <1>4, <2>1, AbsIs DEF Abs!SetPeriod, AbsOn, AbsDue, AbsPeriod
<1>5. CASE t \notin On
  <2>1. AbsPeriod' = AbsPeriod
    BY <1>1, <1>5 DEF AbsPeriod, ListTypes
  <2>2. QED
    BY <1>1, <1>2, <1>3, <2>1 DEF Abs!vars, AbsOn, AbsDue, AbsPeriod
<1>6. QED
  BY <1>4, <1>5

\* The first timer that is due goes off, and its lateness is made up for.
LEMMA FireImplements ==
  ASSUME TInv, OInv, NEW k \in Kind, fire(k)
  PROVE  \E t \in Timer : Abs!Fire(t, k)
<1>0. PICK t \in Timer, p \in Period \cup {0} : t = list[k][1] /\ p = period[t]
  BY FireIs
<1>1. /\ t \in ToSet(list[k]) /\ t \in On
      /\ timer_set(t, p, p, k, Late(t))
      /\ Late(t) \in 0..MaxOp /\ Late(t) = -Sign(left[t]) /\ Sign(left[t]) \in Int
      /\ \A u \in ToSet(list[k]) : Sign(left[t]) <= Sign(left[u])
  BY <1>0, FireIs
<1>2. clockspeed' = clockspeed
  BY DEF fire
<1>3. ListsInv /\ ListTypes /\ On \subseteq Timer /\ \A j \in Kind : ToSet(list[j]) \subseteq On
  BY OInvParts, OnIs
<1>4. p \in Count \cup Period \cup {0}
  BY <1>1
<1>5. /\ SetTo(t, p, p, k, Late(t))
      /\ On' = IF p = 0 THEN On \ {t} ELSE On \cup {t}
  BY <1>1, <1>2, <1>3, <1>4, SetKeepsBound
<1>6. \A j \in Kind : j # k => t \notin ToSet(list[j])
  BY <1>1, <1>3 DEF ListsInv, Apart, Kind
<1>7. AbsOn' = [AbsOn EXCEPT ![k] = IF p = 0 THEN @ \ {t} ELSE @]
  <2> DEFINE on == IF p = 0 THEN AbsOn[k] \ {t} ELSE AbsOn[k]
  <2>1. AbsOn[k] = ToSet(list[k])
    BY DEF AbsOn
  <2>2. \A j \in Kind : ToSet(list'[j]) = IF j = k THEN on ELSE ToSet(list[j])
    <3>1. ToSet(list'[k]) = on
      <4>1. ToSet(list'[k]) = IF p # 0 THEN ToSet(list[k]) \cup {t} ELSE ToSet(list[k]) \ {t}
        BY <1>5 DEF SetTo
      <4>2. CASE p = 0
        BY <2>1, <4>1, <4>2
      <4>3. CASE p # 0
        <5>1. ToSet(list[k]) \cup {t} = ToSet(list[k])
          BY <1>1
        <5>2. QED
          BY <2>1, <4>1, <4>3, <5>1
      <4>4. QED
        BY <4>2, <4>3
    <3>2. ASSUME NEW j \in Kind, j # k PROVE ToSet(list'[j]) = ToSet(list[j])
      <4>1. t \notin ToSet(list[j]) /\ ToSet(list'[j]) = ToSet(list[j]) \ {t}
        BY <1>5, <1>6, <3>2 DEF SetTo
      <4>2. QED
        BY <4>1
    <3>3. QED
      BY <3>1, <3>2
  <2>3. AbsOn' = [AbsOn EXCEPT ![k] = on]
    <3> HIDE DEF on
    <3>1. QED
      BY <2>2 DEF AbsOn
  <2>4. QED
    BY <2>3
<1>8. AbsDue' = [AbsDue EXCEPT ![t] = IF p = 0 THEN 0 ELSE @ + Clocks(p, k)]
  <2>1. \A u \in Timer \ {t} : Signed(u)' = Signed(u)
    BY <1>5, SignedDef DEF SetTo
  <2>2. Signed(t) = Sign(left[t]) /\ (p # 0 => Signed(t)' = Signed(t) + Clocks(p, k))
    <3>1. Signed(t) = Sign(left[t]) /\ Signed(t)' = Sign(left'[t])
      BY <1>1, SignedDef
    <3>2. ASSUME p # 0 PROVE Sign(left'[t]) = Clocks(p, k) - Late(t) /\ Clocks(p, k) \in Nat
      BY <1>1, <1>3, <1>5, <3>2, ClocksWithin DEF SetTo, ListsInv
    <3>3. ASSUME p # 0 PROVE Sign(left'[t]) = Sign(left[t]) + Clocks(p, k)
      <4> HIDE DEF Sign, Clocks, Late
      <4>1. QED
        BY <1>1, <3>2, <3>3
    <3>4. QED
      BY <3>1, <3>3
  <2>3. QED
    BY <1>1, <1>5, <2>1, <2>2 DEF AbsDue
<1>9. AbsPeriod' = AbsPeriod
  BY <1>0, <1>1, <1>3, <1>5 DEF SetTo, AbsPeriod, ListTypes
<1>10. /\ t \in AbsOn[k] /\ AbsDue[t] <= 0 /\ AbsPeriod[t] = p
       /\ \A u \in AbsOn[k] : AbsDue[t] <= AbsDue[u]
  <2>1. AbsDue[t] = Sign(left[t]) /\ AbsPeriod[t] = p
    BY <1>0, <1>1, AbsIs
  <2>2. Sign(left[t]) <= 0
    <3> HIDE DEF Sign, Late
    <3>1. MaxOp \in Nat
      BY WidthIs
    <3>2. QED
      BY <1>1, <3>1
  <2>3. \A u \in AbsOn[k] : AbsDue[u] = Sign(left[u]) /\ u \in ToSet(list[k])
    BY <1>3, AbsIs DEF AbsOn
  <2>4. QED
    BY <1>1, <2>1, <2>2, <2>3 DEF AbsOn
<1>11. Abs!Fire(t, k)
  BY <1>2, <1>7, <1>8, <1>9, <1>10, AbsIs DEF Abs!Fire, AbsOn, AbsDue, AbsPeriod
<1>12. QED
  BY <1>1, <1>11

\* The clock goes on, by no more than what leaves every timer in time.
LEMMA PassImplements ==
  ASSUME TInv, OInv, NEW d \in 0..W, Advance(d),
         \A t \in On : Sign(left[t]) - d >= -MaxOp
  PROVE  (\E e \in 1..W : Abs!Pass(e)) \/ UNCHANGED Abs!vars
<1>1. ListsInv /\ d \in Nat /\ On \subseteq Timer /\ MaxOp \in Nat /\ MaxOp < Slack
      /\ \A t \in On : Sign(left[t]) \in Int
  BY OInvParts, OnIs, WidthIs, TimerProportions
<1>2. /\ On' = On /\ list' = list
      /\ \A t \in On : Sign(left'[t]) = Sign(left[t]) - d
  BY <1>1, AdvanceKeepsBound
<1>3. period' = period /\ clockspeed' = clockspeed
  BY DEF Advance
<1>4. AbsOn' = AbsOn /\ AbsPeriod' = AbsPeriod
  BY <1>2, <1>3 DEF AbsOn, AbsPeriod
<1>5. \A t \in On : Signed(t)' = Signed(t) - d /\ Signed(t) = Sign(left[t])
  BY <1>1, <1>2, SignedDef
<1>6. AbsDue' = [t \in Timer |-> IF t \in On THEN AbsDue[t] - d ELSE 0]
  BY <1>2, <1>5 DEF AbsDue
<1>7. CASE d = 0
  <2>1. \A t \in On : Signed(t) - d = Signed(t)
    <3> HIDE DEF Signed, Sign
    <3>1. QED
      BY <1>1, <1>5, <1>7
  <2>2. AbsDue' = AbsDue
    BY <1>2, <1>5, <2>1 DEF AbsDue
  <2>3. QED
    BY <1>3, <1>4, <2>2 DEF Abs!vars, AbsOn, AbsDue, AbsPeriod
<1>8. CASE d # 0
  <2>1. d \in 1..W
    BY <1>1, <1>8, WidthIs
  <2>2. ASSUME NEW t \in On PROVE AbsDue[t] - d > -Slack
    <3>1. AbsDue[t] = Sign(left[t])
      BY <1>1, AbsIs
    <3> HIDE DEF Sign, AbsDue
    <3>2. Sign(left[t]) \in Int /\ Sign(left[t]) - d >= -MaxOp
      BY <1>1
    <3>3. QED
      BY <1>1, <3>1, <3>2, WidthIs
  <2>3. Abs!Pass(d)
    BY <1>3, <1>4, <1>6, <2>2, AbsIs DEF Abs!Pass, AbsOn, AbsDue, AbsPeriod
  <2>4. QED
    BY <2>1, <2>3
<1>9. QED
  BY <1>7, <1>8

\* Real time keeps its pace.
LEMMA SpeedImplements ==
  ASSUME TInv, OInv, NEW s \in Speed, set_speed(s)
  PROVE  Abs!SetSpeed(s)
<1>1. ListsInv /\ On \subseteq Timer /\ ToSet(list["rt"]) \subseteq On
  BY OInvParts, OnIs DEF Kind
<1>2. /\ On' = On /\ list' = list /\ period' = period
      /\ \A t \in On : Sign(left'[t]) =
           IF t \in ToSet(list["rt"]) /\ Sign(left[t]) > 0
           THEN ScaledAt(clockspeed, Sign(left[t]), s) ELSE Sign(left[t])
  BY <1>1, SpeedKeepsBound
<1>3. clockspeed' = s
  BY DEF set_speed
<1>4. AbsOn' = AbsOn /\ AbsPeriod' = AbsPeriod
  BY <1>2 DEF AbsOn, AbsPeriod
<1>5. AbsDue' = [t \in Timer |->
                  IF t \in AbsOn["rt"] /\ AbsDue[t] > 0
                  THEN (AbsDue[t] * s + clockspeed \div 2) \div clockspeed ELSE AbsDue[t]]
  <2>1. ASSUME NEW t \in Timer
        PROVE  (IF t \in On THEN Signed(t)' ELSE 0) =
                 IF t \in AbsOn["rt"] /\ AbsDue[t] > 0
                 THEN ScaledAt(clockspeed, AbsDue[t], s) ELSE AbsDue[t]
    <3>1. CASE t \in On
      <4>1. AbsDue[t] = Sign(left[t]) /\ Signed(t)' = Sign(left'[t])
        BY <3>1, AbsIs, SignedDef
      <4> HIDE DEF Sign, AbsDue
      <4>2. QED
        BY <1>2, <3>1, <4>1, AbsIs
    <3>2. CASE t \notin On
      <4>1. AbsDue[t] = 0 /\ t \notin AbsOn["rt"]
        BY <1>1, <3>2, AbsIs DEF AbsDue
      <4>2. QED
        BY <3>2, <4>1
    <3>3. QED
      BY <3>1, <3>2
  <2>2. AbsDue' = [t \in Timer |-> IF t \in On THEN Signed(t)' ELSE 0]
    BY <1>2 DEF AbsDue
  <2> HIDE DEF AbsDue, AbsOn
  <2>3. QED
    BY <2>1, <2>2 DEF ScaledAt
<1>6. QED
  BY <1>3, <1>4, <1>5, AbsIs DEF Abs!SetSpeed, AbsOn, AbsDue, AbsPeriod

LEMMA StepImplements ==
  TInv /\ OInv /\ [Next]_vars =>
    Abs!Next(Count, Period \cup {0}, Speed, 1..W) \/ UNCHANGED Abs!vars
<1> SUFFICES ASSUME TInv, OInv, [Next]_vars
             PROVE  Abs!Next(Count, Period \cup {0}, Speed, 1..W) \/ UNCHANGED Abs!vars
  OBVIOUS
<1>1. /\ ListsInv /\ ListTypes /\ used \subseteq Timer /\ MaxOp \in Nat /\ On \subseteq Timer
  BY OInvParts, OnIs
<1>2. ASSUME UNCHANGED timerVars PROVE UNCHANGED Abs!vars
  <2>1. /\ list' = list /\ left' = left /\ period' = period /\ clockspeed' = clockspeed
        /\ On' = On
    BY <1>2 DEF timerVars, On
  <2>2. AbsOn' = AbsOn /\ AbsDue' = AbsDue /\ AbsPeriod' = AbsPeriod
    BY <2>1, SignedDef DEF AbsOn, AbsDue, AbsPeriod
  <2>3. QED
    BY <2>1, <2>2 DEF Abs!vars, AbsOn, AbsDue, AbsPeriod
<1>3. ASSUME NEW t \in Timer, NEW n \in Count \cup {0}, NEW p \in Period \cup {0},
             NEW k \in Kind, timer_set(t, n, p, k, 0), clockspeed' = clockspeed
      PROVE  Abs!Next(Count, Period \cup {0}, Speed, 1..W)
  <2>1. CASE n \in Count
    <3>1. Abs!Set(t, k, n, p)
      BY <1>3, <2>1, SetImplements
    <3>2. QED
      BY <2>1, <3>1, AbsNext, Zenon
  <2>2. CASE n = 0
    <3>1. 0 \in 0..MaxOp
      BY <1>1
    <3>2. SetTo(t, n, p, k, 0)
      BY <1>1, <1>3, <3>1, SetKeepsBound
    <3>3. /\ \A j \in Kind : ToSet(list'[j]) = ToSet(list[j]) \ {t}
          /\ left' = left /\ period' = period
      BY <2>2, <3>2 DEF SetTo
    <3>4. Abs!Unset(t)
      BY <1>1, <1>3, <3>3, UnsetImplements
    <3>5. QED
      BY <3>4, AbsNext, Zenon
  <2>3. QED
    BY <2>1, <2>2
<1>4. ASSUME NEW t \in Timer, remove_timer(t)
      PROVE  Abs!Next(Count, Period \cup {0}, Speed, 1..W)
  <2>1. /\ \A j \in Kind : ToSet(list'[j]) = ToSet(list[j]) \ {t}
        /\ \A u \in Timer \ {t} : left'[u] = left[u] /\ period'[u] = period[u]
        /\ clockspeed' = clockspeed
    BY <1>1, <1>4, RemoveKeepsBound DEF remove_timer
  <2>2. Abs!Unset(t)
    BY <1>1, <2>1, UnsetImplements
  <2>3. QED
    BY <2>2, AbsNext, Zenon
<1>5. ASSUME NEW n \in Count, NEW p \in Period \cup {0}, NEW k \in Kind, add_timer(n, p, k)
      PROVE  Abs!Next(Count, Period \cup {0}, Speed, 1..W)
  <2>1. /\ NewTimer \in Timer /\ timer_set(NewTimer, n, p, k, 0)
        /\ clockspeed' = clockspeed
    BY <1>5 DEF add_timer, NewTimer, Free
  <2> HIDE DEF NewTimer
  <2>2. QED
    BY <1>3, <2>1
<1>6. ASSUME NEW d \in 0..W, Advance(d), \A t \in On : Sign(left[t]) - d >= -MaxOp
      PROVE  Abs!Next(Count, Period \cup {0}, Speed, 1..W) \/ UNCHANGED Abs!vars
  <2>1. (\E e \in 1..W : Abs!Pass(e)) \/ UNCHANGED Abs!vars
    BY <1>6, PassImplements
  <2>2. QED
    BY <2>1, AbsNext, Zenon
<1>7. CASE Call
  <2>1. CASE \E n \in Count, p \in Period, k \in Kind : add_timer(n, p, k)
    BY <1>5, <2>1
  <2>2. CASE \E t \in used \ {run}, p \in Period, n \in Count \cup {0}, k \in Kind :
               set_timer(t, n, p, k)
    BY <1>1, <1>3, <2>2 DEF set_timer
  <2>3. CASE \E t \in used \ {run}, p \in Period : set_timer_period(t, p)
    <3>1. PICK t \in Timer, p \in Period : set_timer_period(t, p)
      BY <1>1, <2>3
    <3>2. Abs!SetPeriod(t, p) \/ UNCHANGED Abs!vars
      BY <1>1, <3>1, PeriodImplements
    <3>3. p \in Period \cup {0}
      OBVIOUS
    <3>4. QED
      BY <3>2, <3>3, AbsNext, Zenon
  <2>4. CASE \E t \in used \ (HwTimer \cup {run}) : remove_timer(t)
    BY <1>1, <1>4, <2>4
  <2>5. CASE \E s \in Speed : set_speed(s)
    <3>1. \E s \in Speed : Abs!SetSpeed(s)
      BY <2>5, SpeedImplements
    <3>2. QED
      BY <3>1, AbsNext, Zenon
  <2>6. QED
    BY <1>7, <2>1, <2>2, <2>3, <2>4, <2>5, CallIs DEF Calls
<1>8. CASE run_begin
  <2>1. \E n \in Count, k \in Kind : add_timer(n, 0, k)
    BY <1>8 DEF run_begin
  <2>2. QED
    BY <1>5, <2>1
<1>9. CASE run_end
  <2>1. run \in Timer /\ remove_timer(run)
    BY <1>1, <1>9, TInvParts DEF run_end, RunInv
  <2>2. QED
    BY <1>4, <2>1
<1>10. CASE begin_op \/ stop \/ port_io \/ end_op \/ callback_return
            \/ accept_interrupt \/ loop \/ \E k \in Kind : check_done(k)
  BY <1>2, <1>10 DEF begin_op, stop, port_io, end_op, callback_return,
                     accept_interrupt, loop, check_done
<1>11. CASE delay
  <2>1. PICK d \in 1..(MaxOp - spent) : Advance(d)
    BY <1>11 DEF delay
  <2>2. /\ spent \in Nat /\ spent \in 0..MaxOp /\ Latest = spent
        /\ \A t \in On : Sign(left[t]) \in Int /\ Sign(left[t]) >= -Latest
    BY <1>11, OInvParts DEF delay, Latest
  <2>3. d \in 0..W
    BY <1>1, <2>2, WidthIs, TimerProportions
  <2>4. \A t \in On : Sign(left[t]) - d >= -MaxOp
    <3> HIDE DEF Latest, Sign
    <3>1. d \in Int /\ d <= MaxOp - spent
      BY <1>1, <2>2
    <3>2. QED
      BY <1>1, <2>2, <3>1
  <2>5. QED
    BY <1>6, <2>1, <2>3, <2>4
<1>12. CASE halt
  <2>1. PICK d \in 0..(W - 1) : Skips(d)
    BY <1>12, HaltIs
  <2>2. d \in 0..W
    BY WidthIs
  <2>3. \A t \in On : Sign(left[t]) - d >= -MaxOp
    <3>1. \A t \in On : Sign(left[t]) \in Int /\ Sign(left[t]) - d >= 0
      BY <2>1, OInvParts DEF Skips
    <3> HIDE DEF Sign
    <3>2. d \in Int
      BY WidthIs
    <3>3. QED
      BY <1>1, <3>1, <3>2
  <2>4. QED
    BY <1>6, <2>1, <2>2, <2>3 DEF Skips
<1>13. CASE \E k \in Kind : fire(k)
  <2>1. \E t \in Timer, k \in Kind : Abs!Fire(t, k)
    BY <1>13, FireImplements
  <2>2. QED
    BY <2>1, AbsNext, Zenon
<1>14. CASE UNCHANGED vars
  BY <1>2, <1>14 DEF vars
<1>15. QED
  BY <1>7, <1>8, <1>9, <1>10, <1>11, <1>12, <1>13, <1>14 DEF Next, core

\* The two sorted lists, compared modulo the clock's width and with every change of
\* the clock's speed, do what a set of timers promises: timers go off in order and
\* without drift, and none is ever Slack clocks late (emu/tilem.h:286-320).
THEOREM TimerSetImplemented == Spec => ImplementsTimerSet
<1>1. Init => Abs!Init
  <2> SUFFICES ASSUME Init PROVE Abs!Init
    OBVIOUS
  <2>1. On = {} /\ \A k \in Kind : ToSet(list[k]) = {}
    BY DEF Init, On, Kind, ToSet
  <2>2. /\ AbsOn = [k \in Kind |-> {}] /\ AbsDue = [t \in Timer |-> 0]
        /\ AbsPeriod = [t \in Timer |-> 0]
    BY <2>1 DEF AbsOn, AbsDue, AbsPeriod
  <2>3. clockspeed \in Nat
    BY SpeedIs DEF Init
  <2>4. QED
    BY <2>2, <2>3 DEF Abs!Init, Abs!Kind, Kind, AbsOn, AbsDue, AbsPeriod
<1>2. TInv /\ OInv /\ [Next]_vars =>
        [Abs!Next(Count, Period \cup {0}, Speed, 1..W)]_(Abs!vars)
  BY StepImplements
<1>3. QED
  BY <1>1, <1>2, OInvAlways, PTL DEF Spec, ImplementsTimerSet
=============================================================================
