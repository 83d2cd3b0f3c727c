------------------------------ MODULE TimerList ------------------------------
(***************************************************************************)
(* The links behind the lists of Timers (emu/z80.c:57-169): timers are       *)
(* numbered from 1, 0 ends a list, and the array grows when no timer is      *)
(* free.  Only the order of the counts matters here, so a timer has a rank.  *)
(* The links of timer 0 are written now and then, never read, and left out.  *)
(***************************************************************************)
EXTENDS Integers, Sequences, FiniteSets, SequencesExt, LinkedLists

CONSTANTS
  NumHw,     \* the hardware's timers are 1..NumHw
  MaxTimers, \* bound: the array never grows beyond this
  Rank

ASSUME ListConstants ==
  NumHw \in Nat \ {0} /\ MaxTimers \in Nat /\ Rank \subseteq Nat

VARIABLES next, prev, rank, timer_cpu, timer_rt, timer_free, used

links == <<next, prev, timer_cpu, timer_rt, timer_free>>
listVars == <<links, rank, used>>

Id == DOMAIN next

\* The timers of a list, from its head to the end
Chain(head) == Walk(next, head)

ListInit ==
  /\ next = [t \in 1..NumHw |-> 0] /\ prev = [t \in 1..NumHw |-> 0]
  /\ rank = [t \in 1..NumHw |-> 0]
  /\ timer_cpu = 0 /\ timer_rt = 0 /\ timer_free = 0
  /\ used = 1..NumHw

-----------------------------------------------------------------------------
(* The list functions, from one set of links to another *)

Links == [next |-> next, prev |-> prev, rank |-> rank,
          cpu |-> timer_cpu, rt |-> timer_rt, free |-> timer_free]

Become(z) ==
  /\ next' = z.next /\ prev' = z.prev /\ rank' = z.rank
  /\ timer_cpu' = z.cpu /\ timer_rt' = z.rt /\ timer_free' = z.free

\* timer_free
free(z, t) == [z EXCEPT !.next[t] = z.free, !.prev[t] = 0, !.free = t]

\* timer_alloc without a free timer: the new ones are freed one after the other
grow(z) ==
  LET n == Cardinality(DOMAIN z.next) + 1
      extend(f) == [t \in 1..(2 * n) |-> IF t < n THEN f[t] ELSE 0]
  IN [z EXCEPT !.next = [t \in 1..(2 * n) |-> IF t > n THEN t - 1 ELSE extend(@)[t]],
               !.prev = extend(@), !.rank = extend(@), !.free = 2 * n]

CanAlloc == timer_free # 0 \/ 2 * (Cardinality(Id) + 1) < MaxTimers
WithFree(z) == IF z.free = 0 THEN grow(z) ELSE z
NewTimer == WithFree(Links).free
timer_alloc(z) ==
  [WithFree(z) EXCEPT !.free = WithFree(z).next[@], !.next[WithFree(z).free] = 0]

\* timer_earlier
earlier(z, t, u) == z.rank[t] < z.rank[u]

\* The timer of list k that t goes behind: 0, the first, or the last of those
\* that follow it and are earlier
before(z, k, t) ==
  IF z[k] = 0 \/ earlier(z, t, z[k]) THEN 0
  ELSE LET last[u \in DOMAIN z.next] ==
             IF z.next[u] # 0 /\ earlier(z, z.next[u], t) THEN last[z.next[u]] ELSE u
       IN last[z[k]]

\* Mutant: the timer behind the new one is not told
Mut_insert_no_back(z, k, t) ==
  LET p == before(z, k, t)
      n == IF p = 0 THEN z[k] ELSE z.next[p]
  IN [z EXCEPT ![k] = IF p = 0 THEN t ELSE @,
               !.prev[t] = p,
               !.next = [u \in DOMAIN @ |-> IF u = t THEN n
                                            ELSE IF u = p THEN t ELSE @[u]]]

timer_insert(z, k, t) ==
  LET p == before(z, k, t)
      n == IF p = 0 THEN z[k] ELSE z.next[p]
  IN [z EXCEPT ![k] = IF p = 0 THEN t ELSE @,
               !.prev = [u \in DOMAIN @ |-> IF u = t THEN p
                                            ELSE IF u = n THEN t ELSE @[u]],
               !.next = [u \in DOMAIN @ |-> IF u = t THEN n
                                            ELSE IF u = p THEN t ELSE @[u]]]

timer_unset(z, t) ==
  [z EXCEPT !.cpu = IF @ = t THEN z.next[t] ELSE @,
            !.rt  = IF @ = t THEN z.next[t] ELSE @,
            !.next = [u \in DOMAIN @ |-> IF u = t THEN 0
                                         ELSE IF u = z.prev[t] THEN z.next[t] ELSE @[u]],
            !.prev = [u \in DOMAIN @ |-> IF u = t THEN 0
                                         ELSE IF u = z.next[t] THEN z.prev[t] ELSE @[u]]]

\* timer_set with a count
enter(z, k, t, r) == timer_insert([z EXCEPT !.rank[t] = r], k, t)

-----------------------------------------------------------------------------
(* What is done to timers *)

add_timer(k, r) ==
  /\ CanAlloc
  /\ Become(enter(timer_alloc(Links), k, NewTimer, r))
  /\ used' = used \cup {NewTimer}

set_timer(t, k, r) == Become(enter(timer_unset(Links, t), k, t, r)) /\ UNCHANGED used

\* tilem_z80_set_timer with count 0, and a timer without period that fires
disable(t) == Become(timer_unset(Links, t)) /\ UNCHANGED used

remove_timer(t) ==
  /\ t > NumHw
  /\ Become(free(timer_unset(Links, t), t))
  /\ used' = used \ {t}

ListNext ==
  \/ \E k \in {"cpu", "rt"}, r \in Rank :
       add_timer(k, r) \/ \E t \in used : set_timer(t, k, r)
  \/ \E t \in used : disable(t) \/ remove_timer(t)

ListSpec == ListInit /\ [][ListNext]_listVars

timer_running(t) == t \in {timer_cpu, timer_rt} \/ prev[t] # 0

-----------------------------------------------------------------------------
(* Properties *)

ListTypeOK ==
  /\ Id = 1..Cardinality(Id) /\ Cardinality(Id) < MaxTimers
  /\ next \in [Id -> Id \cup {0}] /\ prev \in [Id -> Id \cup {0}]
  /\ rank \in [Id -> Rank \cup {0}]
  /\ {timer_cpu, timer_rt, timer_free} \subseteq Id \cup {0}
  /\ used \subseteq Id

\* The three lists share no timer, none of them runs in a circle, a timer is in
\* the free list exactly while it is not used, and the links back agree.
LinksAgree ==
  LET cpu == Chain(timer_cpu)
      rt  == Chain(timer_rt)
      fr  == Chain(timer_free)
  IN /\ IsInjective(cpu \o rt \o fr)
     /\ ToSet(fr) = Id \ used
     /\ \A s \in {cpu, rt} : \A i \in DOMAIN s :
          prev[s[i]] = IF i = 1 THEN 0 ELSE s[i - 1]

\* tilem_z80_timer_running, which looks at a timer's link back and the heads only,
\* tells whether a timer is in a list (z80.c:406-419).
RunningExact ==
  \A t \in used :
    timer_running(t) <=> t \in ToSet(Chain(timer_cpu)) \cup ToSet(Chain(timer_rt))

\* A list is sorted, so its head is the earliest timer.
ListSorted ==
  \A h \in {timer_cpu, timer_rt} : \A i \in 2..Len(Chain(h)) :
    rank[Chain(h)[i - 1]] <= rank[Chain(h)[i]]

\* What the functions that add, set, disable and remove timers rely on and keep up
ListsSound == LinksAgree /\ RunningExact /\ ListSorted
=============================================================================
