--------------------------- MODULE BreakpointsProofs ---------------------------
(***************************************************************************)
(* Theorem about Breakpoints, for an array of any size, any breakpoints of *)
(* the debugger and any order of what the core thread, the debugger and    *)
(* the audio filter do.                                                    *)
(*                                                                         *)
(* First the array: adding and removing a breakpoint keep every slot in    *)
(* the list of its type.  Then who knows which breakpoint, and what each   *)
(* locked section does to that.  Last the invariant over the steps, which  *)
(* needs to know where cancel_step_bp stands and how a walk can go astray. *)
(***************************************************************************)
EXTENDS Breakpoints, LinkedListProofs

-----------------------------------------------------------------------------
(***************************************************************************)
(* Breakpoints: the array and its lists                                      *)
(*                                                                           *)
(* Listed says of a state of the array that there are sequences, one for     *)
(* each type, which the links run along and which have exactly the slots of  *)
(* the type; so a slot cannot be in two lists.                               *)
(***************************************************************************)
Types == List \cup {"free"}
Bp == [type : Types, func : Func, next : Nat, prev : Nat]

Nx(s) == [v \in 1..Len(s) |-> s[v].next]
Pv(s) == [v \in 1..Len(s) |-> s[v].prev]

Threaded(s, h, L) ==
  /\ s \in Seq(Bp) /\ h \in [Types -> Nat] /\ L \in [Types -> Seq(1..Len(s))]
  /\ \A l \in Types : /\ IsInjective(L[l]) /\ Runs(Nx(s), h[l], L[l])
                      /\ \A v \in 1..Len(s) : On(L[l], v) <=> s[v].type = l
                      /\ l # "free" => Back(Pv(s), L[l])

Listed(z) == \E L : Threaded(z.s, z.h, L)

\* The breakpoints that are set, and one that stays what it is
Use(z) == {v \in 1..Len(z.s) : z.s[v].type # "free"}
Same(z, y, v) == y.s[v].type = z.s[v].type /\ y.s[v].func = z.s[v].func

\* A sequence of breakpoints, and one with other links or another owner
LEMMA BpFields ==
  ASSUME NEW s \in Seq(Bp)
  PROVE  /\ Len(s) \in Nat /\ DOMAIN s = 1..Len(s)
         /\ \A v \in 1..Len(s) : /\ s[v] \in Bp /\ s[v].type \in Types /\ s[v].func \in Func
                                 /\ s[v].next \in Nat /\ s[v].prev \in Nat
<1>1. Len(s) \in Nat /\ s \in [1..Len(s) -> Bp] BY LenProperties
<1> QED BY <1>1 DEF Bp

LEMMA BpSeq ==
  ASSUME NEW N \in Nat, NEW t, t \in [1..N -> Bp]
  PROVE  t \in Seq(Bp) /\ Len(t) = N
OBVIOUS

LEMMA SetNext ==
  ASSUME NEW s \in Seq(Bp), NEW n \in 1..Len(s), NEW x \in Nat
  PROVE  LET t == [s EXCEPT ![n].next = x]
         IN /\ t \in Seq(Bp) /\ Len(t) = Len(s)
            /\ \A v \in 1..Len(s) :
                 /\ t[v].type = s[v].type /\ t[v].func = s[v].func /\ t[v].prev = s[v].prev
                 /\ t[v].next = IF v = n THEN x ELSE s[v].next
<1> DEFINE t == [s EXCEPT ![n].next = x]
           k == Len(s)
<1>1. k \in Nat /\ s \in [1..k -> Bp] BY LenProperties
<1>2. n \in 1..k OBVIOUS
<1> HIDE DEF k
<1>3. t \in [1..k -> Bp]
  <2>1. [s[n] EXCEPT !.next = x] \in Bp BY <1>1, <1>2 DEF Bp
  <2>2. t = [s EXCEPT ![n] = [s[n] EXCEPT !.next = x]] OBVIOUS
  <2> HIDE DEF t
  <2> QED BY <1>1, <1>2, <2>1, <2>2
<1>4. \A v \in 1..k :
        /\ t[v].type = s[v].type /\ t[v].func = s[v].func /\ t[v].prev = s[v].prev
        /\ t[v].next = IF v = n THEN x ELSE s[v].next
  <2>1. \A v \in 1..k : t[v] = IF v = n THEN [s[n] EXCEPT !.next = x] ELSE s[v] BY <1>1
  <2>2. s[n] \in Bp BY <1>1, <1>2
  <2> HIDE DEF t
  <2> QED BY <2>1, <2>2 DEF Bp
<1> HIDE DEF t
<1>5. t \in Seq(Bp) /\ Len(t) = k BY <1>1, <1>3, BpSeq
<1> QED BY <1>4, <1>5 DEF t, k

LEMMA SetPrev ==
  ASSUME NEW s \in Seq(Bp), NEW n \in 1..Len(s), NEW x \in Nat
  PROVE  LET t == [s EXCEPT ![n].prev = x]
         IN /\ t \in Seq(Bp) /\ Len(t) = Len(s)
            /\ \A v \in 1..Len(s) :
                 /\ t[v].type = s[v].type /\ t[v].func = s[v].func /\ t[v].next = s[v].next
                 /\ t[v].prev = IF v = n THEN x ELSE s[v].prev
<1> DEFINE t == [s EXCEPT ![n].prev = x]
           k == Len(s)
<1>1. k \in Nat /\ s \in [1..k -> Bp] BY LenProperties
<1>2. n \in 1..k OBVIOUS
<1> HIDE DEF k
<1>3. t \in [1..k -> Bp]
  <2>1. [s[n] EXCEPT !.prev = x] \in Bp BY <1>1, <1>2 DEF Bp
  <2>2. t = [s EXCEPT ![n] = [s[n] EXCEPT !.prev = x]] OBVIOUS
  <2> HIDE DEF t
  <2> QED BY <1>1, <1>2, <2>1, <2>2
<1>4. \A v \in 1..k :
        /\ t[v].type = s[v].type /\ t[v].func = s[v].func /\ t[v].next = s[v].next
        /\ t[v].prev = IF v = n THEN x ELSE s[v].prev
  <2>1. \A v \in 1..k : t[v] = IF v = n THEN [s[n] EXCEPT !.prev = x] ELSE s[v] BY <1>1
  <2>2. s[n] \in Bp BY <1>1, <1>2
  <2> HIDE DEF t
  <2> QED BY <2>1, <2>2 DEF Bp
<1> HIDE DEF t
<1>5. t \in Seq(Bp) /\ Len(t) = k BY <1>1, <1>3, BpSeq
<1> QED BY <1>4, <1>5 DEF t, k

LEMMA SetBp ==
  ASSUME NEW s \in Seq(Bp), NEW n \in 1..Len(s), NEW r \in Bp
  PROVE  LET t == [s EXCEPT ![n] = r]
         IN /\ t \in Seq(Bp) /\ Len(t) = Len(s)
            /\ \A v \in 1..Len(s) : t[v] = IF v = n THEN r ELSE s[v]
<1> DEFINE t == [s EXCEPT ![n] = r]
           k == Len(s)
<1>1. k \in Nat /\ s \in [1..k -> Bp] BY LenProperties
<1>2. n \in 1..k OBVIOUS
<1> HIDE DEF k
<1>3. t \in [1..k -> Bp] BY <1>1, <1>2
<1>4. \A v \in 1..k : t[v] = IF v = n THEN r ELSE s[v] BY <1>1
<1> HIDE DEF t
<1>5. t \in Seq(Bp) /\ Len(t) = k BY <1>1, <1>3, BpSeq
<1> QED BY <1>4, <1>5 DEF t, k

\* Where the heads and the links lead
LEMMA Leads ==
  ASSUME NEW s, NEW h, NEW L, Threaded(s, h, L)
  PROVE  /\ \A l \in Types : h[l] # 0 => h[l] \in 1..Len(s) /\ s[h[l]].type = l
         /\ \A v \in 1..Len(s) :
              s[v].next # 0 => s[v].next \in 1..Len(s) /\ s[s[v].next].type = s[v].type
<1>1. /\ s \in Seq(Bp) /\ Len(s) \in Nat
      /\ \A v \in 1..Len(s) : s[v].type \in Types
    BY BpFields DEF Threaded
<1>2. ASSUME NEW l \in Types
      PROVE  /\ h[l] # 0 => h[l] \in 1..Len(s) /\ s[h[l]].type = l
             /\ \A v \in 1..Len(s) : s[v].type = l /\ s[v].next # 0 =>
                  s[v].next \in 1..Len(s) /\ s[s[v].next].type = l
  <2> DEFINE q == L[l]
             N == Len(s)
             nx == Nx(s)
             f == h[l]
  <2>1. /\ q \in Seq(1..N) /\ N \in Nat /\ Runs(nx, f, q)
        /\ \A v \in 1..N : On(q, v) <=> s[v].type = l
      BY <1>1, <1>2 DEF Threaded
  <2>2. \A v \in 1..N : nx[v] = s[v].next BY DEF Nx
  <2> HIDE DEF q, N, nx, f
  <2>3. f # 0 => On(q, f) BY <2>1, Inside
  <2>4. \A v : On(q, v) => v \in 1..N /\ (nx[v] # 0 => On(q, nx[v])) BY <2>1, Inside
  <2>5. \A v \in 1..N : s[v].type = l /\ s[v].next # 0 =>
          s[v].next \in 1..N /\ s[s[v].next].type = l
      BY <2>1, <2>2, <2>4
  <2>6. f # 0 => f \in 1..N /\ s[f].type = l BY <2>1, <2>3, <2>4
  <2> QED BY <2>5, <2>6 DEF N, f
<1> QED BY <1>1, <1>2

\* What bp_add and bp_free do to the lists: the first free slot n becomes the
\* first of another list.
LEMMA TakeThreads ==
  ASSUME NEW s, NEW h, NEW L, Threaded(s, h, L), NEW type \in List,
         NEW n, n = h["free"], n # 0,
         NEW t \in Seq(Bp), Len(t) = Len(s), NEW g \in [Types -> Nat],
         \A v \in 1..Len(s) :
           /\ t[v].type = IF v = n THEN type ELSE s[v].type
           /\ t[v].next = IF v = n THEN h[type] ELSE s[v].next
           /\ t[v].prev = IF v = n THEN 0 ELSE IF v = h[type] THEN n ELSE s[v].prev,
         \A l \in Types : g[l] = IF l = type THEN n ELSE IF l = "free" THEN s[n].next ELSE h[l]
  PROVE  \E M : Threaded(t, g, M)
<1> DEFINE N == Len(s)
           nx == Nx(s)
           ny == Nx(t)
           pv == Pv(s)
           py == Pv(t)
           M == [L EXCEPT !["free"] = Drop(L["free"], 1), ![type] = Push(n, L[type])]
<1>1. type \in Types /\ "free" \in Types /\ type # "free" BY DEF Types, List
<1>2. /\ N \in Nat /\ L \in [Types -> Seq(1..N)]
      /\ \A l \in Types : /\ L[l] \in Seq(1..N) /\ IsInjective(L[l]) /\ Runs(nx, h[l], L[l])
                          /\ \A v \in 1..N : On(L[l], v) <=> s[v].type = l
                          /\ l # "free" => Back(pv, L[l])
    BY BpFields DEF Threaded
<1>3. n \in 1..N /\ s[n].type = "free" BY <1>1, Leads
<1>4. \A v \in 1..N : /\ nx[v] = s[v].next
                      /\ ny[v] = IF v = n THEN h[type] ELSE nx[v]
                      /\ py[v] = IF v = n THEN 0 ELSE IF v = h[type] THEN n ELSE pv[v]
                      /\ t[v].type = IF v = n THEN type ELSE s[v].type
    BY DEF Nx, Pv
<1>5. h[type] # 0 => h[type] \in 1..N /\ s[h[type]].type = type BY <1>1, Leads
<1>6. \A l \in Types : \A v : On(L[l], v) => v \in 1..N /\ s[v].type = l
  <2> SUFFICES ASSUME NEW l \in Types, NEW v, On(L[l], v) PROVE v \in 1..N /\ s[v].type = l
      OBVIOUS
  <2> DEFINE q == L[l]
             f == h[l]
  <2>1. q \in Seq(1..N) /\ Runs(nx, f, q) /\ On(q, v) BY <1>2
  <2> HIDE DEF q, f, nx, N
  <2>2. v \in 1..N BY <1>2, <2>1, Inside
  <2> QED BY <1>2, <2>2
<1>7. M["free"] = Drop(L["free"], 1) /\ M[type] = Push(n, L[type])
      /\ \A l \in Types : l # "free" /\ l # type => M[l] = L[l]
    BY <1>1, <1>2
<1>8. n \in Nat /\ n # 0 BY <1>3
<1> HIDE DEF nx, ny, pv, py, M, N
<1>9. /\ M["free"] \in Seq(1..N) /\ IsInjective(M["free"])
      /\ Runs(ny, s[n].next, M["free"])
      /\ \A v : On(M["free"], v) <=> On(L["free"], v) /\ v # n
  <2> DEFINE q == L["free"]
  <2>1. /\ q \in Seq(1..N) /\ IsInjective(q) /\ Runs(nx, n, q)
        /\ \A v : On(q, v) => v \in 1..N
      BY <1>1, <1>2, <1>6
  <2> HIDE DEF q
  <2>2. 1 \in 1..Len(q) /\ n = q[1] BY <1>2, <1>8, <2>1, Inside
  <2>3. \A v : On(q, v) /\ v # q[1] => ny[v] = IF v = 0 THEN nx[q[1]] ELSE nx[v]
      BY <1>4, <2>1, <2>2
  <2>4. Runs(ny, IF n = q[1] THEN nx[q[1]] ELSE n, Drop(q, 1)) BY <1>2, <2>1, <2>2, <2>3, DropRuns
  <2>5. nx[q[1]] = s[n].next BY <1>3, <1>4, <2>2
  <2>6. /\ Drop(q, 1) \in Seq(1..N) /\ IsInjective(Drop(q, 1))
        /\ \A v : On(Drop(q, 1), v) <=> On(q, v) /\ v # q[1]
      BY <1>2, <2>1, <2>2, DropIs
  <2> QED BY <1>7, <2>2, <2>4, <2>5, <2>6 DEF q
<1>10. /\ M[type] \in Seq(1..N) /\ IsInjective(M[type])
       /\ Runs(ny, n, M[type]) /\ Back(py, M[type])
       /\ \A v : On(M[type], v) <=> v = n \/ On(L[type], v)
  <2> DEFINE q == L[type]
             f == h[type]
  <2>1. /\ q \in Seq(1..N) /\ IsInjective(q) /\ Runs(nx, f, q) /\ Back(pv, q)
        /\ \A v : On(q, v) => v \in 1..N /\ s[v].type = type
      BY <1>1, <1>2, <1>6
  <2>2. f # 0 => f \in 1..N /\ f # n BY <1>1, <1>3, <1>5
  <2>3. ny[n] = f /\ py[n] = 0 /\ (f # 0 => py[f] = n) BY <1>3, <1>4, <2>2
  <2>4. ~On(q, n) BY <1>1, <1>3, <2>1
  <2>5. /\ \A v : On(q, v) => ny[v] = nx[v]
        /\ \A v : On(q, v) /\ v # f => py[v] = pv[v]
      BY <1>4, <2>1, <2>4
  <2> HIDE DEF q, f
  <2>6. Runs(ny, n, Push(n, q)) BY <1>2, <1>3, <2>1, <2>3, <2>4, <2>5, PushRuns
  <2>9. N \in Nat /\ q \in Seq(1..N) /\ IsInjective(q) /\ Runs(nx, f, q) /\ Back(pv, q)
      BY <1>2, <2>1
  <2>10. /\ py[n] = 0 /\ (f # 0 => py[f] = n) /\ n \in 1..N
         /\ \A v : On(q, v) /\ v # f => py[v] = pv[v]
      BY <1>3, <2>3, <2>5
  <2>11. Prepends(N, q, n, nx, f, pv, py) BY <2>4, <2>9, <2>10 DEF Prepends
  <2>7. Back(py, Push(n, q)) BY <2>11, PushBack
  <2>8. /\ Push(n, q) \in Seq(1..N) /\ IsInjective(Push(n, q))
        /\ \A v : On(Push(n, q), v) <=> v = n \/ On(q, v)
      BY <1>2, <1>3, <2>1, <2>4, PushIs
  <2> QED BY <1>7, <2>6, <2>7, <2>8 DEF q
<1>11. ASSUME NEW l \in Types, l # "free", l # type
       PROVE  /\ M[l] \in Seq(1..N) /\ IsInjective(M[l])
              /\ Runs(ny, h[l], M[l]) /\ Back(py, M[l])
              /\ \A v : On(M[l], v) <=> On(L[l], v)
  <2> DEFINE q == L[l]
  <2>1. /\ q \in Seq(1..N) /\ IsInjective(q) /\ Runs(nx, h[l], q) /\ Back(pv, q)
        /\ \A v : On(q, v) => v \in 1..N /\ s[v].type = l
      BY <1>2, <1>6, <1>11
  <2>2. \A v : On(q, v) => v # n /\ v # h[type]
    <3>1. ASSUME NEW v, On(q, v) PROVE v # n /\ v # h[type]
      <4>1. v \in 1..N /\ s[v].type = l /\ v # 0 BY <2>1, <3>1
      <4> QED BY <1>3, <1>5, <1>11, <4>1
    <3> QED BY <3>1
  <2>3. \A v : On(q, v) => ny[v] = nx[v] /\ py[v] = pv[v] BY <1>4, <2>1, <2>2
  <2>4. \A i \in 1..Len(q) : On(q, q[i]) BY DEF On
  <2>5. \A i \in 1..Len(q) : ny[q[i]] = nx[q[i]] /\ py[q[i]] = pv[q[i]] BY <2>3, <2>4
  <2> HIDE DEF q
  <2>6. Runs(ny, h[l], q) BY <2>1, <2>5, SameLinks
  <2>7. Back(py, q) BY <2>1, <2>5, SameLinks
  <2>8. M[l] = q BY <1>7, <1>11 DEF q
  <2> QED BY <2>1, <2>6, <2>7, <2>8 DEF q
<1>12. ASSUME NEW l \in Types
       PROVE  /\ M[l] \in Seq(1..N) /\ IsInjective(M[l]) /\ Runs(ny, g[l], M[l])
              /\ \A v \in 1..N : On(M[l], v) <=> t[v].type = l
              /\ l # "free" => Back(py, M[l])
  <2>1. CASE l = "free"
    <3>1. g[l] = s[n].next BY <1>1, <2>1
    <3>2. ASSUME NEW v \in 1..N PROVE On(M[l], v) <=> t[v].type = l
      <4>1. On(L[l], v) <=> s[v].type = l BY <1>2
      <4>2. t[v].type = IF v = n THEN type ELSE s[v].type BY <1>4
      <4>3. On(M[l], v) <=> On(L[l], v) /\ v # n BY <1>9, <2>1
      <4> QED BY <1>1, <2>1, <4>1, <4>2, <4>3
    <3> QED BY <1>9, <2>1, <3>1, <3>2
  <2>2. CASE l = type
    <3>1. g[l] = n BY <1>1, <2>2
    <3>2. ASSUME NEW v \in 1..N PROVE On(M[l], v) <=> t[v].type = l
      <4>1. On(L[l], v) <=> s[v].type = l BY <1>2
      <4>2. t[v].type = IF v = n THEN type ELSE s[v].type BY <1>4
      <4>3. On(M[l], v) <=> v = n \/ On(L[l], v) BY <1>10, <2>2
      <4> QED BY <1>1, <2>2, <4>1, <4>2, <4>3
    <3> QED BY <1>10, <2>2, <3>1, <3>2
  <2>3. CASE l # "free" /\ l # type
    <3>1. g[l] = h[l] BY <2>3
    <3>2. \A v \in 1..N : On(M[l], v) <=> t[v].type = l
      <4>1. \A v \in 1..N : On(M[l], v) <=> s[v].type = l BY <1>2, <1>11, <2>3
      <4> QED BY <1>3, <1>4, <2>3, <4>1
    <3> QED BY <1>11, <2>3, <3>1, <3>2
  <2> QED BY <2>1, <2>2, <2>3
<1>13. M \in [Types -> Seq(1..N)]
  <2>1. DOMAIN M = Types BY <1>2 DEF M
  <2>2. M = [l \in Types |-> M[l]] BY <1>2 DEF M
  <2> QED BY <1>12, <2>2
<1>14. Len(t) = N BY DEF N
<1>15. Threaded(t, g, M) BY <1>12, <1>13, <1>14 DEF Threaded, ny, py
<1> QED BY <1>15

\* What bp_rem and bp_free do to the lists: breakpoint n is taken out of its
\* list and becomes the first free one.
LEMMA DropThreads ==
  ASSUME NEW s, NEW h, NEW L, Threaded(s, h, L), NEW n \in 1..Len(s), s[n].type # "free",
         NEW t \in Seq(Bp), Len(t) = Len(s), NEW g \in [Types -> Nat],
         \A v \in 1..Len(s) :
           /\ t[v].type = IF v = n THEN "free" ELSE s[v].type
           /\ t[v].next = IF v = n THEN h["free"]
                          ELSE IF v = s[n].prev THEN s[n].next ELSE s[v].next
           /\ t[v].prev = IF v = n THEN 0
                          ELSE IF v = s[n].next THEN s[n].prev ELSE s[v].prev,
         \A l \in Types : g[l] = IF l = "free" THEN n
                                 ELSE IF l = s[n].type /\ h[l] = n THEN s[n].next ELSE h[l]
  PROVE  \E M : Threaded(t, g, M)
<1> DEFINE N == Len(s)
           nx == Nx(s)
           ny == Nx(t)
           pv == Pv(s)
           py == Pv(t)
           type == s[n].type
           a == s[n].prev
           b == s[n].next
<1>1. /\ N \in Nat /\ L \in [Types -> Seq(1..N)]
      /\ \A l \in Types : /\ L[l] \in Seq(1..N) /\ IsInjective(L[l]) /\ Runs(nx, h[l], L[l])
                          /\ \A v \in 1..N : On(L[l], v) <=> s[v].type = l
                          /\ l # "free" => Back(pv, L[l])
    BY BpFields DEF Threaded
<1>2. /\ type \in Types /\ "free" \in Types /\ type # "free" /\ n \in 1..N /\ n # 0
      /\ h["free"] \in Nat
    BY BpFields DEF Threaded, Types
<1>3. \A v \in 1..N : /\ ny[v] = IF v = n THEN h["free"] ELSE IF v = a THEN b ELSE nx[v]
                      /\ py[v] = IF v = n THEN 0 ELSE IF v = b THEN a ELSE pv[v]
                      /\ t[v].type = IF v = n THEN "free" ELSE s[v].type
    BY DEF Nx, Pv
<1>4. nx[n] = b /\ pv[n] = a BY DEF Nx, Pv
<1>5. \A l \in Types : \A v : On(L[l], v) => v \in 1..N /\ s[v].type = l
  <2> SUFFICES ASSUME NEW l \in Types, NEW v, On(L[l], v) PROVE v \in 1..N /\ s[v].type = l
      OBVIOUS
  <2> DEFINE q == L[l]
             f == h[l]
  <2>1. q \in Seq(1..N) /\ Runs(nx, f, q) /\ On(q, v) BY <1>1
  <2> HIDE DEF q, f, nx, N
  <2>2. v \in 1..N BY <1>1, <2>1, Inside
  <2> QED BY <1>1, <2>2
<1>6. \E j \in 1..Len(L[type]) : L[type][j] = n
  <2>1. On(L[type], n) BY <1>1, <1>2
  <2> QED BY <2>1 DEF On
<1>7. PICK j \in 1..Len(L[type]) : L[type][j] = n BY <1>6
<1> DEFINE M == [L EXCEPT ![type] = Drop(L[type], j), !["free"] = Push(n, L["free"])]
<1>8. M["free"] = Push(n, L["free"]) /\ M[type] = Drop(L[type], j)
      /\ \A l \in Types : l # "free" /\ l # type => M[l] = L[l]
    BY <1>1, <1>2
<1>9. /\ g["free"] = n /\ g[type] = (IF h[type] = n THEN b ELSE h[type])
      /\ \A l \in Types : l # "free" /\ l # type => g[l] = h[l]
    BY <1>2
<1>10. a = IF j = 1 THEN 0 ELSE L[type][j - 1]
  <2>1. Back(pv, L[type]) BY <1>1, <1>2
  <2> HIDE DEF pv, type, a
  <2> QED BY <1>4, <1>7, <2>1 DEF Back
<1>11. (a # 0 => On(L[type], a)) /\ (b # 0 => On(L[type], b))
  <2>1. L[type] \in Seq(1..N) /\ Runs(nx, h[type], L[type]) /\ On(L[type], n)
      BY <1>1, <1>2
  <2> HIDE DEF nx, type, a, b
  <2>2. b # 0 => On(L[type], b)
    <3> DEFINE q == L[type]
               f == h[type]
    <3>1. q \in Seq(1..N) /\ Runs(nx, f, q) /\ On(q, n) /\ N \in Nat BY <1>1, <2>1
    <3> HIDE DEF q, f, N
    <3>2. nx[n] # 0 => On(q, nx[n]) BY <3>1, Inside
    <3> QED BY <1>4, <3>2 DEF q
  <2>3. a # 0 => On(L[type], a)
    <3>1. ASSUME a # 0 PROVE j - 1 \in 1..Len(L[type]) BY <1>1, <1>7, <1>10, <3>1
    <3> QED BY <1>10, <3>1 DEF On
  <2> QED BY <2>2, <2>3
<1> HIDE DEF nx, ny, pv, py, M, N, type, a, b
<1>12. /\ M[type] \in Seq(1..N) /\ IsInjective(M[type])
       /\ Runs(ny, g[type], M[type]) /\ Back(py, M[type])
       /\ \A v : On(M[type], v) <=> On(L[type], v) /\ v # n
  <2> DEFINE q == L[type]
             f == h[type]
  <2>1. /\ q \in Seq(1..N) /\ IsInjective(q) /\ Runs(nx, f, q) /\ Back(pv, q)
        /\ \A v : On(q, v) => v \in 1..N
      BY <1>1, <1>2, <1>5
  <2>2. j \in 1..Len(q) /\ q[j] = n BY <1>7
  <2>3. a = IF j = 1 THEN 0 ELSE q[j - 1] BY <1>10
  <2> HIDE DEF q, f
  <2>4. \A v : On(q, v) /\ v # q[j] =>
          ny[v] = IF v = (IF j = 1 THEN 0 ELSE q[j - 1]) THEN nx[q[j]] ELSE nx[v]
      BY <1>3, <1>4, <2>1, <2>2, <2>3
  <2>5. \A v : On(q, v) /\ v # q[j] => py[v] = IF v = nx[q[j]] THEN pv[q[j]] ELSE pv[v]
      BY <1>3, <1>4, <2>1, <2>2
  <2>6. N \in Nat /\ q \in Seq(1..N) /\ IsInjective(q) /\ Runs(nx, f, q) /\ Back(pv, q)
        /\ j \in 1..Len(q)
      BY <1>1, <2>1, <2>2
  <2>7. Runs(ny, IF f = q[j] THEN nx[q[j]] ELSE f, Drop(q, j)) BY <2>4, <2>6, DropRuns
  <2>8. Back(py, Drop(q, j)) BY <2>5, <2>6, DropBack
  <2>9. /\ Drop(q, j) \in Seq(1..N) /\ IsInjective(Drop(q, j))
        /\ \A v : On(Drop(q, j), v) <=> On(q, v) /\ v # q[j]
      BY <2>6, DropIs
  <2>10. g[type] = IF f = q[j] THEN nx[q[j]] ELSE f BY <1>4, <1>9, <2>2 DEF f
  <2>11. M[type] = Drop(q, j) BY <1>8 DEF q
  <2>12. \A v : On(M[type], v) <=> On(L[type], v) /\ v # n BY <2>2, <2>9, <2>11 DEF q
  <2> QED BY <2>7, <2>8, <2>9, <2>10, <2>11, <2>12
<1>13. /\ M["free"] \in Seq(1..N) /\ IsInjective(M["free"])
       /\ Runs(ny, n, M["free"])
       /\ \A v : On(M["free"], v) <=> v = n \/ On(L["free"], v)
  <2> DEFINE q == L["free"]
             f == h["free"]
  <2>1. /\ q \in Seq(1..N) /\ IsInjective(q) /\ Runs(nx, f, q)
        /\ \A v : On(q, v) => v \in 1..N /\ s[v].type = "free"
      BY <1>1, <1>2, <1>5
  <2>2. \A v : On(q, v) => v # n /\ v # a
    <3>1. ASSUME NEW v, On(q, v) PROVE v # n /\ v # a
      <4>1. v \in 1..N /\ s[v].type = "free" /\ v # 0 BY <2>1, <3>1
      <4>2. v # n BY <1>2, <4>1 DEF type
      <4>3. a # 0 => s[a].type = type BY <1>2, <1>5, <1>11
      <4> QED BY <1>2, <4>1, <4>2, <4>3
    <3> QED BY <3>1
  <2>3. ~On(q, n) /\ ny[n] = f BY <1>2, <1>3, <2>2
  <2>4. \A v : On(q, v) => ny[v] = nx[v] BY <1>3, <2>1, <2>2
  <2>5. N \in Nat /\ q \in Seq(1..N) /\ IsInjective(q) /\ Runs(nx, f, q) /\ n \in 1..N
      BY <1>1, <1>2, <2>1
  <2> HIDE DEF q, f
  <2>6. Runs(ny, n, Push(n, q)) BY <2>3, <2>4, <2>5, PushRuns
  <2>7. /\ Push(n, q) \in Seq(1..N) /\ IsInjective(Push(n, q))
        /\ \A v : On(Push(n, q), v) <=> v = n \/ On(q, v)
      BY <2>3, <2>5, PushIs
  <2> QED BY <1>8, <2>6, <2>7 DEF q
<1>14. ASSUME NEW l \in Types, l # "free", l # type
       PROVE  /\ M[l] \in Seq(1..N) /\ IsInjective(M[l])
              /\ Runs(ny, h[l], M[l]) /\ Back(py, M[l])
              /\ \A v : On(M[l], v) <=> On(L[l], v)
  <2> DEFINE q == L[l]
  <2>1. /\ q \in Seq(1..N) /\ IsInjective(q) /\ Runs(nx, h[l], q) /\ Back(pv, q)
        /\ \A v : On(q, v) => v \in 1..N /\ s[v].type = l
      BY <1>1, <1>5, <1>14
  <2>2. \A v : On(q, v) => v # n /\ v # a /\ v # b
    <3>1. ASSUME NEW v, On(q, v) PROVE v # n /\ v # a /\ v # b
      <4>1. v \in 1..N /\ s[v].type = l /\ v # 0 BY <2>1, <3>1
      <4>2. v # n BY <1>14, <4>1 DEF type
      <4>3. (a # 0 => s[a].type = type) /\ (b # 0 => s[b].type = type) BY <1>2, <1>5, <1>11
      <4> QED BY <1>14, <4>1, <4>2, <4>3
    <3> QED BY <3>1
  <2>3. \A v : On(q, v) => ny[v] = nx[v] /\ py[v] = pv[v] BY <1>3, <2>1, <2>2
  <2>4. \A i \in 1..Len(q) : On(q, q[i]) BY DEF On
  <2>5. \A i \in 1..Len(q) : ny[q[i]] = nx[q[i]] /\ py[q[i]] = pv[q[i]] BY <2>3, <2>4
  <2> HIDE DEF q
  <2>6. Runs(ny, h[l], q) BY <2>1, <2>5, SameLinks
  <2>7. Back(py, q) BY <2>1, <2>5, SameLinks
  <2>8. M[l] = q BY <1>8, <1>14 DEF q
  <2> QED BY <2>1, <2>6, <2>7, <2>8 DEF q
<1>15. ASSUME NEW l \in Types
       PROVE  /\ M[l] \in Seq(1..N) /\ IsInjective(M[l]) /\ Runs(ny, g[l], M[l])
              /\ \A v \in 1..N : On(M[l], v) <=> t[v].type = l
              /\ l # "free" => Back(py, M[l])
  <2>0. \A v \in 1..N : On(L[l], v) <=> s[v].type = l BY <1>1
  <2>1. CASE l = "free"
    <3>1. \A v \in 1..N : On(M[l], v) <=> t[v].type = l BY <1>3, <1>13, <2>0, <2>1
    <3> QED BY <1>9, <1>13, <2>1, <3>1
  <2>2. CASE l = type
    <3>1. \A v \in 1..N : On(M[l], v) <=> t[v].type = l BY <1>2, <1>3, <1>12, <2>0, <2>2
    <3> QED BY <1>12, <2>2, <3>1
  <2>3. CASE l # "free" /\ l # type
    <3>1. \A v \in 1..N : On(M[l], v) <=> s[v].type = l BY <1>14, <2>0, <2>3
    <3>2. s[n].type = type BY DEF type
    <3>3. \A v \in 1..N : On(M[l], v) <=> t[v].type = l BY <1>3, <2>3, <3>1, <3>2
    <3> QED BY <1>9, <1>14, <2>3, <3>3
  <2> QED BY <2>1, <2>2, <2>3
<1>16. M \in [Types -> Seq(1..N)]
  <2>1. M = [l \in Types |-> M[l]] BY <1>1 DEF M
  <2> QED BY <1>15, <2>1
<1>17. Len(t) = N BY DEF N
<1>18. Threaded(t, g, M) BY <1>15, <1>16, <1>17 DEF Threaded, ny, py
<1> QED BY <1>18

\* bp_alloc without a free slot: the array grows, and the new slots are the free
\* ones, the last before all others.
LEMMA GrowThreads ==
  ASSUME NEW s, NEW h, NEW L, Threaded(s, h, L), h["free"] = 0,
         NEW k \in Nat, k > Len(s), NEW t \in Seq(Bp), Len(t) = k,
         \A v \in 1..Len(s) : t[v] = s[v],
         \A v \in 1..k : v > Len(s) =>
           t[v].type = "free" /\ t[v].next = IF v = Len(s) + 1 THEN 0 ELSE v - 1,
         NEW g \in [Types -> Nat], \A l \in Types : g[l] = IF l = "free" THEN k ELSE h[l]
  PROVE  \E M : Threaded(t, g, M)
<1> DEFINE N == Len(s)
           nx == Nx(s)
           ny == Nx(t)
           pv == Pv(s)
           py == Pv(t)
           q == [i \in 1..(k - N) |-> k + 1 - i]
           M == [L EXCEPT !["free"] = q]
<1>1. /\ N \in Nat /\ L \in [Types -> Seq(1..N)]
      /\ \A l \in Types : /\ L[l] \in Seq(1..N) /\ IsInjective(L[l]) /\ Runs(nx, h[l], L[l])
                          /\ \A v \in 1..N : On(L[l], v) <=> s[v].type = l
                          /\ l # "free" => Back(pv, L[l])
    BY BpFields DEF Threaded
<1>2. "free" \in Types BY DEF Types
<1>3. k \in Nat /\ k > N /\ k - N \in Nat /\ k - N # 0 BY <1>1
<1>4. /\ \A v \in 1..N : v \in 1..k /\ ny[v] = nx[v] /\ py[v] = pv[v] /\ t[v].type = s[v].type
      /\ \A v \in 1..k : v > N => t[v].type = "free" /\ ny[v] = IF v = N + 1 THEN 0 ELSE v - 1
  <2>1. \A v \in 1..N : v \in 1..k BY <1>1, <1>3
  <2> QED BY <2>1 DEF Nx, Pv
<1>5. \A v \in 1..N : s[v].type # "free"
  <2> DEFINE f == L["free"]
  <2>1. N \in Nat /\ f \in Seq(1..N) /\ Runs(nx, 0, f) BY <1>1, <1>2
  <2>2. Len(f) = 0
    <3> HIDE DEF f, nx, N
    <3> QED BY <2>1, Inside
  <2>3. \A v : ~On(f, v) BY <2>2 DEF On
  <2> QED BY <1>1, <1>2, <2>3
<1>6. M["free"] = q /\ \A l \in Types : l # "free" => M[l] = L[l] BY <1>1, <1>2
<1>7. Len(t) = k /\ g["free"] = k /\ \A l \in Types : l # "free" => g[l] = h[l] BY <1>2
<1> HIDE DEF nx, ny, pv, py, M, N
<1>8. q \in Seq(1..k) /\ Len(q) = k - N /\ DOMAIN q = 1..(k - N)
  <2> DEFINE m == k - N
  <2>1. m \in Nat /\ q \in [1..m -> 1..k] BY <1>1, <1>3
  <2> HIDE DEF q, m
  <2>2. q \in Seq(1..k) /\ Len(q) = m /\ DOMAIN q = 1..m
    <3>1. DOMAIN q = 1..m BY <2>1
    <3>2. q = [i \in 1..m |-> q[i]] BY <2>1
    <3> QED BY <1>3, <2>1, <3>1, <3>2, SeqFrom
  <2> QED BY <2>2 DEF m
<1>9. \A i \in 1..(k - N) : q[i] = k + 1 - i OBVIOUS
<1> HIDE DEF q
<1>10. IsInjective(q)
  <2>1. \A a, b \in 1..(k - N) : q[a] = q[b] => a = b BY <1>1, <1>3, <1>9
  <2> QED BY <1>8, <2>1 DEF IsInjective
<1>11. Runs(ny, k, q)
  <2>1. 1 \in 1..(k - N) /\ q[1] = k BY <1>3, <1>9
  <2>2. ASSUME NEW i \in 1..(k - N) PROVE ny[q[i]] = IF i = k - N THEN 0 ELSE q[i + 1]
    <3> DEFINE v == k + 1 - i
    <3>1. v \in 1..k /\ v > N /\ (i = k - N <=> v = N + 1) BY <1>1, <1>3
    <3>2. ny[v] = IF v = N + 1 THEN 0 ELSE v - 1 BY <1>4, <3>1
    <3>3. i # k - N => i + 1 \in 1..(k - N) /\ k + 1 - (i + 1) = v - 1 BY <1>1, <1>3
    <3>4. i # k - N => q[i + 1] = v - 1 BY <1>9, <3>3
    <3>5. q[i] = v BY <1>9
    <3> HIDE DEF v
    <3> QED BY <3>1, <3>2, <3>4, <3>5
  <2> QED BY <1>3, <1>8, <2>1, <2>2 DEF Runs
<1>12. \A v \in 1..k : On(q, v) <=> v > N
  <2>1. ASSUME NEW v \in 1..k, v > N PROVE On(q, v)
    <3> DEFINE i == k + 1 - v
    <3>1. i \in 1..(k - N) /\ k + 1 - i = v BY <1>1, <1>3, <2>1
    <3> HIDE DEF i
    <3>2. q[i] = v BY <1>9, <3>1
    <3> QED BY <1>8, <3>1, <3>2 DEF On
  <2>2. ASSUME NEW v \in 1..k, NEW i \in 1..(k - N), q[i] = v PROVE v > N
      BY <1>1, <1>3, <1>9, <2>2
  <2> QED BY <1>8, <2>1, <2>2 DEF On
<1>13. ASSUME NEW l \in Types, l # "free"
       PROVE  /\ M[l] \in Seq(1..k) /\ IsInjective(M[l])
              /\ Runs(ny, g[l], M[l]) /\ Back(py, M[l])
              /\ \A v \in 1..k : On(M[l], v) <=> t[v].type = l
  <2> DEFINE f == L[l]
             e == Len(f)
  <2>1. /\ f \in Seq(1..N) /\ IsInjective(f) /\ Runs(nx, h[l], f) /\ Back(pv, f)
        /\ \A v \in 1..N : On(f, v) <=> s[v].type = l
      BY <1>1, <1>13
  <2>2. e \in Nat /\ f \in [1..e -> 1..N] BY <1>1, <2>1, SeqIs
  <2>3. \A i \in 1..e : f[i] \in 1..N /\ f[i] \in 1..k BY <1>4, <2>2
  <2>4. f \in Seq(1..k)
    <3>1. f = [i \in 1..e |-> f[i]] BY <2>2
    <3> HIDE DEF f, e
    <3>2. f \in [1..e -> 1..k] BY <2>3, <3>1
    <3> QED BY <1>3, <2>2, <3>2, SeqFrom
  <2>5. \A i \in 1..Len(f) : ny[f[i]] = nx[f[i]] /\ py[f[i]] = pv[f[i]] BY <1>4, <2>3
  <2>6. \A v : On(f, v) => v \in 1..N BY <2>3 DEF On
  <2>7. M[l] = f /\ g[l] = h[l] BY <1>6, <1>7, <1>13
  <2> HIDE DEF f, e
  <2>8. Runs(ny, h[l], f) BY <2>1, <2>5, SameLinks
  <2>9. Back(py, f) BY <2>1, <2>5, SameLinks
  <2>10. \A v \in 1..k : v \in 1..N \/ v > N BY <1>1
  <2>11. \A v \in 1..k : v > N => v \notin 1..N BY <1>1
  <2>12. \A v \in 1..k : On(f, v) <=> t[v].type = l
      BY <1>4, <1>13, <2>1, <2>6, <2>10, <2>11
  <2> QED BY <2>1, <2>4, <2>7, <2>8, <2>9, <2>12
<1>14. \A v \in 1..k : v > N <=> t[v].type = "free"
  <2>1. \A v \in 1..k : v \in 1..N \/ v > N BY <1>1
  <2>2. \A v \in 1..N : ~(v > N) BY <1>1
  <2> QED BY <1>4, <1>5, <2>1, <2>2
<1>15. ASSUME NEW l \in Types
       PROVE  /\ M[l] \in Seq(1..k) /\ IsInjective(M[l]) /\ Runs(ny, g[l], M[l])
              /\ \A v \in 1..k : On(M[l], v) <=> t[v].type = l
              /\ l # "free" => Back(py, M[l])
  <2>1. CASE l = "free" BY <1>6, <1>7, <1>8, <1>10, <1>11, <1>12, <1>14, <2>1
  <2>2. CASE l # "free" BY <1>13, <2>2
  <2> QED BY <2>1, <2>2
<1>16. M \in [Types -> Seq(1..k)]
  <2>1. M = [l \in Types |-> M[l]] BY <1>1 DEF M
  <2> QED BY <1>15, <2>1
<1>17. Threaded(t, g, M) BY <1>7, <1>15, <1>16 DEF Threaded, ny, py
<1> QED BY <1>17

-----------------------------------------------------------------------------
(* The functions of the array *)

\* bp_alloc finds a free slot.
LEMMA FillKeeps ==
  ASSUME NEW z, Listed(z)
  PROVE  LET y == Fill(z)
         IN /\ Listed(y) /\ Use(y) = Use(z) /\ (z.h["free"] # 0 => y = z)
            /\ NewSlot(z) \in 1..Len(y.s) /\ NewSlot(z) \notin Use(y)
            /\ \A v \in Use(z) : Same(z, y, v)
<1> DEFINE N == Len(z.s)
           k == Grown(N)
           y == Fill(z)
<1>1. PICK L : Threaded(z.s, z.h, L) BY DEF Listed
<1>2. /\ N \in Nat /\ z.s \in Seq(Bp) /\ z.h \in [Types -> Nat] /\ "free" \in Types
      /\ "none" \in Func
    BY <1>1, BpFields DEF Threaded, Types, Func
<1>3. CASE z.h["free"] # 0
  <2>1. y = z /\ NewSlot(z) = z.h["free"] BY <1>3 DEF Fill, NewSlot
  <2>2. z.h["free"] \in 1..N /\ z.s[z.h["free"]].type = "free" BY <1>1, <1>2, <1>3, Leads
  <2> QED BY <2>1, <2>2 DEF Use, Same
<1>4. CASE z.h["free"] = 0
  <2> DEFINE r(i) == [type |-> "free", func |-> "none",
                      next |-> IF i = 1 THEN 0 ELSE N + i - 1, prev |-> 0]
             m == k - N
             f == [i \in 1..m |-> r(i)]
             t == z.s \o f
             g == [z.h EXCEPT !["free"] = k]
  <2>1. y = [s |-> t, h |-> g] BY <1>4 DEF Fill
  <2>2. k \in Nat /\ k > N /\ m \in Nat /\ m # 0 /\ N + m = k BY <1>2 DEF Grown
  <2>3. f \in Seq(Bp) /\ Len(f) = m
    <3>1. \A i \in 1..m : r(i) \in Bp
      <4> SUFFICES ASSUME NEW i \in 1..m PROVE r(i) \in Bp
          OBVIOUS
      <4>1. (IF i = 1 THEN 0 ELSE N + i - 1) \in Nat BY <1>2, <2>2
      <4> QED BY <1>2, <4>1 DEF Bp
    <3> HIDE DEF r
    <3>2. f \in [1..m -> Bp] BY <3>1
    <3> HIDE DEF f, m
    <3> QED BY <2>2, <3>2, BpSeq
  <2>4. \A i \in 1..m : f[i] = r(i) OBVIOUS
  <2> DEFINE s == z.s
  <2>5. s \in Seq(Bp) /\ Len(s) = N BY <1>2
  <2> HIDE DEF f, m, k, N, y
  <2>6. /\ t \in Seq(Bp) /\ Len(t) = N + m
        /\ \A v \in 1..N : t[v] = z.s[v]
        /\ \A i \in 1..m : t[N + i] = f[i]
    <3> HIDE DEF s
    <3>1. /\ s \o f \in Seq(Bp) /\ Len(s \o f) = N + m
          /\ \A v \in 1..(N + m) : (s \o f)[v] = IF v <= N THEN s[v] ELSE f[v - N]
        BY <1>2, <2>2, <2>3, <2>5, ConcatProperties
    <3>2. \A v \in 1..N : v \in 1..(N + m) /\ v <= N BY <1>2, <2>2
    <3>4. \A v \in 1..N : (s \o f)[v] = s[v] BY <3>1, <3>2
    <3>5. ASSUME NEW i \in 1..m PROVE (s \o f)[N + i] = f[i]
      <4> DEFINE v == N + i
      <4>1. v \in 1..(N + m) /\ ~(v <= N) /\ v - N = i BY <1>2, <2>2
      <4> HIDE DEF v
      <4>2. (s \o f)[v] = f[i] BY <3>1, <4>1
      <4> QED BY <4>2 DEF v
    <3> QED BY <3>1, <3>4, <3>5 DEF s
  <2> HIDE DEF t
  <2>7. \A v \in 1..k : v > N =>
          t[v].type = "free" /\ t[v].next = IF v = N + 1 THEN 0 ELSE v - 1
    <3> SUFFICES ASSUME NEW v \in 1..k, v > N
                 PROVE  t[v].type = "free" /\ t[v].next = IF v = N + 1 THEN 0 ELSE v - 1
        OBVIOUS
    <3> DEFINE i == v - N
    <3>1. i \in 1..m /\ N + i = v /\ (i = 1 <=> v = N + 1) BY <1>2, <2>2
    <3>2. N + i - 1 = v - 1 BY <1>2, <2>2
    <3> HIDE DEF i
    <3>3. r(i).type = "free" /\ r(i).next = IF i = 1 THEN 0 ELSE v - 1 BY <3>2
    <3> HIDE DEF r
    <3>4. f[i] = r(i) /\ t[N + i] = f[i] BY <2>4, <2>6, <3>1
    <3> QED BY <3>1, <3>3, <3>4
  <2>8. g \in [Types -> Nat] /\ \A l \in Types : g[l] = IF l = "free" THEN k ELSE z.h[l]
      BY <1>2, <2>2
  <2> HIDE DEF g
  <2>9. \E M : Threaded(t, g, M)
    <3> DEFINE h == z.h
    <3>1. PICK K : Threaded(s, h, K) BY <1>1 DEF s
    <3>2. /\ \A v \in 1..Len(s) : t[v] = s[v]
          /\ \A v \in 1..k : v > Len(s) =>
               t[v].type = "free" /\ t[v].next = IF v = Len(s) + 1 THEN 0 ELSE v - 1
        BY <2>5, <2>6, <2>7 DEF s
    <3>3. k \in Nat /\ k > Len(s) /\ t \in Seq(Bp) /\ Len(t) = k BY <2>2, <2>5, <2>6
    <3>4. h["free"] = 0 /\ g \in [Types -> Nat]
          /\ \A l \in Types : g[l] = IF l = "free" THEN k ELSE h[l]
        BY <1>4, <2>8
    <3> HIDE DEF s, h
    <3> QED BY <3>1, <3>2, <3>3, <3>4, GrowThreads, SMTT(40)
  <2>10. Listed(y) BY <2>1, <2>9 DEF Listed
  <2>11. y.s = t /\ y.h = g /\ NewSlot(z) = k /\ Len(y.s) = k
      BY <1>2, <2>1, <2>2, <2>6, <2>8 DEF NewSlot, y
  <2>12. k \in 1..k BY <1>2, <2>2
  <2>13. \A v \in 1..k : v \in 1..N \/ v > N BY <1>2
  <2>14. \A v \in 1..N : v \in 1..k BY <1>2, <2>2
  <2>15. Use(y) = Use(z) BY <2>6, <2>7, <2>11, <2>13, <2>14 DEF Use, N
  <2>16. NewSlot(z) \notin Use(y) BY <2>2, <2>7, <2>11, <2>12 DEF Use
  <2>17. \A v \in Use(z) : Same(z, y, v) BY <2>6, <2>11 DEF Use, Same, N
  <2> QED BY <1>4, <2>10, <2>11, <2>12, <2>15, <2>16, <2>17 DEF y
<1> QED BY <1>3, <1>4

\* A breakpoint of another kind in the place of n
Taken(s, n, type, func) == [s EXCEPT ![n].type = type, ![n].func = func, ![n].prev = 0]

LEMMA TakeSlot ==
  ASSUME NEW s \in Seq(Bp), NEW n \in 1..Len(s), NEW type \in Types, NEW func \in Func
  PROVE  LET t == Taken(s, n, type, func)
         IN /\ t \in Seq(Bp) /\ Len(t) = Len(s)
            /\ \A v \in 1..Len(s) :
                 /\ t[v].type = IF v = n THEN type ELSE s[v].type
                 /\ t[v].func = IF v = n THEN func ELSE s[v].func
                 /\ t[v].next = s[v].next
                 /\ t[v].prev = IF v = n THEN 0 ELSE s[v].prev
<1> DEFINE t == [s EXCEPT ![n].type = type, ![n].func = func, ![n].prev = 0]
           r == [s[n] EXCEPT !.type = type, !.func = func, !.prev = 0]
           u == [s EXCEPT ![n] = r]
<1>1. s[n] \in Bp BY BpFields
<1>2. /\ r \in Bp /\ r.type = type /\ r.func = func /\ r.next = s[n].next /\ r.prev = 0
    BY <1>1 DEF Bp
<1>3. t = u
  <2> DEFINE k == Len(s)
  <2>1. k \in Nat /\ s \in [1..k -> Bp] /\ n \in 1..k BY LenProperties
  <2> HIDE DEF k
  <2> QED BY <2>1
<1> HIDE DEF t, r
<1>4. /\ u \in Seq(Bp) /\ Len(u) = Len(s)
      /\ \A v \in 1..Len(s) : u[v] = IF v = n THEN r ELSE s[v]
    BY <1>2, SetBp
<1> HIDE DEF u
<1>5. /\ t \in Seq(Bp) /\ Len(t) = Len(s)
      /\ \A v \in 1..Len(s) :
           /\ t[v].type = IF v = n THEN type ELSE s[v].type
           /\ t[v].func = IF v = n THEN func ELSE s[v].func
           /\ t[v].next = s[v].next
           /\ t[v].prev = IF v = n THEN 0 ELSE s[v].prev
    BY <1>2, <1>3, <1>4
<1> QED BY <1>5 DEF t, Taken

\* bp_add makes it the first one of the list.
LEMMA LinkFirst ==
  ASSUME NEW z, z.s \in Seq(Bp), z.h \in [Types -> Nat], NEW n \in 1..Len(z.s), n \in Nat,
         NEW type \in Types, z.h[type] # 0 => z.h[type] \in 1..Len(z.s)
  PROVE  LET y == bp_add(z, n, type)
         IN /\ y.s \in Seq(Bp) /\ Len(y.s) = Len(z.s) /\ y.h \in [Types -> Nat]
            /\ \A l \in Types : y.h[l] = IF l = type THEN n ELSE z.h[l]
            /\ \A v \in 1..Len(z.s) :
                 /\ y.s[v].type = z.s[v].type /\ y.s[v].func = z.s[v].func
                 /\ y.s[v].next = IF v = n THEN z.h[type] ELSE z.s[v].next
                 /\ y.s[v].prev = IF z.h[type] # 0 /\ v = z.h[type] THEN n ELSE z.s[v].prev
<1> DEFINE s == z.s
           h == z.h
           f == h[type]
           b == [s EXCEPT ![n].next = f]
           u == [b EXCEPT ![f].prev = n]
           c == IF f = 0 THEN b ELSE u
           g == [h EXCEPT ![type] = n]
           y == bp_add(z, n, type)
<1>1. y = [s |-> c, h |-> g] BY DEF bp_add
<1> HIDE DEF y
<1>2. y.s = c /\ y.h = g BY <1>1
<1>3. f \in Nat /\ (f # 0 => f \in 1..Len(s)) OBVIOUS
<1>4. g \in [Types -> Nat] /\ \A l \in Types : g[l] = IF l = type THEN n ELSE h[l] OBVIOUS
<1>8. s \in Seq(Bp) /\ n \in 1..Len(s) OBVIOUS
<1> HIDE DEF f, g, s, h
<1>5. /\ b \in Seq(Bp) /\ Len(b) = Len(s)
      /\ \A v \in 1..Len(s) :
           /\ b[v].type = s[v].type /\ b[v].func = s[v].func /\ b[v].prev = s[v].prev
           /\ b[v].next = IF v = n THEN f ELSE s[v].next
    BY <1>3, <1>8, SetNext
<1> HIDE DEF b
<1>6. /\ c \in Seq(Bp) /\ Len(c) = Len(s)
      /\ \A v \in 1..Len(s) :
           /\ c[v].type = b[v].type /\ c[v].func = b[v].func /\ c[v].next = b[v].next
           /\ c[v].prev = IF f # 0 /\ v = f THEN n ELSE b[v].prev
  <2>1. CASE f = 0 BY <1>5, <2>1
  <2>2. CASE f # 0
    <3>1. f \in 1..Len(b) BY <1>3, <1>5, <2>2
    <3>2. /\ u \in Seq(Bp) /\ Len(u) = Len(b)
          /\ \A v \in 1..Len(b) :
               /\ u[v].type = b[v].type /\ u[v].func = b[v].func /\ u[v].next = b[v].next
               /\ u[v].prev = IF v = f THEN n ELSE b[v].prev
        BY <1>5, <3>1, SetPrev
    <3>3. c = u BY <2>2
    <3> HIDE DEF u, c
    <3> QED BY <1>5, <2>2, <3>2, <3>3
  <2> QED BY <2>1, <2>2
<1> HIDE DEF u, c
<1>7. \A v \in 1..Len(s) :
        /\ c[v].type = s[v].type /\ c[v].func = s[v].func
        /\ c[v].next = IF v = n THEN f ELSE s[v].next
        /\ c[v].prev = IF f # 0 /\ v = f THEN n ELSE s[v].prev
    BY <1>5, <1>6
<1> QED BY <1>2, <1>4, <1>5, <1>6, <1>7 DEF y, f, s, h

\* tilem_z80_add_breakpoint puts a breakpoint of its own in the list of its type.
LEMMA AddKeeps ==
  ASSUME NEW z, Listed(z), NEW type \in List, NEW func \in Func
  PROVE  LET y == add_breakpoint(z, type, func)
             n == NewSlot(z)
         IN /\ Listed(y) /\ n \in 1..Len(y.s) /\ n \notin Use(z) /\ Use(y) = Use(z) \cup {n}
            /\ y.s[n].type = type /\ y.s[n].func = func
            /\ \A v \in Use(z) : Same(z, y, v)
            /\ Len(y.s) = Len(Fill(z).s)
<1> DEFINE y == add_breakpoint(z, type, func)
           w == Fill(z)
           s == w.s
           h == w.h
           n == NewSlot(z)
           a == Taken(s, n, type, func)
           e == [h EXCEPT !["free"] = s[n].next]
           x == [s |-> a, h |-> e]
<1>1. y = bp_add(x, n, type) BY DEF add_breakpoint, Taken
<1>2. n = h["free"] BY DEF NewSlot
<1>3. /\ Listed(w) /\ n \in 1..Len(s) /\ n \notin Use(w) /\ Use(w) = Use(z)
      /\ \A v \in Use(z) : Same(z, w, v)
    BY FillKeeps
<1> HIDE DEF y, w, n
<1>4. PICK L : Threaded(s, h, L) BY <1>3 DEF Listed
<1> HIDE DEF s, h
<1>5. s \in Seq(Bp) /\ h \in [Types -> Nat] /\ Len(s) \in Nat BY <1>4, BpFields DEF Threaded
<1>6. type \in Types /\ "free" \in Types /\ type # "free" BY DEF Types, List
<1>7. n \in Nat /\ n # 0 /\ s[n].next \in Nat BY <1>3, <1>5, BpFields
<1>8. h[type] \in Nat /\ (h[type] # 0 => h[type] \in 1..Len(s) /\ s[h[type]].type = type)
    BY <1>4, <1>5, <1>6, Leads
<1>9. /\ e \in [Types -> Nat]
      /\ \A l \in Types : e[l] = IF l = "free" THEN s[n].next ELSE h[l]
    BY <1>5, <1>6, <1>7
<1>10. /\ a \in Seq(Bp) /\ Len(a) = Len(s)
       /\ \A v \in 1..Len(s) :
            /\ a[v].type = IF v = n THEN type ELSE s[v].type
            /\ a[v].func = IF v = n THEN func ELSE s[v].func
            /\ a[v].next = s[v].next
            /\ a[v].prev = IF v = n THEN 0 ELSE s[v].prev
    BY <1>3, <1>5, <1>6, TakeSlot
<1> HIDE DEF a, e
<1>24. x.s = a /\ x.h = e OBVIOUS
<1> HIDE DEF x
<1>11. e[type] = h[type] /\ (e[type] # 0 => e[type] \in 1..Len(a)) /\ n \in 1..Len(a)
    BY <1>3, <1>6, <1>8, <1>9, <1>10
<1> DEFINE c == y.s
           g == y.h
<1>12. /\ c \in Seq(Bp) /\ Len(c) = Len(a)
       /\ g \in [Types -> Nat] /\ \A l \in Types : g[l] = IF l = type THEN n ELSE e[l]
       /\ \A v \in 1..Len(a) :
            /\ c[v].type = a[v].type /\ c[v].func = a[v].func
            /\ c[v].next = IF v = n THEN e[type] ELSE a[v].next
            /\ c[v].prev = IF e[type] # 0 /\ v = e[type] THEN n ELSE a[v].prev
  <2>1. /\ x.s \in Seq(Bp) /\ x.h \in [Types -> Nat] /\ n \in 1..Len(x.s)
        /\ (x.h[type] # 0 => x.h[type] \in 1..Len(x.s))
      BY <1>9, <1>10, <1>11, <1>24
  <2> HIDE DEF c, g
  <2>2. LET b == bp_add(x, n, type)
        IN /\ b.s \in Seq(Bp) /\ Len(b.s) = Len(x.s) /\ b.h \in [Types -> Nat]
           /\ \A l \in Types : b.h[l] = IF l = type THEN n ELSE x.h[l]
           /\ \A v \in 1..Len(x.s) :
                /\ b.s[v].type = x.s[v].type /\ b.s[v].func = x.s[v].func
                /\ b.s[v].next = IF v = n THEN x.h[type] ELSE x.s[v].next
                /\ b.s[v].prev = IF x.h[type] # 0 /\ v = x.h[type] THEN n ELSE x.s[v].prev
      BY <1>6, <1>7, <2>1, LinkFirst
  <2> QED BY <1>1, <1>24, <2>2 DEF c, g
<1> HIDE DEF c, g
<1>13. \A v \in 1..Len(s) : v # 0 BY <1>5
<1>14. h[type] # n
  <2>1. s[n].type = "free" BY <1>3 DEF Use, s
  <2> QED BY <1>6, <1>7, <1>8, <2>1
<1>15. \A v \in 1..Len(s) :
         /\ c[v].type = IF v = n THEN type ELSE s[v].type
         /\ c[v].func = IF v = n THEN func ELSE s[v].func
         /\ c[v].next = IF v = n THEN h[type] ELSE s[v].next
         /\ c[v].prev = IF v = n THEN 0 ELSE IF v = h[type] THEN n ELSE s[v].prev
    BY <1>10, <1>11, <1>12, <1>13, <1>14
<1>16. \A l \in Types : g[l] = IF l = type THEN n ELSE IF l = "free" THEN s[n].next ELSE h[l]
    BY <1>9, <1>12
<1>17. c \in Seq(Bp) /\ Len(c) = Len(s) /\ g \in [Types -> Nat] BY <1>10, <1>12
<1>18. \E M : Threaded(c, g, M)
    BY <1>2, <1>4, <1>7, <1>15, <1>16, <1>17, TakeThreads
<1>19. Listed(y) BY <1>18 DEF Listed, c, g
<1>20. Use(y) = Use(w) \cup {n} BY <1>3, <1>6, <1>15, <1>17 DEF Use, s, c
<1>21. \A v \in Use(w) : Same(w, y, v) BY <1>3, <1>15 DEF Use, Same, s, c
<1>22. \A v \in Use(z) : Same(z, y, v) BY <1>3, <1>21 DEF Same
<1>23. y.s[n].type = type /\ y.s[n].func = func /\ n \in 1..Len(y.s) /\ Len(y.s) = Len(s)
    BY <1>3, <1>15, <1>17 DEF c
<1> QED BY <1>3, <1>19, <1>20, <1>22, <1>23 DEF y, n, s, w

\* The link back of a breakpoint that is set leads to one
LEMMA LeadsBack ==
  ASSUME NEW s, NEW h, NEW L, Threaded(s, h, L), NEW n \in 1..Len(s), s[n].type # "free",
         s[n].prev # 0
  PROVE  s[n].prev \in 1..Len(s)
<1> DEFINE l == s[n].type
           q == L[l]
           N == Len(s)
           pv == Pv(s)
<1>1. l \in Types /\ N \in Nat /\ pv[n] = s[n].prev BY BpFields DEF Threaded, Pv
<1>2. /\ q \in Seq(1..N) /\ Back(pv, q) /\ On(q, n) /\ n \in 1..N
    BY <1>1 DEF Threaded
<1> DEFINE k == Len(q)
<1>3. k \in Nat /\ q \in [1..k -> 1..N]
  <2> HIDE DEF q, N
  <2> QED BY <1>1, <1>2, SeqIs
<1>4. PICK i \in 1..k : q[i] = n BY <1>2 DEF On
<1>5. pv[q[i]] = IF i = 1 THEN 0 ELSE q[i - 1] BY <1>2 DEF Back
<1> HIDE DEF q, N, k, pv
<1>6. i # 1 BY <1>1, <1>4, <1>5
<1>7. i - 1 \in 1..k BY <1>3, <1>6
<1>8. s[n].prev = q[i - 1] /\ q[i - 1] \in 1..N BY <1>1, <1>3, <1>4, <1>5, <1>6, <1>7
<1> QED BY <1>8 DEF N

\* bp_rem joins the neighbours of a breakpoint.
LEMMA Unlink ==
  ASSUME NEW z, z.s \in Seq(Bp), z.h \in [Types -> Nat], NEW n \in 1..Len(z.s),
         z.s[n].prev # 0 => z.s[n].prev \in 1..Len(z.s),
         z.s[n].next # 0 => z.s[n].next \in 1..Len(z.s)
  PROVE  LET y == bp_rem(z, n)
             p == z.s[n].prev
             q == z.s[n].next
         IN /\ y.s \in Seq(Bp) /\ Len(y.s) = Len(z.s) /\ y.h \in [Types -> Nat]
            /\ \A l \in Types : y.h[l] = IF l = z.s[n].type /\ z.h[l] = n THEN q ELSE z.h[l]
            /\ \A v \in 1..Len(z.s) :
                 /\ y.s[v].type = z.s[v].type /\ y.s[v].func = z.s[v].func
                 /\ y.s[v].next = IF p # 0 /\ v = p THEN q ELSE z.s[v].next
                 /\ y.s[v].prev = IF q # 0 /\ v = q THEN p ELSE z.s[v].prev
<1> DEFINE s == z.s
           h == z.h
           p == s[n].prev
           q == s[n].next
           type == s[n].type
           b == [s EXCEPT ![p].next = q]
           a == IF p = 0 THEN s ELSE b
           u == [a EXCEPT ![q].prev = p]
           c == IF q = 0 THEN a ELSE u
           f == [h EXCEPT ![type] = q]
           g == IF h[type] = n THEN f ELSE h
           y == bp_rem(z, n)
<1>1. y = [s |-> c, h |-> g] BY DEF bp_rem
<1> HIDE DEF y
<1>2. y.s = c /\ y.h = g BY <1>1
<1>3. s \in Seq(Bp) /\ h \in [Types -> Nat] /\ n \in 1..Len(s) OBVIOUS
<1>4. p \in Nat /\ q \in Nat /\ type \in Types
  <2> HIDE DEF s
  <2> QED BY <1>3, BpFields
<1>5. (p # 0 => p \in 1..Len(s)) /\ (q # 0 => q \in 1..Len(s)) OBVIOUS
<1> HIDE DEF p, q, type, s, h
<1>6. /\ g \in [Types -> Nat]
      /\ \A l \in Types : g[l] = IF l = type /\ h[l] = n THEN q ELSE h[l]
    BY <1>3, <1>4
<1> HIDE DEF f, g
<1>7. /\ a \in Seq(Bp) /\ Len(a) = Len(s)
      /\ \A v \in 1..Len(s) :
           /\ a[v].type = s[v].type /\ a[v].func = s[v].func /\ a[v].prev = s[v].prev
           /\ a[v].next = IF p # 0 /\ v = p THEN q ELSE s[v].next
  <2>1. CASE p = 0 BY <1>3, <2>1
  <2>2. CASE p # 0
    <3>1. /\ b \in Seq(Bp) /\ Len(b) = Len(s)
          /\ \A v \in 1..Len(s) :
               /\ b[v].type = s[v].type /\ b[v].func = s[v].func /\ b[v].prev = s[v].prev
               /\ b[v].next = IF v = p THEN q ELSE s[v].next
        BY <1>3, <1>4, <1>5, <2>2, SetNext
    <3>2. a = b BY <2>2
    <3> HIDE DEF a, b
    <3> QED BY <2>2, <3>1, <3>2
  <2> QED BY <2>1, <2>2
<1> HIDE DEF a, b
<1>8. /\ c \in Seq(Bp) /\ Len(c) = Len(s)
      /\ \A v \in 1..Len(s) :
           /\ c[v].type = a[v].type /\ c[v].func = a[v].func /\ c[v].next = a[v].next
           /\ c[v].prev = IF q # 0 /\ v = q THEN p ELSE a[v].prev
  <2>1. CASE q = 0 BY <1>7, <2>1
  <2>2. CASE q # 0
    <3>1. q \in 1..Len(a) BY <1>5, <1>7, <2>2
    <3>2. /\ u \in Seq(Bp) /\ Len(u) = Len(a)
          /\ \A v \in 1..Len(a) :
               /\ u[v].type = a[v].type /\ u[v].func = a[v].func /\ u[v].next = a[v].next
               /\ u[v].prev = IF v = q THEN p ELSE a[v].prev
        BY <1>4, <1>7, <3>1, SetPrev
    <3>3. c = u BY <2>2
    <3> HIDE DEF u, c
    <3> QED BY <1>7, <2>2, <3>2, <3>3
  <2> QED BY <2>1, <2>2
<1> HIDE DEF u, c
<1>9. \A v \in 1..Len(s) :
        /\ c[v].type = s[v].type /\ c[v].func = s[v].func
        /\ c[v].next = IF p # 0 /\ v = p THEN q ELSE s[v].next
        /\ c[v].prev = IF q # 0 /\ v = q THEN p ELSE s[v].prev
    BY <1>7, <1>8
<1> QED BY <1>2, <1>6, <1>7, <1>8, <1>9 DEF y, p, q, type, s, h

\* bp_free makes it the first free one.
LEMMA FreeFirst ==
  ASSUME NEW z, z.s \in Seq(Bp), z.h \in [Types -> Nat], NEW n \in 1..Len(z.s), n \in Nat
  PROVE  LET y == bp_free(z, n)
         IN /\ y.s \in Seq(Bp) /\ Len(y.s) = Len(z.s) /\ y.h \in [Types -> Nat]
            /\ \A l \in Types : y.h[l] = IF l = "free" THEN n ELSE z.h[l]
            /\ \A v \in 1..Len(z.s) : v # n => y.s[v] = z.s[v]
            /\ y.s[n].type = "free" /\ y.s[n].next = z.h["free"] /\ y.s[n].prev = 0
<1> DEFINE s == z.s
           h == z.h
           r == [type |-> "free", func |-> "none", next |-> h["free"], prev |-> 0]
           c == [s EXCEPT ![n] = r]
           g == [h EXCEPT !["free"] = n]
           y == bp_free(z, n)
<1>1. y = [s |-> c, h |-> g] BY DEF bp_free
<1> HIDE DEF y
<1>2. y.s = c /\ y.h = g BY <1>1
<1>3. /\ s \in Seq(Bp) /\ h \in [Types -> Nat] /\ n \in 1..Len(s)
      /\ "free" \in Types /\ "none" \in Func
    BY DEF Types, Func
<1> HIDE DEF s, h
<1>4. h["free"] \in Nat BY <1>3
<1>5. r \in Bp /\ r.type = "free" /\ r.next = h["free"] /\ r.prev = 0 BY <1>3, <1>4 DEF Bp
<1>6. g \in [Types -> Nat] /\ \A l \in Types : g[l] = IF l = "free" THEN n ELSE h[l]
    BY <1>3
<1> HIDE DEF r, g
<1>7. /\ c \in Seq(Bp) /\ Len(c) = Len(s)
      /\ \A v \in 1..Len(s) : c[v] = IF v = n THEN r ELSE s[v]
    BY <1>3, <1>5, SetBp
<1> HIDE DEF c
<1> QED BY <1>2, <1>3, <1>5, <1>6, <1>7 DEF y, s, h

\* tilem_z80_remove_breakpoint frees a breakpoint that is set, and that one alone.
LEMMA RemoveKeeps ==
  ASSUME NEW z, Listed(z), NEW n \in Use(z)
  PROVE  LET y == remove_breakpoint(z, n)
         IN /\ Listed(y) /\ Use(y) = Use(z) \ {n} /\ NewSlot(y) = n
            /\ \A v \in Use(y) : Same(z, y, v)
            /\ Len(y.s) = Len(z.s)
<1> DEFINE y == remove_breakpoint(z, n)
           w == bp_rem(z, n)
           s == z.s
           h == z.h
           p == s[n].prev
           q == s[n].next
           type == s[n].type
<1>1. PICK L : Threaded(s, h, L) BY DEF Listed
<1>2. n \in 1..Len(s) /\ type # "free" BY DEF Use
<1>3. y = bp_free(w, n)
  <2>1. s \in Seq(Bp) BY <1>1 DEF Threaded
  <2>2. DOMAIN s = 1..Len(s)
    <3> HIDE DEF s
    <3> QED BY <2>1, BpFields
  <2>3. Valid(z, n) BY <1>2, <2>2 DEF Valid
  <2> QED BY <2>3 DEF remove_breakpoint
<1> HIDE DEF y, w, s, h
<1>4. s \in Seq(Bp) /\ h \in [Types -> Nat] /\ Len(s) \in Nat /\ "free" \in Types
    BY <1>1, BpFields DEF Threaded, Types
<1>5. n \in Nat /\ n # 0 BY <1>2, <1>4
<1>6. (p # 0 => p \in 1..Len(s)) /\ (q # 0 => q \in 1..Len(s)) BY <1>1, <1>2, Leads, LeadsBack
<1>7. /\ w.s \in Seq(Bp) /\ Len(w.s) = Len(s) /\ w.h \in [Types -> Nat]
      /\ \A l \in Types : w.h[l] = IF l = type /\ h[l] = n THEN q ELSE h[l]
      /\ \A v \in 1..Len(s) :
           /\ w.s[v].type = s[v].type /\ w.s[v].func = s[v].func
           /\ w.s[v].next = IF p # 0 /\ v = p THEN q ELSE s[v].next
           /\ w.s[v].prev = IF q # 0 /\ v = q THEN p ELSE s[v].prev
  <2>1. /\ z.s \in Seq(Bp) /\ z.h \in [Types -> Nat] /\ n \in 1..Len(z.s)
        /\ (z.s[n].prev # 0 => z.s[n].prev \in 1..Len(z.s))
        /\ (z.s[n].next # 0 => z.s[n].next \in 1..Len(z.s))
      BY <1>2, <1>4, <1>6 DEF s, h
  <2>2. LET b == bp_rem(z, n)
            i == z.s[n].prev
            j == z.s[n].next
        IN /\ b.s \in Seq(Bp) /\ Len(b.s) = Len(z.s) /\ b.h \in [Types -> Nat]
           /\ \A l \in Types : b.h[l] = IF l = z.s[n].type /\ z.h[l] = n THEN j ELSE z.h[l]
           /\ \A v \in 1..Len(z.s) :
                /\ b.s[v].type = z.s[v].type /\ b.s[v].func = z.s[v].func
                /\ b.s[v].next = IF i # 0 /\ v = i THEN j ELSE z.s[v].next
                /\ b.s[v].prev = IF j # 0 /\ v = j THEN i ELSE z.s[v].prev
      BY <2>1, Unlink
  <2> QED BY <2>2 DEF w, s, h
<1> DEFINE c == y.s
           g == y.h
<1>8. /\ c \in Seq(Bp) /\ Len(c) = Len(s) /\ g \in [Types -> Nat]
      /\ \A l \in Types : g[l] = IF l = "free" THEN n ELSE w.h[l]
      /\ \A v \in 1..Len(s) : v # n => c[v] = w.s[v]
      /\ c[n].type = "free" /\ c[n].next = w.h["free"] /\ c[n].prev = 0
  <2> HIDE DEF c, g
  <2>1. w.s \in Seq(Bp) /\ w.h \in [Types -> Nat] /\ n \in 1..Len(w.s) BY <1>2, <1>7
  <2>2. LET b == bp_free(w, n)
        IN /\ b.s \in Seq(Bp) /\ Len(b.s) = Len(w.s) /\ b.h \in [Types -> Nat]
           /\ \A l \in Types : b.h[l] = IF l = "free" THEN n ELSE w.h[l]
           /\ \A v \in 1..Len(w.s) : v # n => b.s[v] = w.s[v]
           /\ b.s[n].type = "free" /\ b.s[n].next = w.h["free"] /\ b.s[n].prev = 0
      BY <1>5, <2>1, FreeFirst
  <2> QED BY <1>3, <1>7, <2>2 DEF c, g
<1>9. w.h["free"] = h["free"] BY <1>2, <1>4, <1>7
<1> HIDE DEF c, g
<1>10. \A v \in 1..Len(s) : v # 0 BY <1>4
<1>11. \A v \in 1..Len(s) :
         /\ c[v].type = IF v = n THEN "free" ELSE s[v].type
         /\ c[v].next = IF v = n THEN h["free"] ELSE IF v = s[n].prev THEN s[n].next
                        ELSE s[v].next
         /\ c[v].prev = IF v = n THEN 0 ELSE IF v = s[n].next THEN s[n].prev ELSE s[v].prev
    BY <1>7, <1>8, <1>9, <1>10
<1>12. \A l \in Types : g[l] = IF l = "free" THEN n
                               ELSE IF l = s[n].type /\ h[l] = n THEN s[n].next ELSE h[l]
    BY <1>7, <1>8
<1>18. /\ c \in Seq(Bp) /\ Len(c) = Len(s) /\ g \in [Types -> Nat]
       /\ n \in 1..Len(s) /\ s[n].type # "free"
    BY <1>2, <1>8
<1>13. \E M : Threaded(c, g, M)
  <2> HIDE DEF type, p, q
  <2> QED BY <1>1, <1>11, <1>12, <1>18, DropThreads, SMTT(60)
<1>14. Listed(y) BY <1>13 DEF Listed, c, g
<1>15. Use(y) = Use(z) \ {n} BY <1>8, <1>11 DEF Use, c, s
<1>16. \A v \in Use(y) : Same(z, y, v) BY <1>7, <1>8, <1>11, <1>15 DEF Use, Same, c, s
<1>17. NewSlot(y) = n
  <2>1. y.h["free"] = n BY <1>4, <1>12 DEF g
  <2>2. Fill(y) = y BY <1>5, <2>1 DEF Fill
  <2> QED BY <2>1, <2>2 DEF NewSlot
<1> QED BY <1>8, <1>14, <1>15, <1>16, <1>17 DEF y, c, s

-----------------------------------------------------------------------------
(* Who knows which breakpoint: the debugger the step breakpoint s, the audio   *)
(* filter l, and the debugger's breakpoint b for its mode m the breakpoint     *)
(* I[b][m], which it put in the list K[b][m]                                   *)
Mode == {"r", "w", "x"}

\* A step breakpoint waits for an opcode, or for the address it replaced itself with
MayStep(z, n) == z.s[n].type = "op" \/ (z.s[n].type = "mx" /\ z.s[n].func = "none")

Owned(z, s, l, I, K) ==
  /\ Listed(z)
  /\ s # 0 => s \in Use(z) /\ MayStep(z, s)
  /\ l # 0 => l \in Use(z) /\ z.s[l].type = "pw" /\ z.s[l].func = "link"
  /\ \A b \in DbBp, m \in Mode : I[b][m] # 0 =>
       /\ I[b][m] \in Use(z) /\ I[b][m] # s
       /\ z.s[I[b][m]].type = K[b][m] /\ z.s[I[b][m]].func = "none"
  /\ \A b \in DbBp, m \in Mode, c \in DbBp, o \in Mode :
       I[b][m] # 0 /\ I[b][m] = I[c][o] => b = c /\ m = o
  /\ \A v \in Use(z) : v = s \/ v = l \/ \E b \in DbBp, m \in Mode : v = I[b][m]

\* Breakpoint 0 is not one, and the slots are numbered
LEMMA UseIs ==
  ASSUME NEW z, Listed(z)
  PROVE  Len(z.s) \in Nat /\ z.s \in Seq(Bp) /\ DOMAIN z.s = 1..Len(z.s)
         /\ \A v \in Use(z) : v \in Nat /\ v # 0 /\ v \in 1..Len(z.s)
<1>1. Len(z.s) \in Nat /\ z.s \in Seq(Bp) /\ DOMAIN z.s = 1..Len(z.s)
    BY BpFields DEF Listed, Threaded
<1> QED BY <1>1 DEF Use

\* The same said of other names for it
LEMMA SameOwners ==
  ASSUME NEW z, NEW s, NEW l, NEW I, NEW K, Owned(z, s, l, I, K),
         NEW y, y.s = z.s, y.h = z.h, NEW J, NEW H,
         \A b \in DbBp, m \in Mode : J[b][m] = I[b][m] /\ (I[b][m] # 0 => H[b][m] = K[b][m])
  PROVE  Owned(y, s, l, J, H)
<1>1. Listed(y) /\ Use(y) = Use(z) BY DEF Owned, MayStep, Listed, Use
<1> QED BY <1>1 DEF Owned, MayStep

\* The breakpoints that are added are known to who added them.
LEMMA OwnStep ==
  ASSUME NEW z, NEW l, NEW I, NEW K, Owned(z, 0, l, I, K), NEW type, NEW func \in Func,
         type = "op" \/ (type = "mx" /\ func = "none")
  PROVE  Owned(add_breakpoint(z, type, func), NewSlot(z), l, I, K)
<1> DEFINE y == add_breakpoint(z, type, func)
           n == NewSlot(z)
<1>4. type \in List /\ Listed(z) BY DEF Owned, MayStep, List
<1>1. /\ Listed(y) /\ n \in 1..Len(y.s) /\ n \notin Use(z) /\ Use(y) = Use(z) \cup {n}
      /\ y.s[n].type = type /\ y.s[n].func = func
      /\ \A v \in Use(z) : Same(z, y, v)
    BY <1>4, AddKeeps
<1>2. \A v \in Use(z) : v # 0 BY UseIs DEF Owned, MayStep
<1> HIDE DEF y, n
<1>3. Owned(y, n, l, I, K) BY <1>1, <1>2 DEF Owned, MayStep, Same
<1> QED BY <1>3 DEF y, n

LEMMA OwnLink ==
  ASSUME NEW z, NEW s, NEW I, NEW K, Owned(z, s, 0, I, K)
  PROVE  Owned(add_breakpoint(z, "pw", "link"), s, NewSlot(z), I, K)
<1> DEFINE y == add_breakpoint(z, "pw", "link")
           n == NewSlot(z)
<1>4. "pw" \in List /\ "link" \in Func /\ Listed(z) BY DEF Owned, MayStep, List, Func
<1>1. /\ Listed(y) /\ n \in 1..Len(y.s) /\ n \notin Use(z) /\ Use(y) = Use(z) \cup {n}
      /\ y.s[n].type = "pw" /\ y.s[n].func = "link"
      /\ \A v \in Use(z) : Same(z, y, v)
    BY <1>4, AddKeeps
<1>2. \A v \in Use(z) : v # 0 BY UseIs DEF Owned, MayStep
<1> HIDE DEF y, n
<1>3. Owned(y, s, n, I, K) BY <1>1, <1>2 DEF Owned, MayStep, Same
<1> QED BY <1>3 DEF y, n

LEMMA OwnMode ==
  ASSUME NEW z, NEW s, NEW l, NEW I, NEW K, Owned(z, s, l, I, K),
         NEW b \in DbBp, NEW m \in Mode, I[b][m] = 0, K[b][m] \in List, NEW J,
         \A c \in DbBp, o \in Mode :
           J[c][o] = IF c = b /\ o = m THEN NewSlot(z) ELSE I[c][o]
  PROVE  Owned(add_breakpoint(z, K[b][m], "none"), s, l, J, K)
<1> DEFINE type == K[b][m]
           y == add_breakpoint(z, type, "none")
           n == NewSlot(z)
<1>1. type \in List /\ "none" \in Func /\ Listed(z) BY DEF Owned, MayStep, Func
<1> HIDE DEF type
<1>2. /\ Listed(y) /\ n \in 1..Len(y.s) /\ n \notin Use(z) /\ Use(y) = Use(z) \cup {n}
      /\ y.s[n].type = type /\ y.s[n].func = "none"
      /\ \A v \in Use(z) : Same(z, y, v)
    BY <1>1, AddKeeps
<1>3. \A v \in Use(z) : v # 0 BY <1>1, UseIs
<1>4. \A c \in DbBp, o \in Mode : J[c][o] = IF c = b /\ o = m THEN n ELSE I[c][o] OBVIOUS
<1> HIDE DEF y, n
<1>5. \A c \in DbBp, o \in Mode : ~(c = b /\ o = m) /\ J[c][o] # 0 =>
        /\ J[c][o] = I[c][o] /\ J[c][o] \in Use(z) /\ J[c][o] # s /\ J[c][o] # n
        /\ z.s[J[c][o]].type = K[c][o] /\ z.s[J[c][o]].func = "none"
    BY <1>2, <1>4 DEF Owned, MayStep
<1>6. n # s
  <2>1. s # 0 => s \in Use(z) BY DEF Owned, MayStep
  <2>2. n # 0 BY <1>2, UseIs
  <2> QED BY <1>2, <2>1, <2>2
<1>7. \A c \in DbBp, o \in Mode : J[c][o] # 0 =>
        /\ J[c][o] \in Use(y) /\ J[c][o] # s
        /\ y.s[J[c][o]].type = K[c][o] /\ y.s[J[c][o]].func = "none"
  <2> SUFFICES ASSUME NEW c \in DbBp, NEW o \in Mode, J[c][o] # 0
               PROVE  /\ J[c][o] \in Use(y) /\ J[c][o] # s
                      /\ y.s[J[c][o]].type = K[c][o] /\ y.s[J[c][o]].func = "none"
      OBVIOUS
  <2>1. CASE c = b /\ o = m
    <3>1. J[c][o] = n BY <1>4, <2>1
    <3> QED BY <1>2, <1>6, <2>1, <3>1 DEF type
  <2>2. CASE ~(c = b /\ o = m) BY <1>2, <1>5, <2>2 DEF Same
  <2> QED BY <2>1, <2>2
<1>8. \A c \in DbBp, o \in Mode, d \in DbBp, p \in Mode :
        J[c][o] # 0 /\ J[c][o] = J[d][p] => c = d /\ o = p
  <2> SUFFICES ASSUME NEW c \in DbBp, NEW o \in Mode, NEW d \in DbBp, NEW p \in Mode,
                      J[c][o] # 0, J[c][o] = J[d][p]
               PROVE  c = d /\ o = p
      OBVIOUS
  <2>1. CASE c = b /\ o = m BY <1>4, <1>5, <2>1
  <2>2. CASE d = b /\ p = m BY <1>4, <1>5, <2>2
  <2>3. CASE ~(c = b /\ o = m) /\ ~(d = b /\ p = m)
    <3>1. I[c][o] # 0 /\ I[c][o] = I[d][p] BY <1>5, <2>3
    <3> QED BY <3>1 DEF Owned, MayStep
  <2> QED BY <2>1, <2>2, <2>3
<1>9. \A v \in Use(y) : v = s \/ v = l \/ \E c \in DbBp, o \in Mode : v = J[c][o]
  <2> SUFFICES ASSUME NEW v \in Use(y), v # s, v # l
               PROVE  \E c \in DbBp, o \in Mode : v = J[c][o]
      OBVIOUS
  <2>1. CASE v = n BY <1>4, <2>1
  <2>2. CASE v # n
    <3>1. v \in Use(z) BY <1>2, <2>2
    <3>2. PICK c \in DbBp, o \in Mode : v = I[c][o] BY <3>1 DEF Owned, MayStep
    <3>3. v # 0 BY <1>3, <3>1
    <3>4. J[c][o] = v BY <1>4, <3>2, <3>3
    <3> QED BY <3>4
  <2> QED BY <2>1, <2>2
<1>10. /\ s # 0 => s \in Use(y) /\ MayStep(y, s)
       /\ l # 0 => l \in Use(y) /\ y.s[l].type = "pw" /\ y.s[l].func = "link"
    BY <1>2 DEF Owned, MayStep, Same
<1>11. Owned(y, s, l, J, K) BY <1>2, <1>7, <1>8, <1>9, <1>10 DEF Owned, MayStep
<1> QED BY <1>11 DEF y, type

\* The breakpoints that are removed are known to no one.
LEMMA DropStep ==
  ASSUME NEW z, NEW s, NEW l, NEW I, NEW K, Owned(z, s, l, I, K), s # 0
  PROVE  /\ Owned(remove_breakpoint(z, s), 0, l, I, K)
         /\ NewSlot(remove_breakpoint(z, s)) = s
<1> DEFINE y == remove_breakpoint(z, s)
<1>1. s \in Use(z) /\ Listed(z) BY DEF Owned, MayStep
<1>2. /\ Listed(y) /\ Use(y) = Use(z) \ {s} /\ NewSlot(y) = s
      /\ \A v \in Use(y) : Same(z, y, v)
    BY <1>1, RemoveKeeps
<1> HIDE DEF y
<1>3. l # s
  <2>1. l = s => z.s[l].type = "pw" /\ (z.s[l].type = "op" \/ z.s[l].type = "mx")
       BY DEF Owned, MayStep
  <2> QED BY <2>1
<1>4. Owned(y, 0, l, I, K)
  <2>1. /\ l # 0 => l \in Use(y) /\ y.s[l].type = "pw" /\ y.s[l].func = "link"
        /\ \A b \in DbBp, m \in Mode : I[b][m] # 0 =>
             /\ I[b][m] \in Use(y)
             /\ y.s[I[b][m]].type = K[b][m] /\ y.s[I[b][m]].func = "none"
      BY <1>2, <1>3 DEF Owned, MayStep, Same
  <2>2. \A v \in Use(y) : v = 0 \/ v = l \/ \E b \in DbBp, m \in Mode : v = I[b][m]
      BY <1>2 DEF Owned, MayStep
  <2> QED BY <1>2, <2>1, <2>2 DEF Owned, MayStep
<1> QED BY <1>2, <1>4 DEF y

LEMMA DropLink ==
  ASSUME NEW z, NEW s, NEW l, NEW I, NEW K, Owned(z, s, l, I, K), l # 0
  PROVE  Owned(remove_breakpoint(z, l), s, 0, I, K)
<1> DEFINE y == remove_breakpoint(z, l)
<1>1. l \in Use(z) /\ Listed(z) BY DEF Owned, MayStep
<1>2. /\ Listed(y) /\ Use(y) = Use(z) \ {l}
      /\ \A v \in Use(y) : Same(z, y, v)
    BY <1>1, RemoveKeeps
<1> HIDE DEF y
<1>3. l # s
  <2>1. l = s => z.s[l].type = "pw" /\ (z.s[l].type = "op" \/ z.s[l].type = "mx")
       BY DEF Owned, MayStep
  <2> QED BY <2>1
<1>4. \A b \in DbBp, m \in Mode : I[b][m] # 0 => I[b][m] # l
  <2>1. ASSUME NEW b \in DbBp, NEW m \in Mode, I[b][m] # 0, I[b][m] = l PROVE FALSE
    <3>1. z.s[l].func = "link" /\ z.s[l].func = "none" BY <2>1 DEF Owned, MayStep
    <3> QED BY <3>1
  <2> QED BY <2>1
<1>5. Owned(y, s, 0, I, K)
  <2>1. /\ s # 0 => s \in Use(y) /\ MayStep(y, s)
        /\ \A b \in DbBp, m \in Mode : I[b][m] # 0 =>
             /\ I[b][m] \in Use(y) /\ I[b][m] # s
             /\ y.s[I[b][m]].type = K[b][m] /\ y.s[I[b][m]].func = "none"
      BY <1>2, <1>3, <1>4 DEF Owned, MayStep, Same
  <2>2. \A v \in Use(y) : v = s \/ v = 0 \/ \E b \in DbBp, m \in Mode : v = I[b][m]
      BY <1>2 DEF Owned, MayStep
  <2> QED BY <1>2, <2>1, <2>2 DEF Owned, MayStep
<1> QED BY <1>5 DEF y

LEMMA DropMode ==
  ASSUME NEW z, NEW s, NEW l, NEW I, NEW K, Owned(z, s, l, I, K),
         NEW b \in DbBp, NEW m \in Mode, I[b][m] # 0, NEW J,
         \A c \in DbBp, o \in Mode : J[c][o] = IF c = b /\ o = m THEN 0 ELSE I[c][o]
  PROVE  Owned(remove_breakpoint(z, I[b][m]), s, l, J, K)
<1> DEFINE n == I[b][m]
           y == remove_breakpoint(z, n)
<1>1. n \in Use(z) /\ Listed(z) /\ n # s /\ z.s[n].func = "none" BY DEF Owned, MayStep
<1> HIDE DEF n
<1>2. /\ Listed(y) /\ Use(y) = Use(z) \ {n}
      /\ \A v \in Use(y) : Same(z, y, v)
    BY <1>1, RemoveKeeps
<1> HIDE DEF y
<1>3. l # n
  <2>1. l # 0 => z.s[l].func = "link" BY DEF Owned, MayStep
  <2>2. n # 0 BY DEF n
  <2> QED BY <1>1, <2>1, <2>2
<1>4. \A c \in DbBp, o \in Mode : J[c][o] # 0 =>
        J[c][o] = I[c][o] /\ J[c][o] # n /\ J[c][o] \in Use(z)
  <2> SUFFICES ASSUME NEW c \in DbBp, NEW o \in Mode, J[c][o] # 0
               PROVE  J[c][o] = I[c][o] /\ J[c][o] # n /\ J[c][o] \in Use(z)
      OBVIOUS
  <2>1. ~(c = b /\ o = m) /\ J[c][o] = I[c][o] OBVIOUS
  <2>2. I[c][o] # I[b][m] BY <2>1 DEF Owned, MayStep
  <2> QED BY <2>1, <2>2 DEF Owned, MayStep, n
<1>5. Owned(y, s, l, J, K)
  <2>1. /\ s # 0 => s \in Use(y) /\ MayStep(y, s)
        /\ l # 0 => l \in Use(y) /\ y.s[l].type = "pw" /\ y.s[l].func = "link"
      BY <1>1, <1>2, <1>3 DEF Owned, MayStep, Same
  <2>2. \A c \in DbBp, o \in Mode : J[c][o] # 0 =>
          /\ J[c][o] \in Use(y) /\ J[c][o] # s
          /\ y.s[J[c][o]].type = K[c][o] /\ y.s[J[c][o]].func = "none"
      BY <1>2, <1>4 DEF Owned, MayStep, Same
  <2>3. \A c \in DbBp, o \in Mode, d \in DbBp, p \in Mode :
          J[c][o] # 0 /\ J[c][o] = J[d][p] => c = d /\ o = p
      BY <1>4 DEF Owned, MayStep
  <2>4. \A v \in Use(y) : v = s \/ v = l \/ \E c \in DbBp, o \in Mode : v = J[c][o]
    <3> SUFFICES ASSUME NEW v \in Use(y), v # s, v # l
                 PROVE  \E c \in DbBp, o \in Mode : v = J[c][o]
        OBVIOUS
    <3>1. v \in Use(z) /\ v # n BY <1>2
    <3>2. PICK c \in DbBp, o \in Mode : v = I[c][o] BY <3>1 DEF Owned, MayStep
    <3>3. J[c][o] = v BY <3>1, <3>2 DEF n
    <3> QED BY <3>3
  <2> QED BY <1>2, <2>1, <2>2, <2>3, <2>4 DEF Owned, MayStep
<1> QED BY <1>5 DEF y, n

\* set_bp and unset_bp go through the modes.
With(I, b, id) == [c \in DbBp |-> IF c = b THEN id ELSE I[c]]

SetOne(shape, acc, m) ==
  IF m \notin Installed(shape) THEN acc
  ELSE [z |-> add_breakpoint(acc.z, get_core_bp_type(shape.type, m), "none"),
        id |-> [acc.id EXCEPT ![m] = NewSlot(acc.z)]]

\* The ids but the one of the mode m
Others(id, m) == [o \in Mode \ {m} |-> id[o]]

UnsetOne(z, n) == IF n = 0 THEN z ELSE remove_breakpoint(z, n)

\* There is a list for each mode that a breakpoint can have
LEMMA CoreType ==
  ASSUME NEW shape \in DbShape, NEW m \in Installed(shape)
  PROVE  get_core_bp_type(shape.type, m) \in List
<1>1. m \in shape.modes BY DEF Installed
<1>2. shape.type \in {"logical", "physical", "port", "opcode"}
      /\ m \in {"r", "w", "x"} /\ (shape.type = "port" => m \in {"r", "w"})
    BY <1>1, ShapesOfDebugger
<1> DEFINE type == shape.type
           k == get_core_bp_type(type, m)
<1>3. CASE type = "opcode" BY <1>3 DEF get_core_bp_type, List
<1>4. CASE type = "logical" BY <1>2, <1>4 DEF get_core_bp_type, List
<1>5. CASE type = "physical" BY <1>2, <1>5 DEF get_core_bp_type, List
<1>6. CASE type = "port" BY <1>2, <1>6 DEF get_core_bp_type, List
<1> QED BY <1>2, <1>3, <1>4, <1>5, <1>6

\* Breakpoint b has its modes set one after the other
Setting(acc, s, l, I, K, b, shape) ==
  /\ acc.id \in [Mode -> Nat] /\ Owned(acc.z, s, l, With(I, b, acc.id), K)
  /\ \A o \in Mode : K[b][o] = get_core_bp_type(shape.type, o)

LEMMA SetOneKeeps ==
  ASSUME NEW s, NEW l, NEW I, NEW K, NEW b \in DbBp, NEW shape \in DbShape,
         NEW acc, Setting(acc, s, l, I, K, b, shape), NEW m \in Mode, acc.id[m] = 0
  PROVE  /\ Setting(SetOne(shape, acc, m), s, l, I, K, b, shape)
         /\ Others(SetOne(shape, acc, m).id, m) = Others(acc.id, m)
<1> DEFINE a == SetOne(shape, acc, m)
           type == get_core_bp_type(shape.type, m)
           J == With(I, b, acc.id)
           z == acc.z
           y == add_breakpoint(z, type, "none")
           n == NewSlot(z)
           id == [acc.id EXCEPT ![m] = n]
           H == With(I, b, id)
<1>3. /\ acc.id \in [Mode -> Nat] /\ Owned(z, s, l, J, K)
      /\ \A o \in Mode : K[b][o] = get_core_bp_type(shape.type, o)
    BY DEF Setting
<1>1. CASE m \notin Installed(shape)
  <2>1. a = acc BY <1>1 DEF SetOne
  <2> QED BY <2>1
<1>2. CASE m \in Installed(shape)
  <2>1. a = [z |-> y, id |-> id] BY <1>2 DEF SetOne
  <2>2. type \in List /\ K[b][m] = type BY <1>2, <1>3, CoreType
  <2>3. J[b][m] = 0 BY DEF With
  <2>4. Owned(z, s, l, J, K) BY <1>3
  <2>5. n \in Nat
    <3> HIDE DEF type, J, y, n, a, id, H
    <3>1. Listed(z) /\ "none" \in Func BY <2>4 DEF Owned, MayStep, Func
    <3>2. Listed(y) /\ n \in 1..Len(y.s) BY <2>2, <3>1, AddKeeps DEF y, n
    <3> QED BY <3>2, UseIs
  <2> HIDE DEF a, type, y, n
  <2>6. id \in [Mode -> Nat] /\ \A o \in Mode : id[o] = IF o = m THEN n ELSE acc.id[o]
      BY <1>3, <2>5
  <2> HIDE DEF id
  <2>7. \A c \in DbBp, o \in Mode : H[c][o] = IF c = b /\ o = m THEN n ELSE J[c][o]
    <3>1. \A c \in DbBp : H[c] = (IF c = b THEN id ELSE I[c])
                          /\ J[c] = (IF c = b THEN acc.id ELSE I[c])
        BY DEF With
    <3> HIDE DEF H, J
    <3> QED BY <2>6, <3>1
  <2> HIDE DEF H, J, z
  <2>8. Owned(y, s, l, H, K)
    <3>1. Owned(add_breakpoint(z, K[b][m], "none"), s, l, H, K)
        BY <2>2, <2>3, <2>4, <2>7, OwnMode DEF n
    <3> QED BY <2>2, <3>1 DEF y
  <2>9. a.z = y /\ a.id = id BY <2>1
  <2>10. Owned(a.z, s, l, With(I, b, a.id), K) BY <2>8, <2>9 DEF H
  <2>11. a.id \in [Mode -> Nat] /\ Others(a.id, m) = Others(acc.id, m)
    <3>1. \A o \in Mode \ {m} : id[o] = acc.id[o] BY <2>6
    <3> QED BY <2>6, <2>9, <3>1 DEF Others
  <2>12. Setting(a, s, l, I, K, b, shape) BY <1>3, <2>10, <2>11 DEF Setting
  <2> QED BY <2>11, <2>12 DEF a
<1> QED BY <1>1, <1>2

LEMMA SetDb ==
  ASSUME NEW z, NEW s, NEW l, NEW I, NEW K, Owned(z, s, l, I, K),
         NEW b \in DbBp, \A m \in Mode : I[b][m] = 0, NEW shape \in DbShape, NEW H,
         \A c \in DbBp, m \in Mode :
           H[c][m] = IF c = b THEN get_core_bp_type(shape.type, m) ELSE K[c][m]
  PROVE  LET r == set_bp(z, shape)
         IN Owned(r.z, s, l, With(I, b, r.id), H) /\ r.id \in [Mode -> Nat]
<1> DEFINE x == "x"
           w == "w"
           e == "r"
           none == [m \in Mode |-> 0]
           a0 == [z |-> z, id |-> none]
           a1 == SetOne(shape, a0, x)
           a2 == SetOne(shape, a1, w)
           a3 == SetOne(shape, a2, e)
           r == set_bp(z, shape)
<1>1. r = a3 BY DEF set_bp, SetOne, Mode
<1> HIDE DEF r
<1>2. \A o \in Mode : H[b][o] = get_core_bp_type(shape.type, o) OBVIOUS
<1>3. x \in Mode /\ w \in Mode /\ e \in Mode /\ x # w /\ x # e /\ w # e
    BY DEF Mode
<1> HIDE DEF x, w, e
<1>4. Setting(a0, s, l, I, H, b, shape) /\ \A o \in Mode : a0.id[o] = 0
  <2>1. a0.z = z /\ a0.id = none OBVIOUS
  <2>2. none \in [Mode -> Nat] /\ \A o \in Mode : none[o] = 0 OBVIOUS
  <2> HIDE DEF none, a0
  <2> DEFINE J == With(I, b, none)
  <2>3. \A c \in DbBp, o \in Mode : J[c][o] = I[c][o] /\ (I[c][o] # 0 => H[c][o] = K[c][o])
    <3>1. \A c \in DbBp : J[c] = IF c = b THEN none ELSE I[c] BY DEF With
    <3> HIDE DEF J
    <3> QED BY <2>2, <3>1
  <2> HIDE DEF J
  <2>4. Owned(z, s, l, J, H) BY <2>3, SameOwners
  <2> QED BY <1>2, <2>1, <2>2, <2>4 DEF J, Setting
<1> HIDE DEF a0
<1>5. Setting(a1, s, l, I, H, b, shape) /\ \A o \in Mode : o # x => a1.id[o] = 0
  <2>1. a0.id[x] = 0 BY <1>3, <1>4
  <2>2. Setting(a1, s, l, I, H, b, shape) /\ Others(a1.id, x) = Others(a0.id, x)
      BY <1>3, <1>4, <2>1, SetOneKeeps
  <2> HIDE DEF a1
  <2>3. \A o \in Mode \ {x} : a1.id[o] = Others(a1.id, x)[o] /\ a0.id[o] = Others(a0.id, x)[o]
      BY DEF Others
  <2> QED BY <1>4, <2>2, <2>3
<1> HIDE DEF a1
<1>6. Setting(a2, s, l, I, H, b, shape) /\ \A o \in Mode : o # x /\ o # w => a2.id[o] = 0
  <2>1. a1.id[w] = 0 BY <1>3, <1>5
  <2>2. Setting(a2, s, l, I, H, b, shape) /\ Others(a2.id, w) = Others(a1.id, w)
      BY <1>3, <1>5, <2>1, SetOneKeeps
  <2> HIDE DEF a2
  <2>3. \A o \in Mode \ {w} : a2.id[o] = Others(a2.id, w)[o] /\ a1.id[o] = Others(a1.id, w)[o]
      BY DEF Others
  <2> QED BY <1>5, <2>2, <2>3
<1> HIDE DEF a2
<1>7. Setting(a3, s, l, I, H, b, shape)
  <2>1. a2.id[e] = 0 BY <1>3, <1>6
  <2> QED BY <1>3, <1>6, <2>1, SetOneKeeps
<1> HIDE DEF a3
<1> QED BY <1>1, <1>7 DEF r, Setting

LEMMA UnsetDb ==
  ASSUME NEW z, NEW s, NEW l, NEW I, NEW K, Owned(z, s, l, I, K),
         NEW b \in DbBp, NEW id, id = I[b], NEW J,
         \A c \in DbBp, m \in Mode : J[c][m] = IF c = b THEN 0 ELSE I[c][m]
  PROVE  Owned(unset_bp(z, id), s, l, J, K)
<1> DEFINE y1 == UnsetOne(z, id["x"])
           y2 == UnsetOne(y1, id["w"])
           y3 == UnsetOne(y2, id["r"])
           J1 == [c \in DbBp |-> [m \in Mode |-> IF c = b /\ m = "x" THEN 0 ELSE I[c][m]]]
           J2 == [c \in DbBp |-> [m \in Mode |-> IF c = b /\ m = "w" THEN 0 ELSE J1[c][m]]]
<1>1. unset_bp(z, id) = y3 BY DEF unset_bp, UnsetOne
<1>2. "x" \in Mode /\ "w" \in Mode /\ "r" \in Mode /\ Mode = {"x", "w", "r"} BY DEF Mode
<1>3. ASSUME NEW y, NEW F, Owned(y, s, l, F, K), NEW m \in Mode, NEW G,
             \A c \in DbBp, o \in Mode : G[c][o] = IF c = b /\ o = m THEN 0 ELSE F[c][o],
             NEW n, n = F[b][m]
      PROVE  Owned(UnsetOne(y, n), s, l, G, K)
  <2>1. CASE n = 0
    <3>1. \A c \in DbBp, o \in Mode : G[c][o] = F[c][o] BY <1>3, <2>1
    <3>2. Owned(y, s, l, G, K) BY <1>3, <3>1, SameOwners
    <3> QED BY <2>1, <3>2 DEF UnsetOne
  <2>2. CASE n # 0
    <3>1. Owned(remove_breakpoint(y, F[b][m]), s, l, G, K) BY <1>3, <2>2, DropMode
    <3> QED BY <1>3, <2>2, <3>1 DEF UnsetOne
  <2> QED BY <2>1, <2>2
<1>4. \A c \in DbBp, o \in Mode : J1[c][o] = IF c = b /\ o = "x" THEN 0 ELSE I[c][o] OBVIOUS
<1> HIDE DEF J1
<1>5. \A c \in DbBp, o \in Mode : J2[c][o] = IF c = b /\ o = "w" THEN 0 ELSE J1[c][o] OBVIOUS
<1> HIDE DEF J2
<1>6. \A c \in DbBp, o \in Mode : J[c][o] = IF c = b /\ o = "r" THEN 0 ELSE J2[c][o]
    BY <1>2, <1>4, <1>5
<1>7. id["x"] = I[b]["x"] /\ id["w"] = J1[b]["w"] /\ id["r"] = J2[b]["r"]
    BY <1>2, <1>4, <1>5
<1> HIDE DEF y1, y2, y3
<1>8. Owned(y1, s, l, J1, K) BY <1>2, <1>3, <1>4, <1>7 DEF y1
<1>9. Owned(y2, s, l, J2, K) BY <1>2, <1>3, <1>5, <1>7, <1>8 DEF y2
<1>10. Owned(y3, s, l, J, K) BY <1>2, <1>3, <1>6, <1>7, <1>9 DEF y3
<1> QED BY <1>1, <1>10

-----------------------------------------------------------------------------
(***************************************************************************)
(* Breakpoints: the inductive invariant                                      *)
(*                                                                           *)
(* Between cancel_remove and cancel_clear the debugger's step_bp names a     *)
(* breakpoint that is gone, and between load_calc and the debugger's notice  *)
(* so do all its breakpoints: then it counts as knowing none of them.        *)
(***************************************************************************)
StepId == IF gui.at \in {"clear", "changed"} THEN 0 ELSE step_bp
NoIds == [m \in Mode |-> 0]
Ids == [b \in DbBp |-> IF gui.at # "changed" /\ db[b].set THEN db[b].id ELSE NoIds]
Kinds == [b \in DbBp |-> [m \in Mode |-> get_core_bp_type(db[b].shape.type, m)]]

OwnInv == Owned(Array, StepId, link_bp, Ids, Kinds)

GuiForm ==
  gui \in {Idle}
          \cup [op : {"run", "show"} \cup Stepping, at : {"cancel", "remove", "clear", "done"}]
          \cup {[op |-> "load", at |-> "changed"]}
          \cup [op : {"change"}, at : {"set"}, bp : DbBp]

DbSet == [set : {TRUE}, shape : DbShape, id : [Mode -> Nat]]
DbForm == db \in [DbBp -> {NoBp} \cup DbSet]

CoreForm ==
  /\ core.at \in {"out", "run", "check"}
  /\ core.at = "check" =>
       /\ core = [at |-> "check", stop |-> core.stop, list |-> core.list, bp |-> core.bp]
       /\ core.list \in List

\* Where cancel_step_bp stands, and what it has seen of step_bp; a breakpoint
\* that is being changed is not installed
GuiInv ==
  /\ gui.at = "done" /\ gui.op \in Stepping => step_bp = 0
  /\ gui.at = "remove" => step_bp # 0
  /\ gui.at = "set" => db[gui.bp].set /\ \A m \in Mode : db[gui.bp].id[m] = 0

\* The core thread is at a breakpoint that is set
AtInv ==
  core.at = "check" =>
    /\ core.bp \in Use(Array)
    /\ \/ slots[core.bp].type = core.list
       \/ /\ core.list = "op" /\ StepId # 0
          /\ slots[StepId].type = "mx" /\ slots[core.bp].type = "mx"

FormInv == GuiForm /\ DbForm /\ CoreForm /\ GuiInv
BpInv == OwnInv /\ FormInv /\ AtInv

\* Where a walk leads
LEMMA WalkLeads ==
  ASSUME NEW z, Listed(z)
  PROVE  /\ \A l \in List : z.h[l] # 0 => z.h[l] \in Use(z) /\ z.s[z.h[l]].type = l
         /\ \A v \in Use(z) : z.s[v].next # 0 =>
              z.s[v].next \in Use(z) /\ z.s[z.s[v].next].type = z.s[v].type
<1>1. PICK L : Threaded(z.s, z.h, L) BY DEF Listed
<1> DEFINE s == z.s
           h == z.h
<1>2. /\ \A l \in Types : h[l] # 0 => h[l] \in 1..Len(s) /\ s[h[l]].type = l
      /\ \A v \in 1..Len(s) :
           s[v].next # 0 => s[v].next \in 1..Len(s) /\ s[s[v].next].type = s[v].type
    BY <1>1, Leads
<1>3. Use(z) = {v \in 1..Len(s) : s[v].type # "free"} BY DEF Use
<1>4. \A l \in List : l \in Types /\ l # "free" BY DEF List, Types
<1> HIDE DEF s, h
<1>5. /\ \A l \in List : h[l] # 0 => h[l] \in Use(z) /\ s[h[l]].type = l
      /\ \A v \in Use(z) : s[v].next # 0 =>
           s[v].next \in Use(z) /\ s[s[v].next].type = s[v].type
    BY <1>2, <1>3, <1>4
<1> QED BY <1>5 DEF s, h

\* Only the debugger's step breakpoint has the function that replaces it
LEMMA StepOver ==
  ASSUME NEW z, NEW s, NEW l, NEW I, NEW K, Owned(z, s, l, I, K), NEW v \in Use(z),
         z.s[v].func = "step_over"
  PROVE  v = s /\ s # 0 /\ z.s[v].type = "op"
<1>1. v # 0 BY UseIs DEF Owned, MayStep
<1>2. v # l BY <1>1 DEF Owned, MayStep
<1>3. \A b \in DbBp, m \in Mode : v # I[b][m] BY <1>1 DEF Owned, MayStep
<1>4. v = s BY <1>2, <1>3 DEF Owned, MayStep
<1> QED BY <1>1, <1>4 DEF Owned, MayStep

\* The array after a step, and what is known of it
LEMMA OwnedNext ==
  ASSUME NEW y, NEW I, NEW K, Owned(y, StepId', link_bp', I, K), IsArray(y),
         \A b \in DbBp, m \in Mode :
           Ids'[b][m] = I[b][m] /\ (I[b][m] # 0 => Kinds'[b][m] = K[b][m])
  PROVE  OwnInv'
<1> DEFINE z == Array'
           s == StepId'
           l == link_bp'
           J == Ids'
           H == Kinds'
<1>1. z.s = y.s /\ z.h = y.h BY DEF Array, IsArray
<1>2. Owned(y, s, l, I, K) OBVIOUS
<1>3. \A b \in DbBp, m \in Mode : J[b][m] = I[b][m] /\ (I[b][m] # 0 => H[b][m] = K[b][m])
    OBVIOUS
<1> HIDE DEF z, s, l, J, H
<1>4. Owned(z, s, l, J, H) BY <1>1, <1>2, <1>3, SameOwners
<1> QED BY <1>4 DEF OwnInv, z, s, l, J, H

LEMMA SameArray ==
  ASSUME OwnInv, UNCHANGED z80Vars, StepId' = StepId, UNCHANGED link_bp, UNCHANGED db,
         gui.at = "changed" <=> gui'.at = "changed"
  PROVE  OwnInv' /\ Ids' = Ids /\ Kinds' = Kinds /\ Array' = Array
<1>1. Ids' = Ids /\ Kinds' = Kinds BY DEF Ids, Kinds
<1>2. Array' = Array BY DEF Array, z80Vars
<1> QED BY <1>1, <1>2 DEF OwnInv

\* No breakpoint is set in a calculator that is new.
LEMMA NewOwned ==
  ASSUME NEW z, z.s = <<>>, z.h = [l \in List \cup {"free"} |-> 0], NEW I, NEW K,
         \A b \in DbBp, m \in Mode : I[b][m] = 0
  PROVE  Owned(z, 0, 0, I, K)
<1> DEFINE L == [l \in Types |-> <<>>]
           s == z.s
           h == z.h
           e == <<>>
<1>1. s \in Seq(Bp) /\ Len(s) = 0 /\ h \in [Types -> Nat] /\ \A l \in Types : h[l] = 0
    BY DEF Types
<1>2. e \in Seq(1..Len(s)) /\ Len(e) = 0 /\ DOMAIN e = {} OBVIOUS
<1>3. \A l \in Types : L[l] = e OBVIOUS
<1>4. \A v \in 1..Len(s) : FALSE BY <1>1
<1> HIDE DEF s, h, e
<1>5. L \in [Types -> Seq(1..Len(s))] BY <1>2, <1>3 DEF e
<1> HIDE DEF L
<1>6. /\ IsInjective(e) /\ Runs(Nx(s), 0, e) /\ Back(Pv(s), e)
    BY <1>2 DEF IsInjective, Runs, Back
<1>7. Threaded(s, h, L) BY <1>1, <1>2, <1>3, <1>4, <1>5, <1>6 DEF Threaded
<1>8. Listed(z) BY <1>7 DEF Listed, s, h
<1>9. Use(z) = {} BY <1>4 DEF Use, s
<1> QED BY <1>8, <1>9 DEF Owned, MayStep

\* bptest_step_over: the debugger's step breakpoint is the same slot in another
\* list.
LEMMA Bptest ==
  ASSUME BpInv, bptest_step_over
  PROVE  /\ OwnInv' /\ step_bp' = step_bp /\ step_bp # 0 /\ step_bp = core.bp
         /\ StepId = step_bp /\ StepId' = step_bp
         /\ core.list = "op" /\ Use(Array') = Use(Array) /\ slots'[step_bp].type = "mx"
         /\ core' = IF slots'[core.bp].next = 0 THEN [at |-> "run", stop |-> core.stop]
                    ELSE [core EXCEPT !.bp = slots'[core.bp].next, !.stop = core.stop]
<1> DEFINE a == Array
           z == remove_breakpoint(a, step_bp)
           new == add_breakpoint(z, "mx", "none")
           s == StepId
           l == link_bp
           I == Ids
           K == Kinds
<1>1. Owned(a, s, l, I, K) BY DEF BpInv, OwnInv
<1>2. /\ core.at = "check" /\ slots[core.bp].func = "step_over" /\ IsArray(new)
      /\ step_bp' = NewSlot(z) /\ link_bp' = link_bp /\ db' = db /\ gui' = gui
      /\ core' = IF new.s[core.bp].next = 0 THEN [at |-> "run", stop |-> core.stop]
                 ELSE [core EXCEPT !.bp = new.s[core.bp].next, !.stop = core.stop]
    BY DEF bptest_step_over, WalkOn
<1>3. /\ core.bp \in Use(a) /\ a.s = slots
      /\ \/ slots[core.bp].type = core.list
         \/ core.list = "op" /\ slots[core.bp].type = "mx"
    BY <1>2 DEF BpInv, AtInv, Array
<1>4. core.bp = s /\ s # 0 /\ slots[core.bp].type = "op"
  <2> HIDE DEF a, s, l, I, K
  <2> QED BY <1>1, <1>2, <1>3, StepOver
<1>5. s = step_bp BY <1>4 DEF StepId
<1>6. core.list = "op" BY <1>3, <1>4
<1> HIDE DEF a, s, l, I, K, z
<1>7. Owned(z, 0, l, I, K) /\ NewSlot(z) = s BY <1>1, <1>4, <1>5, DropStep DEF z
<1>8. s \in Use(a) /\ Listed(a) BY <1>1, <1>4 DEF Owned, MayStep
<1>9. Use(z) = Use(a) \ {s} BY <1>5, <1>8, RemoveKeeps DEF z
<1>10. "mx" \in List /\ "none" \in Func /\ Listed(z) BY <1>7 DEF List, Func, Owned
<1> HIDE DEF new
<1>11. Owned(new, s, l, I, K)
  <2>1. Owned(new, NewSlot(z), l, I, K) BY <1>7, <1>10, OwnStep DEF new
  <2> QED BY <1>7, <2>1
<1>12. Use(new) = Use(z) \cup {s} /\ new.s[s].type = "mx" BY <1>7, <1>10, AddKeeps DEF new
<1>13. step_bp' = step_bp BY <1>2, <1>5, <1>7
<1>14. StepId' = s BY <1>2, <1>5, <1>13 DEF StepId, s
<1>15. Ids' = I /\ Kinds' = K BY <1>2 DEF Ids, Kinds, I, K
<1>16. OwnInv'
  <2>1. Owned(new, StepId', link_bp', I, K) BY <1>2, <1>11, <1>14 DEF l
  <2> QED BY <1>2, <1>15, <2>1, OwnedNext
<1>17. slots' = new.s /\ head' = new.h BY <1>2 DEF IsArray
<1>18. Use(Array') = Use(new) BY <1>17 DEF Use, Array
<1>19. Use(Array') = Use(Array) BY <1>8, <1>9, <1>12, <1>18 DEF a
<1>20. slots'[step_bp].type = "mx" BY <1>5, <1>12, <1>17
<1> QED BY <1>2, <1>4, <1>5, <1>6, <1>13, <1>14, <1>16, <1>17, <1>19, <1>20 DEF s

\* The debugger sets a breakpoint b that is not installed.
LEMMA Installs ==
  ASSUME OwnInv, DbForm, NEW b \in DbBp, NEW shape \in DbShape, Install(b, shape),
         \A m \in Mode : Ids[b][m] = 0,
         gui.at \notin {"clear", "changed"}, gui'.at \notin {"clear", "changed"},
         UNCHANGED <<step_bp, link_bp>>
  PROVE  OwnInv' /\ DbForm'
<1> DEFINE a == Array
           r == set_bp(a, shape)
           z == r.z
           id == r.id
           s == StepId
           l == link_bp
           I == Ids
           K == Kinds
           J == Ids'
           H == Kinds'
           set == [set |-> TRUE, shape |-> shape, id |-> id]
           W == With(I, b, id)
<1>1. Owned(a, s, l, I, K) BY DEF OwnInv
<1>2. IsArray(z) /\ db' = [db EXCEPT ![b] = set] BY DEF Install
<1>3. s = step_bp /\ StepId' = s BY DEF StepId
<1>4. \A c \in DbBp : db'[c] = IF c = b THEN set ELSE db[c] BY <1>2 DEF DbForm
<1>5. set.set /\ set.shape = shape /\ set.id = id OBVIOUS
<1> HIDE DEF r
<1>6. \A c \in DbBp : J[c] = IF c = b THEN id ELSE I[c] BY <1>4, <1>5 DEF Ids
<1>7. \A c \in DbBp, m \in Mode :
        H[c][m] = IF c = b THEN get_core_bp_type(shape.type, m) ELSE K[c][m]
    BY <1>4, <1>5 DEF Kinds
<1>8. \A m \in Mode : I[b][m] = 0 OBVIOUS
<1> HIDE DEF a, s, l, I, K, J, H
<1>9. Owned(z, s, l, W, H) /\ id \in [Mode -> Nat] BY <1>1, <1>7, <1>8, SetDb DEF r
<1>10. \A c \in DbBp, m \in Mode : W[c][m] = J[c][m] BY <1>6 DEF With
<1> HIDE DEF z, id, W
<1>11. OwnInv'
  <2>1. Owned(z, StepId', link_bp', W, H) BY <1>3, <1>9 DEF l
  <2> QED BY <1>2, <1>10, <2>1, OwnedNext DEF J, H
<1>12. DbForm'
  <2>1. set \in DbSet BY <1>9 DEF DbSet
  <2> HIDE DEF set
  <2> QED BY <1>2, <2>1 DEF DbForm
<1> QED BY <1>11, <1>12

\* The debugger unsets one.
LEMMA Uninstalls ==
  ASSUME OwnInv, NEW b \in DbBp, db[b].set, IsArray(unset_bp(Array, db[b].id)),
         \A c \in DbBp, m \in Mode :
           /\ Ids'[c][m] = IF c = b THEN 0 ELSE Ids[c][m]
           /\ c # b => Kinds'[c][m] = Kinds[c][m],
         gui.at \notin {"clear", "changed"}, gui'.at \notin {"clear", "changed"},
         UNCHANGED <<step_bp, link_bp>>
  PROVE  OwnInv'
<1> DEFINE a == Array
           id == db[b].id
           z == unset_bp(a, id)
           s == StepId
           l == link_bp
           I == Ids
           K == Kinds
           J == Ids'
           H == Kinds'
<1>1. Owned(a, s, l, I, K) BY DEF OwnInv
<1>2. IsArray(z) OBVIOUS
<1>3. s = step_bp /\ StepId' = s BY DEF StepId
<1>4. I[b] = id BY DEF Ids
<1>5. \A c \in DbBp, m \in Mode : /\ J[c][m] = IF c = b THEN 0 ELSE I[c][m]
                                  /\ c # b => H[c][m] = K[c][m]
    OBVIOUS
<1> HIDE DEF a, id, s, l, I, K, J, H
<1>6. Owned(z, s, l, J, K) BY <1>1, <1>4, <1>5, UnsetDb
<1> HIDE DEF z
<1>7. Owned(z, StepId', link_bp', J, K) BY <1>3, <1>6 DEF l
<1>8. \A c \in DbBp, m \in Mode : J[c][m] = J[c][m] /\ (J[c][m] # 0 => H[c][m] = K[c][m])
    BY <1>5
<1> QED BY <1>2, <1>7, <1>8, OwnedNext DEF J, H

\* Where the GUI thread can stand
LEMMA GuiIs ==
  ASSUME GuiForm
  PROVE  /\ gui = Idle => gui.at = "idle" /\ gui.op = "idle"
         /\ gui.at = "set" => gui.op = "change" /\ gui.bp \in DbBp
         /\ gui.at \in {"cancel", "remove", "clear", "done"} =>
              gui = [op |-> gui.op, at |-> gui.at] /\ gui.op \in {"run", "show"} \cup Stepping
<1>1. CASE gui = Idle BY <1>1 DEF Idle
<1>2. CASE gui \in [op : {"run", "show"} \cup Stepping, at : {"cancel", "remove", "clear", "done"}]
    BY <1>2 DEF Idle
<1>3. CASE gui = [op |-> "load", at |-> "changed"] BY <1>3 DEF Idle
<1>4. CASE gui \in [op : {"change"}, at : {"set"}, bp : DbBp] BY <1>4 DEF Idle
<1> QED BY <1>1, <1>2, <1>3, <1>4 DEF GuiForm

\* A breakpoint of the debugger that is set
LEMMA DbIs ==
  ASSUME DbForm, NEW b \in DbBp
  PROVE  /\ db[b].set => db[b].id \in [Mode -> Nat] /\ db[b].shape \in DbShape
         /\ Ids[b] \in [Mode -> Nat]
         /\ ~db[b].set => \A m \in Mode : Ids[b][m] = 0
<1>1. CASE db[b] = NoBp BY <1>1 DEF NoBp, Ids, NoIds
<1>2. CASE db[b] \in DbSet
  <2>1. db[b].set /\ db[b].id \in [Mode -> Nat] /\ db[b].shape \in DbShape BY <1>2 DEF DbSet
  <2> QED BY <2>1 DEF Ids, NoIds
<1> QED BY <1>1, <1>2 DEF DbForm

\* Every step keeps the breakpoints with those who know them.
LEMMA OwnedKept ==
  ASSUME BpInv, [BpNext]_bpVars
  PROVE  OwnInv'
<1>0. OwnInv /\ GuiForm /\ DbForm /\ GuiInv BY DEF BpInv, FormInv
<1>1. ASSUME UNCHANGED z80Vars, UNCHANGED <<step_bp, link_bp, db>>,
             gui.at \in {"clear", "changed"} <=> gui'.at \in {"clear", "changed"},
             gui.at = "changed" <=> gui'.at = "changed"
      PROVE  OwnInv'
  <2>1. StepId' = StepId BY <1>1 DEF StepId
  <2> QED BY <1>0, <1>1, <2>1, SameArray
<1>2. CASE UNCHANGED bpVars BY <1>1, <1>2 DEF bpVars, z80Vars
<1>3. CASE run_begin \/ run_end \/ (\E l \in List : check_begin(l)) \/ check_misses \/ check_hits
    BY <1>1, <1>3 DEF run_begin, run_end, check_begin, check_misses, check_hits
<1>4. CASE bptest_step_over BY <1>4, Bptest
<1>5. CASE audio_on
  <2> DEFINE z == Array
             s == StepId
             I == Ids
             K == Kinds
             y == add_breakpoint(z, "pw", "link")
  <2>1. Owned(z, s, 0, I, K) BY <1>0, <1>5 DEF OwnInv, audio_on
  <2>2. IsArray(y) /\ link_bp' = NewSlot(z) /\ UNCHANGED <<step_bp, db, gui>>
      BY <1>5 DEF audio_on
  <2>3. StepId' = s /\ Ids' = I /\ Kinds' = K BY <2>2 DEF StepId, Ids, Kinds
  <2> HIDE DEF z, s, I, K
  <2>4. Owned(y, s, NewSlot(z), I, K) BY <2>1, OwnLink
  <2> HIDE DEF y
  <2>5. Owned(y, StepId', link_bp', I, K) BY <2>2, <2>3, <2>4
  <2> QED BY <2>2, <2>3, <2>5, OwnedNext
<1>6. CASE audio_off
  <2> DEFINE z == Array
             s == StepId
             I == Ids
             K == Kinds
             y == remove_breakpoint(z, link_bp)
  <2>1. Owned(z, s, link_bp, I, K) /\ link_bp # 0 BY <1>0, <1>6 DEF OwnInv, audio_off
  <2>2. IsArray(y) /\ link_bp' = 0 /\ UNCHANGED <<step_bp, db, gui>> BY <1>6 DEF audio_off
  <2>3. StepId' = s /\ Ids' = I /\ Kinds' = K BY <2>2 DEF StepId, Ids, Kinds
  <2> HIDE DEF z, s, I, K
  <2>4. Owned(y, s, 0, I, K) BY <2>1, DropLink
  <2> HIDE DEF y
  <2>5. Owned(y, StepId', link_bp', I, K) BY <2>2, <2>3, <2>4
  <2> QED BY <2>2, <2>3, <2>5, OwnedNext
<1>7. CASE action_run \/ tilem_debugger_show \/ tilem_debugger_hide \/ step_begin
  <2>1. gui = Idle /\ gui'.at \in {"cancel", "done"} /\ UNCHANGED z80Vars
        /\ UNCHANGED <<step_bp, link_bp, db>>
      BY <1>7 DEF action_run, tilem_debugger_show, tilem_debugger_hide, step_begin
  <2>2. gui.at = "idle" BY <1>0, <2>1, GuiIs
  <2> QED BY <1>1, <2>1, <2>2
<1>8. CASE cancel_test
  <2>1. gui.at = "cancel" /\ UNCHANGED z80Vars /\ UNCHANGED <<step_bp, link_bp, db>>
        /\ gui' = [gui EXCEPT !.at = IF step_bp = 0 THEN "done" ELSE "remove"]
      BY <1>8 DEF cancel_test
  <2>2. gui = [op |-> gui.op, at |-> gui.at] BY <1>0, <2>1, GuiIs
  <2>3. gui'.at \in {"done", "remove"} BY <2>1, <2>2
  <2> QED BY <1>1, <2>1, <2>3
<1>9. CASE cancel_remove
  <2> DEFINE z == Array
             l == link_bp
             I == Ids
             K == Kinds
             y == remove_breakpoint(z, step_bp)
  <2>1. /\ gui.at = "remove" /\ IsArray(y) /\ UNCHANGED <<step_bp, link_bp, db>>
        /\ gui' = [gui EXCEPT !.at = "clear"]
      BY <1>9 DEF cancel_remove
  <2>2. gui = [op |-> gui.op, at |-> gui.at] BY <1>0, <2>1, GuiIs
  <2>3. gui'.at = "clear" BY <2>1, <2>2
  <2>4. step_bp # 0 BY <1>0, <2>1 DEF GuiInv
  <2>5. Owned(z, step_bp, l, I, K) BY <1>0, <2>1 DEF OwnInv, StepId
  <2>6. StepId' = 0 /\ Ids' = I /\ Kinds' = K BY <2>1, <2>3 DEF StepId, Ids, Kinds
  <2> HIDE DEF z, l, I, K
  <2>7. Owned(y, 0, l, I, K) BY <2>4, <2>5, DropStep
  <2> HIDE DEF y
  <2>8. Owned(y, StepId', link_bp', I, K) BY <2>1, <2>6, <2>7 DEF l
  <2> QED BY <2>1, <2>6, <2>8, OwnedNext
<1>10. CASE cancel_clear
  <2>1. /\ gui.at = "clear" /\ step_bp' = 0 /\ UNCHANGED z80Vars /\ UNCHANGED <<link_bp, db>>
        /\ gui' = [gui EXCEPT !.at = "done"]
      BY <1>10 DEF cancel_clear
  <2>2. gui = [op |-> gui.op, at |-> gui.at] BY <1>0, <2>1, GuiIs
  <2>3. gui'.at = "done" BY <2>1, <2>2
  <2>4. StepId' = StepId BY <2>1, <2>3 DEF StepId
  <2> QED BY <1>0, <2>1, <2>3, <2>4, SameArray
<1>11. CASE show_done \/ run_done
  <2>1. gui.at = "done" /\ gui' = Idle /\ UNCHANGED z80Vars /\ UNCHANGED <<step_bp, link_bp, db>>
      BY <1>11 DEF show_done, run_done
  <2>2. gui'.at = "idle" BY <2>1 DEF Idle
  <2> QED BY <1>1, <2>1, <2>2
<1>12. CASE run_with_step_condition
  <2> DEFINE z == Array
             l == link_bp
             I == Ids
             K == Kinds
             func == gui.op
             y == add_breakpoint(z, "op", func)
  <2>1. /\ gui.at = "done" /\ gui.op \in Stepping /\ IsArray(y) /\ UNCHANGED <<link_bp, db>>
        /\ step_bp' = NewSlot(z) /\ gui' = [op |-> "run", at |-> "done"]
      BY <1>12 DEF run_with_step_condition
  <2>2. gui'.at = "done" BY <2>1
  <2>3. step_bp = 0 BY <1>0, <2>1 DEF GuiInv
  <2>4. Owned(z, 0, l, I, K) BY <1>0, <2>1, <2>3 DEF OwnInv, StepId
  <2>5. StepId' = NewSlot(z) /\ Ids' = I /\ Kinds' = K
      BY <2>1, <2>2 DEF StepId, Ids, Kinds
  <2>6. func \in Func BY <2>1 DEF Stepping, Func
  <2> HIDE DEF z, l, I, K, func
  <2>7. Owned(y, NewSlot(z), l, I, K) BY <2>4, <2>6, OwnStep
  <2> HIDE DEF y
  <2>8. Owned(y, StepId', link_bp', I, K) BY <2>1, <2>5, <2>7 DEF l
  <2> QED BY <2>1, <2>5, <2>8, OwnedNext
<1>13. CASE change_set
  <2>1. /\ gui.at = "set" /\ Install(gui.bp, db[gui.bp].shape) /\ gui' = Idle
        /\ UNCHANGED <<step_bp, link_bp>>
      BY <1>13 DEF change_set
  <2> DEFINE b == gui.bp
  <2>2. b \in DbBp BY <1>0, <2>1, GuiIs
  <2>3. db[b].set /\ \A m \in Mode : db[b].id[m] = 0 BY <1>0, <2>1 DEF GuiInv
  <2>4. gui'.at = "idle" BY <2>1 DEF Idle
  <2>5. db[b].shape \in DbShape BY <1>0, <2>2, <2>3, DbIs
  <2>6. \A m \in Mode : Ids[b][m] = 0 BY <2>1, <2>2, <2>3 DEF Ids
  <2> HIDE DEF b
  <2> QED BY <1>0, <2>1, <2>2, <2>4, <2>5, <2>6, Installs DEF b
<1>14. CASE load_calc
  <2> DEFINE z == Array'
             I == Ids'
             K == Kinds'
  <2>1. /\ slots' = <<>> /\ head' = [l \in List \cup {"free"} |-> 0] /\ link_bp' = 0
        /\ gui' = [op |-> "load", at |-> "changed"]
      BY <1>14 DEF load_calc
  <2>2. gui'.at = "changed" BY <2>1
  <2>3. StepId' = 0 BY <2>2 DEF StepId
  <2>4. \A b \in DbBp, m \in Mode : I[b][m] = 0 BY <2>2 DEF Ids, NoIds
  <2>5. z.s = <<>> /\ z.h = [l \in List \cup {"free"} |-> 0] BY <2>1 DEF Array
  <2> HIDE DEF z, I, K
  <2>6. Owned(z, 0, 0, I, K) BY <2>4, <2>5, NewOwned
  <2> QED BY <2>1, <2>3, <2>6 DEF OwnInv, z, I, K
<1>15. CASE tilem_debugger_calc_changed
  <2> DEFINE z == Array
             l == link_bp
             I == Ids
             K == Kinds
  <2>1. /\ gui.at = "changed" /\ step_bp' = 0 /\ db' = [b \in DbBp |-> NoBp] /\ gui' = Idle
        /\ UNCHANGED z80Vars /\ link_bp' = link_bp
      BY <1>15 DEF tilem_debugger_calc_changed
  <2>2. StepId' = 0 BY <2>1 DEF StepId
  <2>3. \A b \in DbBp, m \in Mode : Ids'[b][m] = I[b][m] /\ I[b][m] = 0
    <3>1. \A b \in DbBp : db'[b] = NoBp BY <2>1
    <3> QED BY <2>1, <3>1 DEF Ids, NoIds, NoBp
  <2>4. Owned(z, 0, l, I, K) BY <1>0, <2>1 DEF OwnInv, StepId
  <2>5. IsArray(z) BY <2>1 DEF IsArray, Array, z80Vars
  <2> HIDE DEF z, l, I, K
  <2>6. Owned(z, StepId', link_bp', I, K) BY <2>1, <2>2, <2>4 DEF l
  <2> QED BY <2>3, <2>5, <2>6, OwnedNext
<1>16. ASSUME NEW b \in DbBp, tilem_debugger_add_breakpoint(b) PROVE OwnInv'
  <2>1. PICK shape \in DbShape : Install(b, shape) BY <1>16 DEF tilem_debugger_add_breakpoint
  <2>2. gui = Idle /\ gui' = gui /\ ~db[b].set /\ UNCHANGED <<step_bp, link_bp>>
      BY <1>16 DEF tilem_debugger_add_breakpoint
  <2>3. gui.at = "idle" /\ gui'.at = "idle" BY <1>0, <2>2, GuiIs
  <2>4. \A m \in Mode : Ids[b][m] = 0 BY <1>0, <2>2, DbIs
  <2> QED BY <1>0, <2>1, <2>2, <2>3, <2>4, Installs
<1>17. ASSUME NEW b \in DbBp, tilem_debugger_remove_breakpoint(b) PROVE OwnInv'
  <2>1. /\ gui = Idle /\ gui' = gui /\ db[b].set /\ UNCHANGED <<step_bp, link_bp>>
        /\ IsArray(unset_bp(Array, db[b].id)) /\ db' = [db EXCEPT ![b] = NoBp]
      BY <1>17 DEF tilem_debugger_remove_breakpoint
  <2>2. gui.at = "idle" /\ gui'.at = "idle" BY <1>0, <2>1, GuiIs
  <2>3. \A c \in DbBp : db'[c] = IF c = b THEN NoBp ELSE db[c] BY <1>0, <2>1 DEF DbForm
  <2>4. \A c \in DbBp, m \in Mode :
          /\ Ids'[c][m] = IF c = b THEN 0 ELSE Ids[c][m]
          /\ c # b => Kinds'[c][m] = Kinds[c][m]
      BY <2>2, <2>3 DEF Ids, Kinds, NoIds, NoBp
  <2> QED BY <1>0, <2>1, <2>2, <2>4, Uninstalls
<1>18. ASSUME NEW b \in DbBp, change_begin(b) PROVE OwnInv'
  <2>1. /\ gui = Idle /\ db[b].set /\ UNCHANGED <<step_bp, link_bp>>
        /\ IsArray(unset_bp(Array, db[b].id)) /\ gui' = [op |-> "change", at |-> "set", bp |-> b]
      BY <1>18 DEF change_begin
  <2>2. gui.at = "idle" /\ gui'.at = "set" BY <1>0, <2>1, GuiIs
  <2>3. PICK shape \in DbShape :
          db' = [db EXCEPT ![b] = [set |-> TRUE, shape |-> shape,
                                   id |-> [m \in {"r", "w", "x"} |-> 0]]]
      BY <1>18 DEF change_begin
  <2> DEFINE set == [set |-> TRUE, shape |-> shape, id |-> NoIds]
  <2>4. \A c \in DbBp : db'[c] = IF c = b THEN set ELSE db[c]
      BY <1>0, <2>3 DEF DbForm, NoIds, Mode
  <2>5. set.id = NoIds OBVIOUS
  <2> HIDE DEF set
  <2>6. \A c \in DbBp, m \in Mode :
          /\ Ids'[c][m] = IF c = b THEN 0 ELSE Ids[c][m]
          /\ c # b => Kinds'[c][m] = Kinds[c][m]
      BY <2>2, <2>4, <2>5 DEF Ids, Kinds, NoIds
  <2> QED BY <1>0, <2>1, <2>2, <2>6, Uninstalls
<1> QED BY <1>2, <1>3, <1>4, <1>5, <1>6, <1>7, <1>8, <1>9, <1>10, <1>11, <1>12, <1>13, <1>14,
           <1>15, <1>16, <1>17, <1>18 DEF BpNext, CoreStep, CancelSteps

\* The core thread leaves to the debugger what is the debugger's.
LEMMA CoreFrame ==
  ASSUME BpInv, CoreStep
  PROVE  UNCHANGED <<step_bp, db, gui>>
<1>1. CASE bptest_step_over
  <2>1. step_bp' = step_bp BY <1>1, Bptest
  <2> QED BY <1>1, <2>1 DEF bptest_step_over
<1> QED BY <1>1 DEF CoreStep, run_begin, run_end, check_begin, check_misses, check_hits, audio_on,
           audio_off

\* The core thread walks on in a list.
LEMMA WalkKept ==
  ASSUME BpInv, CoreStep
  PROVE  CoreForm' /\ AtInv'
<1>0. /\ CoreForm /\ Listed(Array) /\ Array.s = slots /\ Array.h = head
    BY DEF BpInv, FormInv, OwnInv, Owned, Array
<1>1. UNCHANGED <<step_bp, db, gui>> /\ StepId' = StepId BY CoreFrame DEF StepId
<1>2. ASSUME NEW t, NEW q, core.at = "check", core' = IF q = 0 THEN [at |-> "run", stop |-> t]
                                                ELSE [core EXCEPT !.bp = q, !.stop = t]
      PROVE  /\ CoreForm'
             /\ core'.at = "check" => q # 0 /\ core'.bp = q /\ core'.list = core.list
  <2>1. CASE q = 0 BY <1>2, <2>1 DEF CoreForm
  <2>2. CASE q # 0
    <3> DEFINE c == core
               d == core'
    <3>1. c = [at |-> "check", stop |-> c.stop, list |-> c.list, bp |-> c.bp] /\ c.list \in List
        BY <1>0, <1>2 DEF CoreForm
    <3>2. d = [c EXCEPT !.bp = q, !.stop = t] BY <1>2, <2>2
    <3> HIDE DEF c, d
    <3>3. d = [at |-> "check", stop |-> t, list |-> c.list, bp |-> q]
      <4> DEFINE a == c.stop
                 b == c.list
                 e == c.bp
                 u == [c EXCEPT !.bp = q]
      <4>1. c = [at |-> "check", stop |-> a, list |-> b, bp |-> e] BY <3>1
      <4>2. d = [u EXCEPT !.stop = t] BY <3>2
      <4> HIDE DEF a, b, e
      <4>3. u = [at |-> "check", stop |-> a, list |-> b, bp |-> q] BY <4>1
      <4> HIDE DEF u
      <4>4. d = [at |-> "check", stop |-> t, list |-> b, bp |-> q] BY <4>2, <4>3
      <4> QED BY <4>4 DEF b
    <3>4. /\ d = [at |-> "check", stop |-> d.stop, list |-> d.list, bp |-> d.bp]
          /\ d.at = "check" /\ d.bp = q /\ d.list = c.list
        BY <3>3
    <3> QED BY <2>2, <3>1, <3>4 DEF CoreForm, c, d
  <2> QED BY <2>1, <2>2
<1>3. ASSUME core'.at # "check" PROVE AtInv' BY <1>3 DEF AtInv
<1>4. CASE run_begin \/ run_end
  <2>1. core'.at \in {"run", "out"} BY <1>4 DEF run_begin, run_end
  <2> QED BY <1>3, <2>1 DEF CoreForm
<1>5. CASE audio_on \/ audio_off
  <2>1. core' = core /\ core.at = "out" BY <1>5 DEF audio_on, audio_off
  <2> QED BY <1>3, <2>1 DEF CoreForm
<1>6. ASSUME NEW l \in List, check_begin(l) PROVE CoreForm' /\ AtInv'
  <2>1. /\ core' = [at |-> "check", stop |-> core.stop, list |-> l, bp |-> head[l]]
        /\ head[l] # 0 /\ UNCHANGED z80Vars
      BY <1>6 DEF check_begin
  <2>2. Array' = Array /\ slots' = slots BY <2>1 DEF Array, z80Vars
  <2>3. head[l] \in Use(Array) /\ slots[head[l]].type = l BY <1>0, <2>1, WalkLeads
  <2>4. core'.bp = head[l] /\ core'.list = l BY <2>1
  <2>5. CoreForm' BY <2>1 DEF CoreForm
  <2> QED BY <2>2, <2>3, <2>4, <2>5 DEF AtInv
<1>7. CASE check_misses \/ check_hits
  <2> DEFINE q == slots[core.bp].next
  <2>1. /\ core.at = "check" /\ UNCHANGED z80Vars
        /\ \E t : core' = IF q = 0 THEN [at |-> "run", stop |-> t]
                          ELSE [core EXCEPT !.bp = q, !.stop = t]
      BY <1>0, <1>7 DEF check_misses, check_hits, WalkOn
  <2>2. Array' = Array /\ slots' = slots BY <2>1 DEF Array, z80Vars
  <2>3. /\ core.bp \in Use(Array)
        /\ \/ slots[core.bp].type = core.list
           \/ /\ core.list = "op" /\ StepId # 0
              /\ slots[StepId].type = "mx" /\ slots[core.bp].type = "mx"
      BY <2>1 DEF BpInv, AtInv
  <2>4. q # 0 => q \in Use(Array) /\ slots[q].type = slots[core.bp].type
      BY <1>0, <2>3, WalkLeads
  <2> HIDE DEF q
  <2>5. CoreForm' /\ (core'.at = "check" => q # 0 /\ core'.bp = q /\ core'.list = core.list)
      BY <1>2, <2>1
  <2> QED BY <1>1, <2>2, <2>3, <2>4, <2>5 DEF AtInv
<1>8. CASE bptest_step_over
  <2> DEFINE q == slots'[core.bp].next
  <2>1. /\ OwnInv' /\ step_bp # 0 /\ step_bp = core.bp /\ StepId' = step_bp
        /\ core.list = "op" /\ Use(Array') = Use(Array) /\ slots'[step_bp].type = "mx"
        /\ core' = IF q = 0 THEN [at |-> "run", stop |-> core.stop]
                   ELSE [core EXCEPT !.bp = q, !.stop = core.stop]
      BY <1>8, Bptest
  <2>2. core.at = "check" /\ core.bp \in Use(Array)
      BY <1>8 DEF BpInv, AtInv, bptest_step_over
  <2>3. Listed(Array') /\ Array'.s = slots' BY <2>1 DEF OwnInv, Owned, MayStep, Array
  <2>4. q # 0 => q \in Use(Array') /\ slots'[q].type = "mx"
    <3> DEFINE z == Array'
               v == core.bp
    <3>1. Listed(z) /\ v \in Use(z) /\ z.s[v].type = "mx" /\ q = z.s[v].next
        BY <2>1, <2>2, <2>3
    <3> HIDE DEF z, v, q
    <3>2. q # 0 => q \in Use(z) /\ z.s[q].type = "mx" BY <3>1, WalkLeads
    <3> QED BY <2>3, <3>2 DEF z
  <2> HIDE DEF q
  <2>5. CoreForm' /\ (core'.at = "check" => q # 0 /\ core'.bp = q /\ core'.list = core.list)
      BY <1>2, <2>1, <2>2
  <2> QED BY <2>1, <2>4, <2>5 DEF AtInv
<1> QED BY <1>4, <1>5, <1>6, <1>7, <1>8 DEF CoreStep

\* What the debugger does while the core thread is in a list leaves the array alone.
LEMMA GuiFrame ==
  ASSUME BpInv, [BpNext]_bpVars, ~CoreStep
  PROVE  core' = core /\ AtInv'
<1>0. GuiForm BY DEF BpInv, FormInv
<1>1. core' = core
      /\ \/ core.at = "out"
         \/ UNCHANGED z80Vars /\ StepId' = StepId
  <2>1. CASE UNCHANGED bpVars BY <2>1 DEF bpVars, z80Vars, StepId
  <2>2. CASE action_run \/ tilem_debugger_hide \/ step_begin
    <3>1. /\ core' = core /\ UNCHANGED z80Vars /\ step_bp' = step_bp /\ gui = Idle
          /\ gui'.at \in {"cancel", "done"}
        BY <2>2 DEF action_run, tilem_debugger_hide, step_begin
    <3>2. gui.at = "idle" BY <1>0, <3>1, GuiIs
    <3> QED BY <3>1, <3>2 DEF StepId
  <2>3. CASE cancel_test \/ cancel_clear \/ show_done
    <3>1. /\ core' = core /\ UNCHANGED z80Vars /\ gui.at \in {"cancel", "clear", "done"}
          /\ step_bp' = IF gui.at = "clear" THEN 0 ELSE step_bp
          /\ \/ \E at \in {"done", "remove"} : gui' = [gui EXCEPT !.at = at]
             \/ gui' = Idle
        BY <2>3 DEF cancel_test, cancel_clear, show_done
    <3>2. gui = [op |-> gui.op, at |-> gui.at] BY <1>0, <3>1, GuiIs
    <3>3. gui'.at \in {"done", "remove", "idle"} BY <3>1, <3>2 DEF Idle
    <3> QED BY <3>1, <3>3 DEF StepId
  <2>4. CASE tilem_debugger_calc_changed
    <3>1. /\ core' = core /\ UNCHANGED z80Vars /\ gui.at = "changed" /\ step_bp' = 0
        BY <2>4 DEF tilem_debugger_calc_changed
    <3> QED BY <3>1 DEF StepId
  <2>5. CASE \/ cancel_remove \/ run_done \/ run_with_step_condition \/ change_set \/ load_calc
             \/ tilem_debugger_show
             \/ \E b \in DbBp : \/ tilem_debugger_add_breakpoint(b)
                                \/ tilem_debugger_remove_breakpoint(b) \/ change_begin(b)
      BY <2>5 DEF cancel_remove, run_done, run_with_step_condition, change_set, load_calc,
                  tilem_debugger_show, tilem_debugger_add_breakpoint,
                  tilem_debugger_remove_breakpoint, change_begin, Locked
  <2> QED BY <2>1, <2>2, <2>3, <2>4, <2>5 DEF BpNext, CancelSteps
<1>2. CASE core.at = "out" BY <1>1, <1>2 DEF AtInv
<1>3. CASE UNCHANGED z80Vars /\ StepId' = StepId
  <2>1. Array' = Array /\ slots' = slots BY <1>3 DEF Array, z80Vars
  <2> QED BY <1>1, <1>3, <2>1 DEF BpInv, AtInv
<1> QED BY <1>1, <1>2, <1>3

\* What the debugger does keeps what is known of the debugger.
LEMMA GuiKept ==
  ASSUME BpInv, [BpNext]_bpVars, ~CoreStep
  PROVE  GuiForm' /\ DbForm' /\ GuiInv'
<1>0. OwnInv /\ GuiForm /\ DbForm /\ GuiInv BY DEF BpInv, FormInv
<1>1. CASE UNCHANGED bpVars BY <1>0, <1>1 DEF bpVars, GuiForm, DbForm, GuiInv
<1>2. CASE action_run \/ tilem_debugger_show \/ tilem_debugger_hide \/ step_begin
  <2>1. /\ UNCHANGED <<step_bp, db>>
        /\ gui' \in [op : {"run", "show"} \cup Stepping, at : {"cancel", "remove", "clear", "done"}]
        /\ gui'.at = "cancel" \/ (gui'.at = "done" /\ gui'.op = "run")
      BY <1>2 DEF action_run, tilem_debugger_show, tilem_debugger_hide, step_begin
  <2>2. GuiForm' BY <2>1 DEF GuiForm
  <2> QED BY <1>0, <2>1, <2>2 DEF DbForm, GuiInv, Stepping
<1>3. CASE cancel_test
  <2>1. gui.at = "cancel" /\ UNCHANGED <<step_bp, db>>
        /\ gui' = [gui EXCEPT !.at = IF step_bp = 0 THEN "done" ELSE "remove"]
      BY <1>3 DEF cancel_test
  <2>2. gui = [op |-> gui.op, at |-> gui.at] /\ gui.op \in {"run", "show"} \cup Stepping
      BY <1>0, <2>1, GuiIs
  <2>3. gui' = [op |-> gui.op, at |-> IF step_bp = 0 THEN "done" ELSE "remove"] BY <2>1, <2>2
  <2>4. GuiForm' BY <2>2, <2>3 DEF GuiForm
  <2> QED BY <1>0, <2>1, <2>3, <2>4 DEF DbForm, GuiInv
<1>4. CASE cancel_remove
  <2>1. gui.at = "remove" /\ UNCHANGED db /\ gui' = [gui EXCEPT !.at = "clear"]
      BY <1>4 DEF cancel_remove
  <2>2. gui = [op |-> gui.op, at |-> gui.at] /\ gui.op \in {"run", "show"} \cup Stepping
      BY <1>0, <2>1, GuiIs
  <2>3. gui' = [op |-> gui.op, at |-> "clear"] BY <2>1, <2>2
  <2>4. GuiForm' BY <2>2, <2>3 DEF GuiForm
  <2> QED BY <1>0, <2>1, <2>3, <2>4 DEF DbForm, GuiInv
<1>5. CASE cancel_clear
  <2>1. gui.at = "clear" /\ step_bp' = 0 /\ UNCHANGED db /\ gui' = [gui EXCEPT !.at = "done"]
      BY <1>5 DEF cancel_clear
  <2>2. gui = [op |-> gui.op, at |-> gui.at] /\ gui.op \in {"run", "show"} \cup Stepping
      BY <1>0, <2>1, GuiIs
  <2>3. gui' = [op |-> gui.op, at |-> "done"] BY <2>1, <2>2
  <2>4. GuiForm' BY <2>2, <2>3 DEF GuiForm
  <2> QED BY <1>0, <2>1, <2>3, <2>4 DEF DbForm, GuiInv
<1>6. ASSUME gui' = Idle PROVE GuiForm' /\ GuiInv'
  <2>1. gui'.at = "idle" BY <1>6 DEF Idle
  <2> QED BY <1>6, <2>1 DEF GuiForm, GuiInv
<1>7. CASE show_done \/ run_done
  <2>1. gui' = Idle /\ UNCHANGED db BY <1>7 DEF show_done, run_done
  <2> QED BY <1>0, <1>6, <2>1 DEF DbForm
<1>8. CASE run_with_step_condition
  <2>1. gui' = [op |-> "run", at |-> "done"] /\ UNCHANGED db
      BY <1>8 DEF run_with_step_condition
  <2>2. GuiForm' BY <2>1 DEF GuiForm
  <2>3. gui'.at = "done" /\ gui'.op = "run" BY <2>1
  <2> QED BY <1>0, <2>1, <2>2, <2>3 DEF DbForm, GuiInv, Stepping
<1>9. CASE change_set
  <2>1. /\ gui.at = "set" /\ Install(gui.bp, db[gui.bp].shape) /\ gui' = Idle
        /\ UNCHANGED <<step_bp, link_bp>>
      BY <1>9 DEF change_set
  <2> DEFINE b == gui.bp
  <2>2. b \in DbBp BY <1>0, <2>1, GuiIs
  <2>3. db[b].set /\ \A m \in Mode : db[b].id[m] = 0 BY <1>0, <2>1 DEF GuiInv
  <2>4. gui'.at = "idle" BY <2>1 DEF Idle
  <2>5. db[b].shape \in DbShape BY <1>0, <2>2, <2>3, DbIs
  <2>6. \A m \in Mode : Ids[b][m] = 0 BY <2>1, <2>2, <2>3 DEF Ids
  <2> HIDE DEF b
  <2>7. DbForm' BY <1>0, <2>1, <2>2, <2>4, <2>5, <2>6, Installs DEF b
  <2> QED BY <1>6, <2>1, <2>7
<1>10. CASE load_calc
  <2>1. gui' = [op |-> "load", at |-> "changed"] /\ UNCHANGED db BY <1>10 DEF load_calc
  <2>2. GuiForm' BY <2>1 DEF GuiForm
  <2>3. gui'.at = "changed" BY <2>1
  <2> QED BY <1>0, <2>1, <2>2, <2>3 DEF DbForm, GuiInv
<1>11. CASE tilem_debugger_calc_changed
  <2>1. gui' = Idle /\ db' = [b \in DbBp |-> NoBp] BY <1>11 DEF tilem_debugger_calc_changed
  <2> QED BY <1>6, <2>1 DEF DbForm
<1>12. ASSUME NEW b \in DbBp, tilem_debugger_add_breakpoint(b)
       PROVE  GuiForm' /\ DbForm' /\ GuiInv'
  <2>1. PICK shape \in DbShape : Install(b, shape) BY <1>12 DEF tilem_debugger_add_breakpoint
  <2>2. gui = Idle /\ gui' = gui /\ ~db[b].set /\ UNCHANGED <<step_bp, link_bp>>
      BY <1>12 DEF tilem_debugger_add_breakpoint
  <2>3. gui.at = "idle" /\ gui'.at = "idle" BY <1>0, <2>2, GuiIs
  <2>4. \A m \in Mode : Ids[b][m] = 0 BY <1>0, <2>2, DbIs
  <2>5. DbForm' BY <1>0, <2>1, <2>2, <2>3, <2>4, Installs
  <2> QED BY <1>6, <2>2, <2>5
<1>13. ASSUME NEW b \in DbBp, tilem_debugger_remove_breakpoint(b)
       PROVE  GuiForm' /\ DbForm' /\ GuiInv'
  <2>1. gui' = Idle /\ db' = [db EXCEPT ![b] = NoBp]
      BY <1>13 DEF tilem_debugger_remove_breakpoint
  <2>2. DbForm' BY <1>0, <2>1 DEF DbForm
  <2> QED BY <1>6, <2>1, <2>2
<1>14. ASSUME NEW b \in DbBp, change_begin(b) PROVE GuiForm' /\ DbForm' /\ GuiInv'
  <2>1. gui' = [op |-> "change", at |-> "set", bp |-> b] BY <1>14 DEF change_begin
  <2>2. PICK shape \in DbShape :
          db' = [db EXCEPT ![b] = [set |-> TRUE, shape |-> shape,
                                   id |-> [m \in {"r", "w", "x"} |-> 0]]]
      BY <1>14 DEF change_begin
  <2> DEFINE set == [set |-> TRUE, shape |-> shape, id |-> [m \in {"r", "w", "x"} |-> 0]]
  <2>3. set \in DbSet BY DEF DbSet, Mode
  <2>4. set.set /\ \A m \in Mode : set.id[m] = 0 BY DEF Mode
  <2> HIDE DEF set
  <2>5. db' = [db EXCEPT ![b] = set] BY <2>2 DEF set
  <2>6. DbForm' /\ db'[b] = set BY <1>0, <2>3, <2>5 DEF DbForm
  <2>7. GuiForm' BY <2>1 DEF GuiForm
  <2>8. gui'.at = "set" /\ gui'.bp = b BY <2>1
  <2>9. GuiInv' BY <2>4, <2>6, <2>8 DEF GuiInv
  <2> QED BY <2>6, <2>7, <2>9
<1> QED BY <1>1, <1>2, <1>3, <1>4, <1>5, <1>7, <1>8, <1>9, <1>10, <1>11, <1>12, <1>13, <1>14
        DEF BpNext, CancelSteps

\* The invariant is inductive.
LEMMA BpKept ==
  ASSUME BpInv, [BpNext]_bpVars
  PROVE  BpInv'
<1>1. OwnInv' BY OwnedKept
<1>2. CASE CoreStep
  <2>1. UNCHANGED <<step_bp, db, gui>> /\ CoreForm' /\ AtInv' BY <1>2, CoreFrame, WalkKept
  <2>2. GuiForm' /\ DbForm' /\ GuiInv' BY <2>1 DEF BpInv, FormInv, GuiForm, DbForm, GuiInv
  <2> QED BY <1>1, <2>1, <2>2 DEF BpInv, FormInv
<1>3. CASE ~CoreStep
  <2>1. core' = core /\ AtInv' BY <1>3, GuiFrame
  <2>2. CoreForm' BY <2>1 DEF BpInv, FormInv, CoreForm
  <2>3. GuiForm' /\ DbForm' /\ GuiInv' BY <1>3, GuiKept
  <2> QED BY <1>1, <2>1, <2>2, <2>3 DEF BpInv, FormInv
<1> QED BY <1>2, <1>3

LEMMA BpStarts ==
  ASSUME BpInit
  PROVE  BpInv
<1>1. /\ gui = Idle /\ core = [at |-> "out"] /\ step_bp = 0 /\ link_bp = 0
      /\ db = [b \in DbBp |-> NoBp]
      /\ slots = <<>> /\ head = [l \in List \cup {"free"} |-> 0]
    BY DEF BpInit
<1>2. gui.at = "idle" /\ core.at = "out" BY <1>1 DEF Idle
<1>3. OwnInv
  <2> DEFINE z == Array
             I == Ids
             K == Kinds
  <2>1. z.s = <<>> /\ z.h = [l \in List \cup {"free"} |-> 0] BY <1>1 DEF Array
  <2>2. \A b \in DbBp, m \in Mode : I[b][m] = 0 BY <1>1 DEF Ids, NoIds, NoBp
  <2>3. StepId = 0 BY <1>1 DEF StepId
  <2> HIDE DEF z, I, K
  <2>4. Owned(z, 0, 0, I, K) BY <2>1, <2>2, NewOwned
  <2> QED BY <1>1, <2>3, <2>4 DEF OwnInv, z, I, K
<1> QED BY <1>1, <1>2, <1>3 DEF BpInv, FormInv, GuiForm, DbForm, CoreForm, GuiInv, AtInv

\* Each list is the sequence that Listed says there is.
LEMMA ListedLinked ==
  ASSUME Listed(Array)
  PROVE  BpLinked
<1>1. PICK L : Threaded(slots, head, L) BY DEF Listed, Array
<1>2. slots \in Seq(Bp) /\ Len(slots) \in Nat /\ DOMAIN slots = 1..Len(slots)
    BY <1>1, BpFields DEF Threaded
<1> SUFFICES ASSUME NEW l \in List \cup {"free"}
             PROVE  LET c == ChainOf(head[l]) IN
                    /\ ToSet(c) = {n \in Slot : slots[n].type = l} /\ IsInjective(c)
                    /\ l # "free" =>
                         \A k \in DOMAIN c : slots[c[k]].prev = IF k = 1 THEN 0 ELSE c[k - 1]
    BY DEF BpLinked
<1> DEFINE N == Len(slots)
           q == L[l]
           c == ChainOf(head[l])
           nx == Nx(slots)
           f == head[l]
<1>3. l \in Types BY DEF Types
<1>4. /\ q \in Seq(1..N) /\ IsInjective(q) /\ Runs(nx, f, q)
      /\ \A v \in 1..N : On(q, v) <=> slots[v].type = l
      /\ l # "free" => Back(Pv(slots), q)
    BY <1>1, <1>3 DEF Threaded
<1>5. nx \in [1..N -> Nat] /\ N \in Nat
  <2>1. \A v \in 1..N : slots[v].next \in Nat BY <1>2, BpFields
  <2> QED BY <1>2, <2>1 DEF Nx
<1>6. c = Walk(nx, f) BY <1>2 DEF ChainOf, Nx, Slot
<1> HIDE DEF c, q, nx, f, N
<1>7. c = q BY <1>4, <1>5, <1>6, WalkIs
<1>8. ToSet(q) = {v \in 1..N : On(q, v)} BY <1>4, <1>5, OnList
<1>9. ToSet(c) = {n \in Slot : slots[n].type = l} BY <1>2, <1>4, <1>7, <1>8 DEF Slot, N
<1>10. l # "free" => \A k \in DOMAIN q : slots[q[k]].prev = IF k = 1 THEN 0 ELSE q[k - 1]
  <2> SUFFICES ASSUME l # "free", NEW k \in DOMAIN q
               PROVE  slots[q[k]].prev = IF k = 1 THEN 0 ELSE q[k - 1]
      OBVIOUS
  <2>1. DOMAIN q = 1..Len(q) /\ q \in [1..Len(q) -> 1..N] BY <1>4, <1>5, SeqIs
  <2>2. Pv(slots)[q[k]] = IF k = 1 THEN 0 ELSE q[k - 1] BY <1>4, <2>1 DEF Back
  <2>3. q[k] \in 1..N BY <2>1
  <2>4. \A v \in 1..N : Pv(slots)[v] = slots[v].prev BY DEF Pv, N
  <2> QED BY <2>2, <2>3, <2>4
<1> QED BY <1>4, <1>7, <1>9, <1>10 DEF c

\* Where nothing is forgotten, all that is known is what is set.
LEMMA KnownOwned ==
  ASSUME BpInv
  PROVE  BpOwned
<1>0. OwnInv /\ DbForm BY DEF BpInv, FormInv
<1> DEFINE z == Array
           s == StepId
           l == link_bp
           I == Ids
           K == Kinds
<1>1. Owned(z, s, l, I, K) /\ z.s = slots BY <1>0 DEF OwnInv, Array
<1>2. link_bp # 0 => slots[link_bp].type = "pw" /\ slots[link_bp].func = "link"
  <2> HIDE DEF z, s, I, K
  <2> QED BY <1>1 DEF Owned, MayStep
<1>3. ASSUME gui.at \notin {"clear", "changed"}
      PROVE  /\ Known \ {0} = {n \in Slot : slots[n].type # "free"}
             /\ step_bp # 0 => slots[step_bp].type \in {"op", "mx"}
             /\ \A b \in DbBp : db[b].set => \A m \in {"r", "w", "x"} :
                  db[b].id[m] # 0 =>
                    slots[db[b].id[m]].type = get_core_bp_type(db[b].shape.type, m)
  <2>1. s = step_bp BY <1>3 DEF StepId
  <2>2. \A b \in DbBp, m \in Mode : db[b].set => I[b][m] = db[b].id[m] BY <1>3 DEF Ids
  <2>3. \A b \in DbBp, m \in Mode : ~db[b].set => I[b][m] = 0 BY <1>0, DbIs
  <2>4. \A b \in DbBp, m \in Mode : K[b][m] = get_core_bp_type(db[b].shape.type, m) BY DEF Kinds
  <2>5. Use(z) = {n \in Slot : slots[n].type # "free"}
    <3>1. DOMAIN z.s = 1..Len(z.s)
      <4> HIDE DEF z
      <4> QED BY <1>1, UseIs DEF Owned, MayStep
    <3> QED BY <1>1, <3>1 DEF Use, Slot
  <2> HIDE DEF z, s, l, I, K
  <2>6. \A v \in Use(z) : v # 0 BY <1>1, UseIs DEF Owned, MayStep
  <2>7. \A v \in Use(z) : v \in Known
    <3> SUFFICES ASSUME NEW v \in Use(z), v # s, v # l PROVE v \in Known
        BY <2>1 DEF Known, l
    <3>1. PICK b \in DbBp, m \in Mode : v = I[b][m] BY <1>1 DEF Owned, MayStep
    <3>2. db[b].set /\ v = db[b].id[m] BY <2>2, <2>3, <2>6, <3>1
    <3>3. b \in {c \in DbBp : db[c].set} /\ m \in {"r", "w", "x"} BY <3>2 DEF Mode
    <3> QED BY <3>2, <3>3 DEF Known
  <2>8. \A v \in Known : v # 0 => v \in Use(z)
    <3> SUFFICES ASSUME NEW v \in Known, v # 0 PROVE v \in Use(z)
        OBVIOUS
    <3>1. CASE v = s \/ v = l BY <1>1, <3>1 DEF Owned, MayStep
    <3>2. CASE v # s /\ v # l
      <4>1. PICK b \in {c \in DbBp : db[c].set}, m \in {"r", "w", "x"} : v = db[b].id[m]
          BY <2>1, <3>2 DEF Known, l
      <4>2. m \in Mode /\ I[b][m] = v BY <2>2, <4>1 DEF Mode
      <4> QED BY <1>1, <4>2 DEF Owned, MayStep
    <3> QED BY <3>1, <3>2
  <2>9. Known \ {0} = Use(z) BY <2>6, <2>7, <2>8
  <2>10. step_bp # 0 => slots[step_bp].type \in {"op", "mx"} BY <1>1, <2>1 DEF Owned, MayStep
  <2>11. \A b \in DbBp : db[b].set => \A m \in {"r", "w", "x"} :
           db[b].id[m] # 0 => slots[db[b].id[m]].type = get_core_bp_type(db[b].shape.type, m)
    <3> SUFFICES ASSUME NEW b \in DbBp, db[b].set, NEW m \in Mode, db[b].id[m] # 0
                 PROVE  slots[db[b].id[m]].type = get_core_bp_type(db[b].shape.type, m)
        BY DEF Mode
    <3>1. I[b][m] = db[b].id[m] /\ I[b][m] # 0 BY <2>2
    <3>2. z.s[I[b][m]].type = K[b][m] BY <1>1, <3>1 DEF Owned, MayStep
    <3> QED BY <1>1, <2>4, <3>1, <3>2
  <2> QED BY <2>5, <2>9, <2>10, <2>11
<1> QED BY <1>2, <1>3 DEF BpOwned

\* The breakpoints of the Z80 stay sound, whatever the debugger, the audio filter
\* and the core thread do and in whatever order (emu/z80.c:172-273, 447-479,
\* 692-725 and gui/debugger.c).
THEOREM BpStaysSound == BpSpec => []BpSound
<1>1. BpInit => BpInv BY BpStarts
<1>2. BpInv /\ [BpNext]_bpVars => BpInv' BY BpKept
<1>3. BpInv => BpSound
  <2> SUFFICES ASSUME BpInv PROVE BpSound
      OBVIOUS
  <2>1. BpLinked BY ListedLinked DEF BpInv, OwnInv, Owned
  <2>2. BpOwned BY KnownOwned
  <2>3. WalkInList
    <3> SUFFICES ASSUME core.at = "check" PROVE WalkInList
        BY DEF WalkInList
    <3>1. \/ slots[core.bp].type = core.list
          \/ /\ core.list = "op" /\ StepId # 0
             /\ slots[StepId].type = "mx" /\ slots[core.bp].type = "mx"
        BY DEF BpInv, AtInv
    <3>2. StepId # 0 => StepId = step_bp BY DEF StepId
    <3> QED BY <3>1, <3>2 DEF WalkInList
  <2> QED BY <2>1, <2>2, <2>3 DEF BpSound
<1> QED BY <1>1, <1>2, <1>3, PTL DEF BpSpec
=============================================================================
