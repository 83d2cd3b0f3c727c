----------------------------- MODULE HostProofs -----------------------------
(***************************************************************************)
(* Theorems about KeyQueue, for every keyboard, keypad and set of bindings, *)
(* about QtLink, for every size of the buffers and any bytes, about the two *)
(* side by side, as they are checked in MCHost, and at the end about        *)
(* AudioOut, for every latency, ring, chunk and request size.               *)
(*                                                                         *)
(* The order of the key queue is an invariant by itself, given what Reverse *)
(* does to the two ends of a sequence.  HeldKeyHasOwner is not inductive:   *)
(* OwnerInv adds that while the timer exists a hold has an owner, which is  *)
(* what the callback relies on when it removes the timer.                   *)
(*                                                                         *)
(* In QtLink the history due says what has been put into m_input and has    *)
(* not reached the calculator.  It is at all times the byte under way,      *)
(* followed by what is still in the buffer: the invariant that QtInOrder    *)
(* needs.                                                                   *)
(***************************************************************************)
EXTENDS MCHost, AudioOut, SequenceTheorems, TLAPS

-----------------------------------------------------------------------------
(* The key queue *)

-----------------------------------------------------------------------------
(* Sequences kept in reverse *)

LEMMA ReverseType ==
  ASSUME NEW S, NEW s \in Seq(S)
  PROVE  /\ Reverse(s) \in Seq(S) /\ Len(Reverse(s)) = Len(s)
         /\ \A i \in 1..Len(s) : Reverse(s)[i] = s[Len(s) - i + 1]
<1>1. \A i \in 1..Len(s) : Len(s) - i + 1 \in 1..Len(s) /\ s[Len(s) - i + 1] \in S
  OBVIOUS
<1>2. QED
  BY <1>1 DEF Reverse

\* Pushing keys in reverse before a reversed queue appends them to the queue
\* (queue_keys, emulator.c:809-820).
LEMMA ReversePush ==
  ASSUME NEW S, NEW q \in Seq(S), NEW keys \in Seq(S)
  PROVE  Reverse(Reverse(keys) \o q) = Reverse(q) \o keys
<1> DEFINE m  == Len(keys)
           n  == Len(q)
           rk == Reverse(keys)
           rq == Reverse(q)
           w  == rk \o q
           l  == Reverse(w)
           r  == rq \o keys
<1>1. m \in Nat /\ n \in Nat
  OBVIOUS
<1>2. rk \in Seq(S) /\ Len(rk) = m /\ \A i \in 1..m : rk[i] = keys[m - i + 1]
  BY ReverseType
<1>3. rq \in Seq(S) /\ Len(rq) = n /\ \A i \in 1..n : rq[i] = q[n - i + 1]
  BY ReverseType
<1> HIDE DEF rk, rq
<1>4. /\ w \in Seq(S) /\ Len(w) = m + n
      /\ \A i \in 1..(m + n) : w[i] = IF i <= m THEN rk[i] ELSE q[i - m]
  <2>1. /\ w \in Seq(S)
        /\ Len(w) = Len(rk) + Len(q)
        /\ \A i \in 1..(Len(rk) + Len(q)) :
             w[i] = IF i <= Len(rk) THEN rk[i] ELSE q[i - Len(rk)]
    BY <1>2, ConcatProperties, ZenonT(40)
  <2>2. QED
    BY <1>2, <2>1
<1>6. /\ r \in Seq(S) /\ Len(r) = n + m
      /\ \A i \in 1..(n + m) : r[i] = IF i <= n THEN rq[i] ELSE keys[i - n]
  <2>1. /\ r \in Seq(S)
        /\ Len(r) = Len(rq) + Len(keys)
        /\ \A i \in 1..(Len(rq) + Len(keys)) :
             r[i] = IF i <= Len(rq) THEN rq[i] ELSE keys[i - Len(rq)]
    BY <1>3, ConcatProperties, ZenonT(40)
  <2>2. QED
    BY <1>3, <2>1
<1> HIDE DEF w, r
<1>5. l \in Seq(S) /\ Len(l) = m + n /\ \A i \in 1..(m + n) : l[i] = w[m + n - i + 1]
  <2>1. l \in Seq(S) /\ Len(l) = Len(w)
        /\ \A i \in 1..Len(w) : l[i] = w[Len(w) - i + 1]
    BY <1>4, ReverseType
  <2>2. QED
    BY <1>4, <2>1
<1> HIDE DEF l
<1> HIDE DEF m, n
<1>7. ASSUME NEW i \in 1..(m + n) PROVE l[i] = r[i]
  <2>1. m + n - i + 1 \in 1..(m + n) /\ i \in 1..(n + m)
    BY <1>1
  <2>2. CASE i <= n
    <3>1. m + n - i + 1 > m /\ (m + n - i + 1) - m = n - i + 1 /\ i \in 1..n
      BY <1>1, <2>2
    <3>2. w[m + n - i + 1] = q[n - i + 1]
      BY <1>1, <1>4, <2>1, <3>1
    <3>3. r[i] = q[n - i + 1]
      BY <1>3, <1>6, <2>1, <2>2, <3>1
    <3>4. QED
      BY <1>5, <3>2, <3>3
  <2>3. CASE i > n
    <3>1. /\ m + n - i + 1 \in 1..m
          /\ m - (m + n - i + 1) + 1 = i - n
      BY <1>1, <2>3
    <3>2. w[m + n - i + 1] = keys[i - n]
      BY <1>1, <1>2, <1>4, <2>1, <3>1
    <3>3. r[i] = keys[i - n]
      BY <1>1, <1>6, <2>1, <2>3
    <3>4. QED
      BY <1>5, <3>2, <3>3
  <2>4. QED
    BY <1>1, <2>2, <2>3
<1>8. l = r
  <2>1. Len(l) = Len(r) /\ \A i \in 1..Len(l) : l[i] = r[i]
    BY <1>1, <1>5, <1>6, <1>7
  <2>2. QED
    BY <1>5, <1>6, <2>1, SeqEqual
<1>9. QED
  BY <1>8 DEF l, w, r, rk, rq

\* Taking the last key of a reversed queue takes the oldest one
\* (tmr_key_queue, emulator.c:786).
LEMMA ReversePop ==
  ASSUME NEW S, NEW q \in Seq(S), q # <<>>
  PROVE  /\ Last(q) \in S /\ Front(q) \in Seq(S)
         /\ Reverse(q) = <<Last(q)>> \o Reverse(Front(q))
<1> DEFINE n   == Len(q)
           f   == Front(q)
           rf  == Reverse(f)
           rq  == Reverse(q)
           one == <<Last(q)>>
           r   == one \o rf
<1>1. n \in Nat \ {0} /\ Last(q) \in S /\ Last(q) = q[n]
  BY DEF Last
<1>2. f \in Seq(S) /\ Len(f) = n - 1 /\ \A i \in 1..(n - 1) : f[i] = q[i]
  <2>1. f = SubSeq(q, 1, n - 1)
    BY DEF Front
  <2>2. n - 1 \in Int /\ 1 \in Int /\ (\A i \in 1..(n - 1) : q[i] \in S)
    BY <1>1
  <2>3. /\ SubSeq(q, 1, n - 1) \in Seq(S)
        /\ Len(SubSeq(q, 1, n - 1)) = IF 1 <= n - 1 THEN (n - 1) - 1 + 1 ELSE 0
        /\ \A i \in 1..((n - 1) - 1 + 1) : SubSeq(q, 1, n - 1)[i] = q[1 + i - 1]
    <3> DEFINE p == n - 1
    <3> HIDE DEF p
    <3>1. p \in Int /\ 1 \in Int /\ (\A i \in 1..p : q[i] \in S)
      BY <2>2 DEF p
    <3>2. /\ SubSeq(q, 1, p) \in Seq(S)
          /\ Len(SubSeq(q, 1, p)) = IF 1 <= p THEN p - 1 + 1 ELSE 0
          /\ \A i \in 1..(p - 1 + 1) : SubSeq(q, 1, p)[i] = q[1 + i - 1]
      BY <3>1, SubSeqProperties
    <3>3. QED
      BY <3>2 DEF p
  <2> DEFINE t == SubSeq(q, 1, n - 1)
  <2>7. f = t /\ t \in Seq(S) /\ Len(t) = IF 1 <= n - 1 THEN (n - 1) - 1 + 1 ELSE 0
    BY <2>1, <2>3
  <2> HIDE DEF f, t
  <2>4. f \in Seq(S) /\ Len(f) = n - 1
    <3>1. f \in Seq(S) /\ Len(f) = IF 1 <= n - 1 THEN (n - 1) - 1 + 1 ELSE 0
      BY <2>7
    <3>2. n \in Nat \ {0}
      BY <1>1
    <3> HIDE DEF n
    <3>3. (IF 1 <= n - 1 THEN (n - 1) - 1 + 1 ELSE 0) = n - 1
      BY <3>2
    <3>4. QED
      BY <3>1, <3>3
  <2>5. ASSUME NEW i \in 1..(n - 1) PROVE f[i] = q[i]
    <3>1. i \in 1..((n - 1) - 1 + 1) /\ 1 + i - 1 = i
      BY <1>1
    <3>2. SubSeq(q, 1, n - 1)[i] = q[1 + i - 1]
      BY <2>3, <3>1
    <3>3. QED
      BY <2>1, <3>1, <3>2
  <2>6. QED
    BY <2>4, <2>5
<1>4. rq \in Seq(S) /\ Len(rq) = n /\ \A i \in 1..n : rq[i] = q[n - i + 1]
  BY ReverseType
<1>5. one \in Seq(S) /\ Len(one) = 1 /\ one[1] = q[n]
  BY <1>1
<1> HIDE DEF f, rq, one
<1>3. rf \in Seq(S) /\ Len(rf) = n - 1
      /\ \A i \in 1..(n - 1) : rf[i] = f[(n - 1) - i + 1]
  <2>1. rf \in Seq(S) /\ Len(rf) = Len(f)
        /\ \A i \in 1..Len(f) : rf[i] = f[Len(f) - i + 1]
    BY <1>2, ReverseType
  <2>2. QED
    BY <1>2, <2>1
<1> HIDE DEF rf
<1>6. /\ r \in Seq(S) /\ Len(r) = n
      /\ \A i \in 1..n : r[i] = IF i <= 1 THEN one[i] ELSE rf[i - 1]
  <2>1. /\ r \in Seq(S)
        /\ Len(r) = Len(one) + Len(rf)
        /\ \A i \in 1..(Len(one) + Len(rf)) :
             r[i] = IF i <= Len(one) THEN one[i] ELSE rf[i - Len(one)]
    <3>1. one \in Seq(S) /\ rf \in Seq(S)
      BY <1>3, <1>5
    <3>2. QED
      BY <3>1, ConcatProperties
  <2>2. Len(one) + Len(rf) = n
    BY <1>1, <1>3, <1>5
  <2>3. QED
    BY <1>5, <2>1, <2>2
<1> HIDE DEF r
<1> HIDE DEF n
<1>7. ASSUME NEW i \in 1..n PROVE rq[i] = r[i]
  <2>1. CASE i = 1
    BY <1>1, <1>4, <1>5, <1>6, <2>1
  <2>2. CASE i > 1
    <3>1. /\ i - 1 \in 1..(n - 1) /\ n - i + 1 \in 1..(n - 1)
          /\ (n - 1) - (i - 1) + 1 = n - i + 1
      BY <1>1, <2>2
    <3>2. rf[i - 1] = q[n - i + 1]
      BY <1>2, <1>3, <3>1
    <3>3. QED
      BY <1>1, <1>4, <1>6, <2>2, <3>2
  <2>3. QED
    BY <1>1, <2>1, <2>2
<1>8. rq = r
  BY <1>4, <1>6, <1>7, SeqEqual
<1>9. QED
  BY <1>1, <1>2, <1>8 DEF f, rf, rq, one, r
-----------------------------------------------------------------------------
(* The inductive invariant *)

\* While the timer exists a hold has an owner; a key is the current one exactly
\* while one is pressed.
OwnerInv ==
  /\ armed => key_queue_timer
  /\ key_queue_timer /\ key_queue_hold => sequence_keycode # NoHost
  /\ HeldKeyHasOwner
  /\ IF key_queue_pressed THEN key_queue_cur \in Key ELSE key_queue_cur = NoKey

KInv == KeyTypeOK /\ QueueInOrder /\ NoStuckKey /\ OwnerInv

LEMMA KeyConcat ==
  ASSUME NEW s \in Seq(Key), NEW t \in Seq(Key), NEW u \in Seq(Key)
  PROVE  (s \o t) \o u = s \o (t \o u)
BY ConcatAssociative

\* Queueing keys keeps the order (queue_keys, emulator.c:802-827).
LEMMA QueueKeysOrder ==
  ASSUME KeyTypeOK, QueueInOrder, NEW keys \in Seq(Key), queue_keys(keys),
         pressed' = pressed
  PROVE  /\ key_queue' \in Seq(Key) /\ typed' \in Seq(Key)
         /\ QueueInOrder'
<1> DEFINE rk == Reverse(keys)
           rq == Reverse(key_queue)
<1>1. rk \in Seq(Key) /\ rq \in Seq(Key)
  BY ReverseType DEF KeyTypeOK
<1>2. Reverse(rk \o key_queue) = rq \o keys
  BY ReversePush DEF KeyTypeOK
<1>3. typed' = typed \o keys /\ key_queue' = rk \o key_queue
  BY DEF queue_keys
<1>4. typed = pressed \o rq
  BY DEF QueueInOrder
<1>5. key_queue \in Seq(Key) /\ typed \in Seq(Key) /\ pressed \in Seq(Key)
  BY DEF KeyTypeOK
<1> HIDE DEF rk, rq
<1>6. (pressed \o rq) \o keys = pressed \o (rq \o keys)
  BY <1>1, <1>5, KeyConcat, SMTT(30)
<1>7. key_queue' \in Seq(Key) /\ typed' \in Seq(Key)
  BY <1>1, <1>3, <1>5, ConcatProperties
<1>8. QED
  BY <1>2, <1>3, <1>4, <1>6, <1>7 DEF QueueInOrder

\* Playing the next key keeps the order (tmr_key_queue, emulator.c:785-791).
LEMMA PressNextOrder ==
  ASSUME KeyTypeOK, QueueInOrder, key_queue # <<>>, press_next, typed' = typed
  PROVE  /\ Last(key_queue) \in Key
         /\ key_queue' \in Seq(Key) /\ pressed' \in Seq(Key)
         /\ QueueInOrder'
<1> DEFINE x  == Last(key_queue)
           f  == Front(key_queue)
           rf == Reverse(f)
<1>1. key_queue \in Seq(Key) /\ pressed \in Seq(Key)
  BY DEF KeyTypeOK
<1>2. x \in Key /\ f \in Seq(Key) /\ Reverse(key_queue) = <<x>> \o rf
  BY <1>1, ReversePop
<1>3. rf \in Seq(Key)
  BY <1>2, ReverseType
<1>4. key_queue' = f /\ pressed' = Append(pressed, x)
  BY DEF press_next
<1> HIDE DEF x, f
<1>5. Append(pressed, x) = pressed \o <<x>> /\ <<x>> \in Seq(Key)
  BY <1>1, <1>2, AppendIsConcat
<1>6. Reverse(key_queue') = rf
  BY <1>4
<1> HIDE DEF rf
<1>7. (pressed \o <<x>>) \o rf = pressed \o (<<x>> \o rf)
  BY <1>1, <1>3, <1>5, KeyConcat
<1>8. pressed' \in Seq(Key)
  BY <1>1, <1>2, <1>4
<1>9. typed' = pressed' \o Reverse(key_queue')
  BY <1>2, <1>4, <1>5, <1>6, <1>7 DEF QueueInOrder
<1>10. QED
  BY <1>2, <1>4, <1>8, <1>9 DEF QueueInOrder, x

LEMMA KInvInit == KeyInit => KInv
<1> SUFFICES ASSUME KeyInit PROVE KInv
  OBVIOUS
<1>1. KeyTypeOK
  <2>1. <<>> \in Seq(Key) /\ 0 \in Nat
    BY EmptySeq
  <2>2. key_queue \in Seq(Key) /\ typed \in Seq(Key) /\ pressed \in Seq(Key)
    BY <2>1 DEF KeyInit
  <2>3. /\ key_queue_timer \in BOOLEAN /\ armed \in BOOLEAN
        /\ key_queue_pressed \in BOOLEAN /\ key_queue_hold \in BOOLEAN
        /\ key_queue_cur \in Key \cup {NoKey} /\ keysdown \subseteq Key
        /\ keypress_keycodes \in [Key -> Host \cup {NoHost}]
        /\ sequence_keycode \in Host \cup {NoHost}
        /\ mouse_key \in Key \cup {NoKey} /\ loads \in Nat
    BY DEF KeyInit
  <2>4. QED
    BY <2>2, <2>3 DEF KeyTypeOK
<1>2. Reverse(<<>>) = <<>>
  <2>1. <<>> \in Seq(Key) /\ Len(<<>>) = 0
    OBVIOUS
  <2>2. Reverse(<<>>) \in Seq(Key) /\ Len(Reverse(<<>>)) = 0
    BY <2>1, ReverseType
  <2>3. QED
    BY <2>2, EmptySeq
<1>3. QueueInOrder
  <2>1. <<>> \o <<>> = <<>>
    OBVIOUS
  <2>2. QED
    BY <1>2, <2>1 DEF KeyInit, QueueInOrder
<1>4. NoStuckKey /\ OwnerInv
  BY DEF KeyInit, NoStuckKey, OwnerInv, HeldKeyHasOwner
<1>5. QED
  BY <1>1, <1>3, <1>4 DEF KInv

LEMMA KInvStep == KInv /\ [KeyNext]_keyVars => KInv'
<1> SUFFICES ASSUME KInv, [KeyNext]_keyVars PROVE KInv'
  OBVIOUS
<1> USE KeyConstants DEF KInv
<1>1. ASSUME NEW h \in Host, key_press_event(h) PROVE KInv'
  <2> DEFINE keys == Binding[h]
  <2>0. keys \in Seq(Key) \ {<<>>} /\ Head(keys) \in Key /\ h # NoHost
    BY DEF keys
  <2>1. ASSUME NEW ks \in Seq(Key), queue_keys(ks), sequence_keycode' = h,
               UNCHANGED <<keysdown, keypress_keycodes, mouse_key, pressed, loads>>
        PROVE  KInv'
    <3>1. key_queue' \in Seq(Key) /\ typed' \in Seq(Key) /\ QueueInOrder'
      BY <2>1, QueueKeysOrder
    <3>2. KeyTypeOK'
      BY <2>1, <3>1 DEF KeyTypeOK, queue_keys
    <3>3. NoStuckKey'
      BY <2>1 DEF NoStuckKey, queue_keys
    <3>4. OwnerInv'
      BY <2>0, <2>1 DEF OwnerInv, HeldKeyHasOwner, queue_keys
    <3>5. QED
      BY <3>1, <3>2, <3>3, <3>4
  <2>2. ASSUME ~key_queue_timer, Len(keys) = 1, press_or_queue(h),
               UNCHANGED <<mouse_key, pressed, loads>>
        PROVE  KInv'
    <3>1. /\ keysdown' = keysdown \cup {Head(keys)}
          /\ keypress_keycodes' = [keypress_keycodes EXCEPT ![Head(keys)] = h]
          /\ UNCHANGED <<queueVars, sequence_keycode, typed>>
      BY <2>2 DEF press_or_queue
    <3>2. KeyTypeOK'
      BY <2>0, <2>2, <3>1 DEF KeyTypeOK, queueVars
    <3>3. QueueInOrder'
      BY <2>2, <3>1 DEF QueueInOrder, queueVars
    <3>4. NoStuckKey'
      BY <2>0, <2>2, <3>1 DEF NoStuckKey, KeyTypeOK, queueVars
    <3>5. OwnerInv'
      BY <2>2, <3>1 DEF OwnerInv, HeldKeyHasOwner, queueVars
    <3>6. QED
      BY <3>2, <3>3, <3>4, <3>5
  <2>3. CASE Len(keys) = 1 /\ key_queue_timer
    <3>1. queue_keys(<<Head(keys)>>) /\ <<Head(keys)>> \in Seq(Key)
      BY <1>1, <2>0, <2>3 DEF key_press_event, press_or_queue
    <3>2. QED
      BY <1>1, <2>1, <2>3, <3>1 DEF key_press_event, press_or_queue
  <2>4. CASE Len(keys) = 1 /\ ~key_queue_timer
    BY <1>1, <2>2, <2>4 DEF key_press_event
  <2>5. CASE Len(keys) # 1
    BY <1>1, <2>0, <2>1, <2>5 DEF key_press_event
  <2>6. QED
    BY <2>3, <2>4, <2>5
<1>2. ASSUME NEW H \in SUBSET Host, release_keycode(H) PROVE KInv'
  <2> DEFINE released == {k \in Key : keypress_keycodes[k] \in H}
  <2>1. /\ keypress_keycodes' =
             [k \in Key |-> IF k \in released THEN NoHost ELSE keypress_keycodes[k]]
        /\ UNCHANGED <<key_queue, key_queue_timer, armed, mouse_key, typed,
                       pressed, loads>>
    BY <1>2 DEF release_keycode, historyVars
  <2>2. QueueInOrder'
    BY <2>1 DEF QueueInOrder
  <2>3. CASE sequence_keycode \in H
    <3>1. release_queued_key(keysdown \ released) /\ sequence_keycode' = NoHost
      BY <1>2, <2>3 DEF release_keycode
    <3>2. KeyTypeOK'
      BY <2>1, <3>1 DEF KeyTypeOK, release_queued_key
    <3>3. NoStuckKey'
      BY <2>1, <3>1 DEF NoStuckKey, KeyTypeOK, release_queued_key
    <3>4. OwnerInv'
      BY <2>1, <3>1 DEF OwnerInv, HeldKeyHasOwner, release_queued_key
    <3>5. QED
      BY <2>2, <3>2, <3>3, <3>4
  <2>4. CASE sequence_keycode \notin H
    <3>1. /\ keysdown' = keysdown \ released
          /\ UNCHANGED <<sequence_keycode, key_queue_hold, key_queue_pressed,
                         key_queue_cur>>
      BY <1>2, <2>4 DEF release_keycode
    <3>2. KeyTypeOK'
      BY <2>1, <3>1 DEF KeyTypeOK
    <3>3. NoStuckKey'
      BY <2>1, <3>1 DEF NoStuckKey, KeyTypeOK
    <3>4. OwnerInv'
      BY <2>1, <3>1 DEF OwnerInv, HeldKeyHasOwner
    <3>5. QED
      BY <2>2, <3>2, <3>3, <3>4
  <2>5. QED
    BY <2>3, <2>4
<1>3. ASSUME NEW key \in Key \cup {NoKey}, press_mouse_key(key) PROVE KInv'
  <2>1. KeyTypeOK'
    BY <1>3 DEF press_mouse_key, KeyTypeOK, queueVars, historyVars
  <2>2. QueueInOrder' /\ OwnerInv'
    BY <1>3 DEF press_mouse_key, QueueInOrder, OwnerInv, HeldKeyHasOwner,
                queueVars, historyVars
  <2>3. NoStuckKey'
    BY <1>3 DEF press_mouse_key, NoStuckKey, KeyTypeOK, queueVars
  <2>4. QED
    BY <2>1, <2>2, <2>3
<1>4. CASE tmr_key_queue
  <2>1. /\ armed /\ key_queue_timer
        /\ UNCHANGED <<key_queue_hold, keypress_keycodes, sequence_keycode,
                       mouse_key, typed, loads>>
    BY <1>4 DEF tmr_key_queue, OwnerInv, windowVars
  <2>2. CASE key_queue_pressed /\ release_current
    <3>1. KeyTypeOK'
      BY <2>1, <2>2 DEF KeyTypeOK, release_current
    <3>2. QueueInOrder' /\ OwnerInv'
      BY <2>1, <2>2 DEF release_current, QueueInOrder, OwnerInv, HeldKeyHasOwner
    <3>3. NoStuckKey'
      BY <2>1, <2>2 DEF release_current, NoStuckKey
    <3>4. QED
      BY <3>1, <3>2, <3>3
  <2>3. CASE remove_timer /\ (key_queue_pressed => key_queue_hold)
    <3>1. KeyTypeOK'
      BY <2>1, <2>3 DEF KeyTypeOK, remove_timer
    <3>2. QueueInOrder' /\ NoStuckKey'
      BY <2>1, <2>3 DEF remove_timer, QueueInOrder, NoStuckKey
    <3>3. OwnerInv'
      BY <2>1, <2>3 DEF remove_timer, OwnerInv, HeldKeyHasOwner
    <3>4. QED
      BY <3>1, <3>2, <3>3
  <2>4. CASE ~key_queue_pressed /\ key_queue # <<>> /\ press_next
    <3>1. /\ Last(key_queue) \in Key
          /\ key_queue' \in Seq(Key) /\ pressed' \in Seq(Key)
          /\ QueueInOrder'
      BY <2>1, <2>4, PressNextOrder
    <3>2. KeyTypeOK'
      BY <2>1, <2>4, <3>1 DEF KeyTypeOK, press_next
    <3>3. NoStuckKey'
      BY <2>1, <2>4 DEF press_next, NoStuckKey
    <3>4. OwnerInv'
      BY <2>1, <2>4, <3>1 DEF press_next, OwnerInv, HeldKeyHasOwner
    <3>5. QED
      BY <3>1, <3>2, <3>3, <3>4
  <2>5. QED
    BY <1>4, <2>2, <2>3, <2>4 DEF tmr_key_queue
<1>5. CASE reset
  <2>1. KeyTypeOK'
    BY <1>5 DEF reset, KeyTypeOK, queueVars, windowVars, historyVars
  <2>2. QueueInOrder' /\ NoStuckKey' /\ OwnerInv'
    BY <1>5 DEF reset, QueueInOrder, NoStuckKey, OwnerInv, HeldKeyHasOwner,
                queueVars, windowVars, historyVars
  <2>3. QED
    BY <2>1, <2>2
<1>6. CASE load_state
  <2>1. KeyTypeOK'
    <3>1. loads' \in Nat /\ armed' \in BOOLEAN /\ keysdown' \subseteq Key
      <4>1. loads \in Nat /\ loads' = loads + 1 /\ armed' = FALSE /\ keysdown' = {}
        BY <1>6 DEF load_state, KeyTypeOK
      <4>2. loads' \in Nat
        BY <4>1
      <4>3. QED
        BY <4>1, <4>2, Zenon
    <3>2. UNCHANGED <<key_queue, key_queue_timer, key_queue_pressed,
                      key_queue_cur, key_queue_hold, keypress_keycodes,
                      sequence_keycode, mouse_key, typed, pressed>>
      BY <1>6 DEF load_state, windowVars
    <3>3. QED
      BY <3>1, <3>2 DEF KeyTypeOK
  <2>2. QueueInOrder' /\ NoStuckKey' /\ OwnerInv'
    BY <1>6 DEF load_state, QueueInOrder, NoStuckKey, OwnerInv, HeldKeyHasOwner,
                windowVars
  <2>3. QED
    BY <2>1, <2>2
<1>7. CASE UNCHANGED keyVars
  <2>1. KeyTypeOK'
    BY <1>7 DEF KeyTypeOK, keyVars, queueVars, windowVars, historyVars
  <2>2. QueueInOrder' /\ NoStuckKey' /\ OwnerInv'
    BY <1>7 DEF keyVars, QueueInOrder, NoStuckKey, OwnerInv, HeldKeyHasOwner,
                queueVars, windowVars, historyVars
  <2>3. QED
    BY <2>1, <2>2
<1>8. ASSUME NEW h \in Host, key_release_event(h) PROVE KInv'
  BY <1>2, <1>8 DEF key_release_event
<1>9. CASE focus_out_event
  BY <1>2, <1>9 DEF focus_out_event
<1>10. QED
  BY <1>1, <1>3, <1>4, <1>5, <1>6, <1>7, <1>8, <1>9 DEF KeyNext

LEMMA KInvAlways == KeySpec => []KInv
<1>1. QED
  BY KInvInit, KInvStep, PTL DEF KeySpec

-----------------------------------------------------------------------------
(* Theorems *)

\* The queue, the keypad and the window's maps keep their types.
THEOREM KeyTypes == KeySpec => []KeyTypeOK
<1>1. KInv => KeyTypeOK
  BY DEF KInv
<1>2. QED
  BY <1>1, KInvAlways, PTL

\* However many keys are queued while others are played back, they are pressed
\* in the order they were typed, none lost and none twice.
THEOREM PlayedInOrder == KeySpec => []QueueInOrder
<1>1. KInv => QueueInOrder
  BY DEF KInv
<1>2. QED
  BY <1>1, KInvAlways, PTL

\* No handler, reset or load leaves a calculator key down that no host key, no
\* mouse button and no playback holds.
LEMMA NoKeyLeftDown == KeySpec => []NoStuckKey
<1>1. KInv => NoStuckKey
  BY DEF KInv
<1>2. QED
  BY <1>1, KInvAlways, PTL

\* A key the playback left held down can still be let go by the window.
LEMMA HeldKeyReleasable == KeySpec => []HeldKeyHasOwner
<1>1. KInv => HeldKeyHasOwner
  BY DEF KInv, OwnerInv
<1>2. QED
  BY <1>1, KInvAlways, PTL

\* So every key that is down has an owner that will let it go (event.c, and the
\* playback of emulator.c).
THEOREM KeysStayOwned == KeySpec => []KeysOwned
<1>1. NoStuckKey /\ HeldKeyHasOwner => KeysOwned
  BY DEF KeysOwned
<1>2. QED
  BY <1>1, NoKeyLeftDown, HeldKeyReleasable, PTL

\* The callback presses a key only when it has let the last one go, one key at a
\* time.
THEOREM OneAtATime == KeySpec => OneKeyAtATime
<1>1. KInv /\ [KeyNext]_keyVars =>
        [pressed' # pressed => ~key_queue_pressed /\ Len(pressed') = Len(pressed) + 1]_keyVars
  <2> SUFFICES ASSUME KInv, KeyNext, pressed' # pressed
               PROVE  ~key_queue_pressed /\ Len(pressed') = Len(pressed) + 1
    OBVIOUS
  <2>1. tmr_key_queue
    BY DEF KeyNext, key_press_event, key_release_event, focus_out_event,
           release_keycode, press_mouse_key, reset, load_state, historyVars
  <2>2. ~key_queue_pressed /\ key_queue # <<>> /\ press_next
    BY <2>1 DEF tmr_key_queue, release_current, remove_timer
  <2>3. Last(key_queue) \in Key /\ pressed \in Seq(Key)
    BY <2>1, <2>2, PressNextOrder DEF KInv, KeyTypeOK, tmr_key_queue
  <2>4. QED
    BY <2>2, <2>3 DEF press_next
<1>2. QED
  BY <1>1, KInvAlways, PTL DEF KeySpec, OneKeyAtATime

-----------------------------------------------------------------------------
(* The link of the Qt interface *)

QtInv ==
  /\ QtTypeOK
  /\ due = out \o m_input
  /\ ~amiss

-----------------------------------------------------------------------------
(* Sequences of bytes *)

LEMMA ConcatAt ==
  ASSUME NEW S, NEW s \in Seq(S), NEW t \in Seq(S)
  PROVE  /\ s \o t \in Seq(S) /\ Len(s \o t) = Len(s) + Len(t)
         /\ \A i \in 1..Len(s) : (s \o t)[i] = s[i]
         /\ \A i \in 1..Len(t) : (s \o t)[Len(s) + i] = t[i]
OBVIOUS

LEMMA SplitHead ==
  ASSUME NEW S, NEW s \in Seq(S), s # <<>>
  PROVE  /\ Head(s) \in S /\ Tail(s) \in Seq(S)
         /\ <<Head(s)>> \in Seq(S) /\ Len(<<Head(s)>>) = 1
         /\ <<Head(s)>> \o Tail(s) = s
<1>1. /\ Head(s) \in S /\ Tail(s) \in Seq(S)
      /\ Len(Tail(s)) = Len(s) - 1
      /\ \A i \in 1..Len(s) - 1 : Tail(s)[i] = s[i + 1]
      /\ Head(s) = s[1]
  BY HeadTailProperties
<1>2. Len(s) \in Nat /\ Len(s) # 0
  BY EmptySeq, LenProperties
<1> DEFINE one == <<Head(s)>>
<1>3. one \in Seq(S) /\ Len(one) = 1 /\ one[1] = s[1]
  BY <1>1
<1> HIDE DEF one
<1>4. /\ one \o Tail(s) \in Seq(S) /\ Len(one \o Tail(s)) = Len(s)
      /\ (one \o Tail(s))[1] = s[1]
      /\ \A i \in 1..Len(s) - 1 : (one \o Tail(s))[1 + i] = Tail(s)[i]
  <2>1. /\ one \o Tail(s) \in Seq(S) /\ Len(one \o Tail(s)) = 1 + (Len(s) - 1)
        /\ \A i \in 1..1 : (one \o Tail(s))[i] = one[i]
        /\ \A i \in 1..Len(s) - 1 : (one \o Tail(s))[1 + i] = Tail(s)[i]
    <3> DEFINE r == Tail(s)
    <3>1. r \in Seq(S) /\ Len(r) = Len(s) - 1
      BY <1>1
    <3> HIDE DEF r
    <3>2. /\ one \o r \in Seq(S) /\ Len(one \o r) = Len(one) + Len(r)
          /\ \A i \in 1..Len(one) : (one \o r)[i] = one[i]
          /\ \A i \in 1..Len(r) : (one \o r)[Len(one) + i] = r[i]
      BY <1>3, <3>1, ConcatAt
    <3> QED
      BY <1>3, <3>1, <3>2 DEF r
  <2>2. QED
    BY <1>2, <1>3, <2>1
<1>5. \A i \in 1..Len(s) : i = 1 \/ (i - 1 \in 1..Len(s) - 1 /\ 1 + (i - 1) = i)
  BY <1>2
<1>6. \A i \in 1..Len(s) : (one \o Tail(s))[i] = s[i]
  BY <1>1, <1>4, <1>5
<1>7. one \o Tail(s) = s
  BY <1>4, <1>6, SeqEqual
<1>8. QED
  BY <1>1, <1>3, <1>7 DEF one

\* Nothing, or one byte, is under way
LEMMA UnderWay ==
  ASSUME NEW S, NEW o \in Seq(S), Len(o) \in {0, 1}, NEW m \in Seq(S)
  PROVE  /\ o = <<>> => o \o m = m
         /\ o # <<>> => /\ o \o m # <<>> /\ Head(o \o m) = Head(o)
                        /\ Tail(o \o m) = m /\ Head(o) \in S
<1>1. o = <<>> => o \o m = m
  BY ConcatEmptySeq
<1>2. ASSUME o # <<>>
      PROVE  /\ o \o m # <<>> /\ Head(o \o m) = Head(o)
             /\ Tail(o \o m) = m /\ Head(o) \in S
  <2>1. /\ Len(o) = 1 /\ Head(o) = o[1] /\ Head(o) \in S /\ Len(m) \in Nat
    <3>1. Len(o) \in Nat /\ Len(o) # 0 /\ Len(m) \in Nat
      BY <1>2, EmptySeq, LenProperties
    <3>2. Len(o) = 1
      BY <3>1
    <3>3. QED
      BY <1>2, <3>1, <3>2, HeadTailProperties
  <2>2. /\ o \o m \in Seq(S) /\ Len(o \o m) = 1 + Len(m)
        /\ (o \o m)[1] = o[1]
        /\ \A i \in 1..Len(m) : (o \o m)[1 + i] = m[i]
    <3>1. /\ o \o m \in Seq(S) /\ Len(o \o m) = 1 + Len(m)
          /\ \A i \in 1..1 : (o \o m)[i] = o[i]
          /\ \A i \in 1..Len(m) : (o \o m)[1 + i] = m[i]
      BY <2>1, ConcatAt
    <3>2. QED
      BY <3>1
  <2>3. o \o m # <<>> /\ Head(o \o m) = Head(o)
    BY <2>1, <2>2
  <2>4. /\ Tail(o \o m) \in Seq(S) /\ Len(Tail(o \o m)) = Len(m)
        /\ \A i \in 1..Len(m) : Tail(o \o m)[i] = (o \o m)[i + 1]
    BY <2>1, <2>2, <2>3, HeadTailProperties
  <2>5. \A i \in 1..Len(m) : Tail(o \o m)[i] = m[i]
    BY <2>1, <2>2, <2>4
  <2>6. Tail(o \o m) = m
    BY <2>4, <2>5, SeqEqual
  <2>7. QED
    BY <2>1, <2>3, <2>6
<1>3. QED
  BY <1>1, <1>2

LEMMA PutBehind ==
  ASSUME NEW o \in Seq(QtByte), NEW m \in Seq(QtByte), NEW b \in QtByte
  PROVE  Append(o \o m, b) = o \o Append(m, b)
<1>1. /\ <<b>> \in Seq(QtByte) /\ o \o m \in Seq(QtByte)
      /\ Append(m, b) = m \o <<b>> /\ Append(o \o m, b) = (o \o m) \o <<b>>
  BY AppendIsConcat
<1>2. QED
  BY <1>1, ConcatAssociative

-----------------------------------------------------------------------------
(* The invariant *)

LEMMA QtInvInit == QtInit => QtInv
<1> SUFFICES ASSUME QtInit PROVE QtInv
  OBVIOUS
<1>1. <<>> \in Seq(QtByte) /\ <<>> \o <<>> = <<>> /\ Len(<<>>) = 0
  BY ConcatEmptySeq
<1>2. QED
  BY <1>1 DEF QtInit, QtInv, QtTypeOK, QtBuffersTyped, QtFlagsTyped

\* The byte under way is read by the calculator, which has none of the buffer
LEMMA ArrivesInOrder ==
  ASSUME QtInv, NEW b \in QtByte,
         \/ out # <<>> /\ b = Head(out)
         \/ out = <<>> /\ m_input # <<>> /\ b = Head(m_input),
         Arrives(b)
  PROVE  /\ amiss' = FALSE /\ stuck' \in BOOLEAN /\ due' \in Seq(QtByte)
         /\ out # <<>> => due' = m_input
         /\ out = <<>> => due' = Tail(m_input)
<1>1. /\ out \in Seq(QtByte) /\ Len(out) \in {0, 1} /\ m_input \in Seq(QtByte)
      /\ due = out \o m_input /\ amiss = FALSE /\ stuck \in BOOLEAN
  BY DEF QtInv, QtTypeOK, QtBuffersTyped, QtFlagsTyped
<1>2. /\ out = <<>> => due = m_input
      /\ out # <<>> => due # <<>> /\ Head(due) = Head(out) /\ Tail(due) = m_input
  BY <1>1, UnderWay
<1>3. due # <<>> /\ Head(due) = b
  BY <1>2
<1>4. m_input # <<>> => Tail(m_input) \in Seq(QtByte)
  BY <1>1, HeadTailProperties
<1>5. QED
  BY <1>1, <1>2, <1>3, <1>4 DEF Arrives

LEMMA DropKeepsRest ==
  ASSUME QtInv, Drop
  PROVE  /\ out' = <<>> /\ in' = <<>> /\ due' = m_input
         /\ amiss' = FALSE /\ stuck' \in BOOLEAN
<1>1. /\ out \in Seq(QtByte) /\ Len(out) \in {0, 1} /\ m_input \in Seq(QtByte)
      /\ due = out \o m_input /\ amiss = FALSE /\ stuck \in BOOLEAN /\ m_link_lock \in BOOLEAN
  BY DEF QtInv, QtTypeOK, QtBuffersTyped, QtFlagsTyped
<1>2. /\ out = <<>> => due = m_input
      /\ out # <<>> => Tail(due) = m_input
  BY <1>1, UnderWay
<1>3. QED
  BY <1>1, <1>2 DEF Drop

\* A byte leaves the buffer: the calculator takes it, or it is under way
LEMMA SendInOrder ==
  ASSUME QtInv, NEW next \in {"pump", "batch", "emu", "after"}, NEW lock \in BOOLEAN,
         send(next, lock)
  PROVE  QtInv'
<1>a. /\ out = <<>> /\ in = <<>> /\ m_input \in Seq(QtByte) /\ m_input # <<>>
      /\ due = m_input
  <2>1. /\ out = <<>> /\ in = <<>> /\ m_input \in Seq(QtByte) /\ m_input # <<>>
        /\ due = out \o m_input
    BY DEF send, ready, QtInv, QtTypeOK, QtBuffersTyped, QtFlagsTyped
  <2>2. QED
    BY <2>1, ConcatEmptySeq
<1>b. /\ Head(m_input) \in QtByte /\ Tail(m_input) \in Seq(QtByte)
      /\ <<Head(m_input)>> \in Seq(QtByte) /\ Len(<<Head(m_input)>>) = 1
      /\ <<Head(m_input)>> \o Tail(m_input) = m_input
  BY <1>a, SplitHead
<1>c. /\ m_input' = Tail(m_input) /\ res' = {}
      /\ UNCHANGED <<m_output, m_broadcast, in, slots, sender, kept>>
  BY DEF send, senderVars
<1>1. CASE Arrives(Head(m_input)) /\ run' = "batch" /\ UNCHANGED <<m_link_lock, out>>
  <2>1. amiss' = FALSE /\ stuck' \in BOOLEAN /\ due' = Tail(m_input)
    BY <1>1, <1>a, <1>b, ArrivesInOrder
  <2>2. due' = out' \o m_input'
    BY <1>1, <1>a, <1>b, <1>c, <2>1, ConcatEmptySeq
  <2>3. QtTypeOK'
    <3>t. QtBuffersTyped'
      BY <1>1, <1>a, <1>b, <1>c, <2>1 DEF QtInv, QtTypeOK, QtBuffersTyped
    <3>f. QtFlagsTyped'
      BY <1>1, <1>a, <1>b, <1>c, <2>1 DEF QtInv, QtTypeOK, QtFlagsTyped
    <3> QED
      BY <1>1, <1>a, <1>b, <1>c, <2>1, <3>t, <3>f DEF QtInv, QtTypeOK
  <2>4. QED
    BY <2>1, <2>2, <2>3 DEF QtInv
<1>2. CASE out' = <<Head(m_input)>> /\ run' = next /\ m_link_lock' = lock /\ UNCHANGED histVars
  <2>1. due' = out' \o m_input' /\ ~amiss'
    BY <1>2, <1>a, <1>b, <1>c DEF QtInv, histVars
  <2>2. QtTypeOK'
    <3>t. QtBuffersTyped'
      BY <1>2, <1>a, <1>b, <1>c DEF histVars, QtInv, QtTypeOK, QtBuffersTyped
    <3>f. QtFlagsTyped'
      BY <1>2, <1>a, <1>b, <1>c DEF histVars, QtInv, QtTypeOK, QtFlagsTyped
    <3> QED
      BY <1>2, <1>a, <1>b, <1>c, <3>t, <3>f DEF histVars, QtInv, QtTypeOK
  <2>3. QED
    BY <2>1, <2>2 DEF QtInv
<1>3. QED
  BY <1>1, <1>2 DEF send

\* A sender puts a byte into the buffer
LEMMA PutInOrder ==
  ASSUME QtInv, NEW b \in QtByte,
         m_input' = Append(m_input, b), due' = Append(due, b),
         UNCHANGED <<m_output, m_link_lock, m_broadcast, out, in, run, res, slots,
                     kept, amiss, stuck>>,
         sender' \in {"idle", "work", "sent"}
  PROVE  QtInv'
<1>1. /\ out \in Seq(QtByte) /\ m_input \in Seq(QtByte) /\ due \in Seq(QtByte)
      /\ due = out \o m_input
  BY DEF QtInv, QtTypeOK, QtBuffersTyped, QtFlagsTyped
<1>2. Append(due, b) = out \o Append(m_input, b)
  <2>1. Append(out \o m_input, b) = out \o Append(m_input, b)
    BY <1>1, PutBehind
  <2>2. QED
    BY <1>1, <2>1
<1>3. Append(m_input, b) \in Seq(QtByte) /\ Append(due, b) \in Seq(QtByte)
  BY <1>1
<1>4. QED
  BY <1>2, <1>3 DEF QtInv, QtTypeOK, QtBuffersTyped, QtFlagsTyped

LEMMA QtInvStep == QtInv /\ [QtNext]_qtVars => QtInv'
<1> SUFFICES ASSUME QtInv, [QtNext]_qtVars PROVE QtInv'
  OBVIOUS
<1>a. /\ QtTypeOK /\ due = out \o m_input /\ ~amiss
      /\ m_input \in Seq(QtByte) /\ m_output \in Seq(QtByte)
      /\ out \in Seq(QtByte) /\ in \in Seq(QtByte) /\ due \in Seq(QtByte)
      /\ Len(out) \in {0, 1} /\ m_link_lock \in BOOLEAN /\ slots \in Nat
  BY DEF QtInv, QtTypeOK, QtBuffersTyped, QtFlagsTyped
<1>b. <<>> \in Seq(QtByte) /\ <<>> \o m_input = m_input /\ Len(<<>>) = 0
  BY <1>a, ConcatEmptySeq
<1>1. CASE run_send
  BY <1>1, SendInOrder DEF run_send
<1>2. CASE run_batch
  <2>1. CASE send("emu", m_link_lock)
    BY <1>a, <2>1, SendInOrder
  <2>2. CASE run' = "emu" /\ UNCHANGED <<buffers, m_link_lock, m_broadcast, out, in, res,
                                          slots, senderVars, histVars>>
    BY <2>2 DEF QtInv, QtTypeOK, QtBuffersTyped, QtFlagsTyped, buffers, senderVars,
       histVars
  <2>3. QED
    BY <1>2, <2>1, <2>2 DEF run_batch
<1>3. CASE run_get
  <2>1. m_output \o in \in Seq(QtByte)
    BY <1>a
  <2>2. slots' \in Nat
    BY <1>3, <1>a DEF run_get
  <2>3. QED
    BY <1>3, <1>b, <2>1, <2>2 DEF run_get, QtInv, QtTypeOK, QtBuffersTyped,
       QtFlagsTyped, senderVars, histVars
<1>4. CASE run_locked \/ calc_runs
  <2>1. /\ UNCHANGED <<m_input, m_output, m_link_lock, m_broadcast, out, in, slots, sender,
                       kept, due, amiss, stuck>>
        /\ run' \in {"emu", "after"} /\ res' = {}
    BY <1>4 DEF run_locked, calc_runs, buffers, senderVars, histVars
  <2>2. QED
    BY <2>1 DEF QtInv, QtTypeOK, QtBuffersTyped, QtFlagsTyped
<1>5. CASE calc_takes
  <2>1. out # <<>> /\ Head(out) \in QtByte
    BY <1>5, <1>a DEF calc_takes
  <2>2. amiss' = FALSE /\ stuck' \in BOOLEAN /\ due' = m_input
    BY <1>5, <2>1, ArrivesInOrder DEF calc_takes
  <2>3. due' = out' \o m_input'
    BY <1>5, <1>b, <2>2 DEF calc_takes, buffers
  <2>4. QtTypeOK'
    <3>t. QtBuffersTyped'
      BY <1>5, <1>a, <1>b, <2>2 DEF calc_takes, buffers, senderVars, QtInv, QtTypeOK,
         QtBuffersTyped
    <3>f. QtFlagsTyped'
      BY <1>5, <1>a, <1>b, <2>2 DEF calc_takes, buffers, senderVars, QtInv, QtTypeOK,
         QtFlagsTyped
    <3> QED
      BY <1>5, <1>a, <1>b, <2>2, <3>t, <3>f DEF calc_takes, buffers, senderVars,
         QtInv, QtTypeOK
  <2>5. QED
    BY <2>2, <2>3, <2>4 DEF QtInv
<1>6. ASSUME NEW b \in QtByte, calc_writes(b)
      PROVE  QtInv'
  <2>1. <<b>> \in Seq(QtByte) /\ Len(<<b>>) = 1
    OBVIOUS
  <2>2. QED
    BY <1>6, <2>1 DEF calc_writes, QtInv, QtTypeOK, QtBuffersTyped, QtFlagsTyped,
       buffers, senderVars, histVars
<1>7. ASSUME Drop, UNCHANGED <<buffers, m_link_lock, m_broadcast, slots, senderVars>>,
             run' \in {"pump", "batch", "emu", "after"},
             res' \subseteq {"read", "write", "error"}
      PROVE  QtInv'
  <2>1. /\ out' = <<>> /\ in' = <<>> /\ due' = m_input /\ amiss' = FALSE /\ stuck' \in BOOLEAN
    BY <1>7, DropKeepsRest
  <2>2. due' = out' \o m_input'
    BY <1>7, <1>b, <2>1 DEF buffers
  <2>3. QtTypeOK'
    <3>t. QtBuffersTyped'
      BY <1>7, <1>a, <1>b, <2>1 DEF buffers, senderVars, QtInv, QtTypeOK, QtBuffersTyped
    <3>f. QtFlagsTyped'
      BY <1>7, <1>a, <1>b, <2>1 DEF buffers, senderVars, QtInv, QtTypeOK, QtFlagsTyped
    <3> QED
      BY <1>7, <1>a, <1>b, <2>1, <3>t, <3>f DEF buffers, senderVars, QtInv, QtTypeOK
  <2>4. QED
    BY <2>1, <2>2, <2>3 DEF QtInv
<1>8. CASE calc_error
  BY <1>8, <1>7 DEF calc_error
<1>9. CASE run_after
  <2>1. CASE "error" \in res
    <3>1. m_link_lock' \in BOOLEAN
      BY <1>9, <1>a DEF run_after
    <3>2. /\ out' = <<>> /\ in' = <<>> /\ due' = m_input /\ amiss' = FALSE /\ stuck' \in BOOLEAN
      BY <1>9, <2>1, DropKeepsRest DEF run_after
    <3>3. due' = out' \o m_input'
      BY <1>9, <1>b, <3>2 DEF run_after, buffers
    <3>4. QtTypeOK'
      <4>t. QtBuffersTyped'
        BY <1>9, <1>a, <1>b, <3>1, <3>2 DEF run_after, buffers, senderVars, QtInv,
           QtTypeOK, QtBuffersTyped
      <4>f. QtFlagsTyped'
        BY <1>9, <1>a, <1>b, <3>1, <3>2 DEF run_after, buffers, senderVars, QtInv,
           QtTypeOK, QtFlagsTyped
      <4> QED
        BY <1>9, <1>a, <1>b, <3>1, <3>2, <4>t, <4>f DEF run_after, buffers,
           senderVars, QtInv, QtTypeOK
    <3>5. QED
      BY <3>2, <3>3, <3>4 DEF QtInv
  <2>2. CASE "error" \notin res
    BY <1>9, <1>a, <2>2 DEF run_after, QtInv, QtTypeOK, QtBuffersTyped, QtFlagsTyped,
       buffers, senderVars, histVars
  <2>3. QED
    BY <2>1, <2>2
<1>10. ASSUME NEW b \in QtByte, ilp_send(b) \/ connection_sends(b)
       PROVE  QtInv'
  <2>1. /\ m_input' = Append(m_input, b) /\ due' = Append(due, b)
        /\ UNCHANGED <<m_output, m_link_lock, m_broadcast, out, in, run, res, slots,
                        kept, amiss, stuck>>
        /\ sender' \in {"idle", "work", "sent"}
    BY <1>10, <1>a DEF ilp_send, connection_sends, QtTypeOK, QtBuffersTyped,
       QtFlagsTyped, pumpVars, senderVars
  <2>2. QED
    BY <2>1, PutInOrder
<1>11. CASE ilp_reset
  <2>1. /\ Drop /\ UNCHANGED <<buffers, m_link_lock, m_broadcast, slots, senderVars>>
        /\ run' = run /\ res' = res
    BY <1>11 DEF ilp_reset, pumpVars
  <2>2. QED
    BY <1>7, <1>a, <2>1 DEF QtTypeOK, QtBuffersTyped, QtFlagsTyped
<1>12. CASE sender_begins \/ ilp_sent \/ sender_ends
  <2>1. QtTypeOK'
    <3>1. QtBuffersTyped'
      BY <1>12 DEF sender_begins, ilp_sent, sender_ends, QtInv, QtTypeOK, QtBuffersTyped,
         buffers, pumpVars, histVars
    <3>2. QtFlagsTyped'
      BY <1>12 DEF sender_begins, ilp_sent, sender_ends, QtInv, QtTypeOK, QtFlagsTyped,
         buffers, pumpVars, histVars
    <3>3. QED
      BY <1>12, <3>1, <3>2 DEF sender_begins, ilp_sent, sender_ends, QtInv, QtTypeOK,
         buffers, pumpVars, histVars
  <2>2. QED
    BY <1>12, <2>1, SMTT(20) DEF sender_begins, ilp_sent, sender_ends, QtInv, buffers, histVars
<1>13. CASE ilp_recv
  <2>1. m_output # <<>>
    BY <1>13, QtConstants DEF ilp_recv, count
  <2>2. Tail(m_output) \in Seq(QtByte)
    BY <1>a, <2>1
  <2>3. QED
    BY <1>13, <2>2 DEF ilp_recv, QtInv, QtTypeOK, QtBuffersTyped, QtFlagsTyped,
       pumpVars, senderVars, histVars
<1>14. CASE bytesAvailable
  <2>1. SubSeq(m_output, count(m_output) + 1, Len(m_output)) \in Seq(QtByte)
    <3>1. count(m_output) + 1 \in Nat \ {0} /\ Len(m_output) \in Nat
      BY <1>a, QtConstants DEF count
    <3>2. \A i \in count(m_output) + 1 .. Len(m_output) : m_output[i] \in QtByte
      BY <1>a, <3>1
    <3>3. QED
      BY <3>1, <3>2, SubSeqProperties
  <2>2. slots' \in Nat
    BY <1>14, <1>a DEF bytesAvailable
  <2>3. QED
    BY <1>14, <2>1, <2>2 DEF bytesAvailable, QtInv, QtTypeOK, QtBuffersTyped,
       QtFlagsTyped, pumpVars, senderVars, histVars
<1>15. CASE UNCHANGED qtVars
  BY <1>15 DEF qtVars, QtInv, QtTypeOK, QtBuffersTyped, QtFlagsTyped
<1>16. QED
  BY <1>1, <1>2, <1>3, <1>4, <1>5, <1>6, <1>8, <1>9, <1>10, <1>11, <1>12, <1>13,
     <1>14, <1>15 DEF QtNext

-----------------------------------------------------------------------------
(* The theorems *)

LEMMA QtInvAlways == QtSpec => []QtInv
BY QtInvInit, QtInvStep, PTL DEF QtSpec

\* Every variable keeps its type, whatever the thread of Calc::run, the FileSender
\* and the GUI thread interleave; in particular at most one byte is under way in
\* each direction (calc.cpp).
THEOREM QtTypeCorrect == QtSpec => []QtTypeOK
<1>1. QtInv => QtTypeOK
  BY DEF QtInv
<1>2. QED
  BY <1>1, QtInvAlways, PTL

\* The bytes that a FileSender and the other calculator put into m_input reach the
\* calculator in that order and each once, but for those that an error or a reset
\* throws away, whatever the sizes of the buffers and wherever Calc::run stops.
THEOREM QtDeliversInOrder == QtSpec => []QtInOrder
<1>1. QtInv => QtInOrder
  BY DEF QtInv, QtInOrder
<1>2. QED
  BY <1>1, QtInvAlways, PTL

-----------------------------------------------------------------------------
(* The two parts side by side *)

\* A step of the program is a step of each part, or leaves it alone.
LEMMA HostStep ==
  [HostNext]_hostVars => [KeyNext]_keyVars /\ [QtNext]_qtVars
BY DEF HostNext, hostVars, Others

\* What is proved of each part holds while both are there: their types, the
\* order of the played keys and of the bytes, and that no key is left down
\* (MCHost checks this on its instance).
LEMMA HostAlways == HostFairSpec => [](KInv /\ QtInv)
<1>1. HostInit => KInv /\ QtInv
  BY KInvInit, QtInvInit DEF HostInit
<1>2. KInv /\ QtInv /\ [HostNext]_hostVars => (KInv /\ QtInv)'
  BY HostStep, KInvStep, QtInvStep
<1> QED
  BY <1>1, <1>2, PTL DEF HostFairSpec

\* Every variable of the keyboard and of the Qt link has its type in every
\* state, whichever part is at work.
THEOREM HostTypesCorrect == HostFairSpec => []HostTypeOK
<1>1. KInv /\ QtInv => HostTypeOK
  BY DEF KInv, QtInv, HostTypeOK
<1> QED
  BY <1>1, HostAlways, PTL

-----------------------------------------------------------------------------
(* The audio output *)

Opening == {"open", "open_get", "opened", "open_failed"}
Playing == {"play", "get", "got", "get_failed"}

(***************************************************************************)
(* What the place of each thread says of the device.                       *)
(***************************************************************************)
PlaceInv ==
  /\ audio_device => device
  /\ device => audio_device \/ core \in Opening \ {"open"}
  /\ core \in Opening => ~audio_device
  /\ core \in {"open_get", "opened"} => device
  /\ core \in Playing => audio_device
  /\ core \in Playing => buffer_remaining = 0
  /\ device => buffer_pending
  /\ io # "idle" => device
  /\ io \in {"copy", "free"} => chunk_state[read_chunk]

(***************************************************************************)
(* The chunks filled lie between the one being read and the one being      *)
(* written, in the order in which they were filled.                        *)
(***************************************************************************)
RingInv ==
  device =>
    /\ heard <= written
    /\ Ahead(write_chunk) = written - heard
    /\ \A c \in Chunk : chunk_state[c] =>
         \A u \in Unit : chunks[c][u] = heard + 1 + Ahead(c)

\* Is the chunk being written partly filled, or full and not yet played?
Filling ==
  \/ buffer_remaining > 0
  \/ core = "play"
  \/ audio_device /\ filter # "none" /\ core \notin {"get", "got", "get_failed"}

FillInv ==
  device /\ Filling =>
    \A u \in Unit : u <= ChunkSize - buffer_remaining =>
      chunks[write_chunk][u] = written + 1

AInv ==
  /\ AudioTypeOK /\ PlaceInv /\ PermitsCounted /\ FilterOwnsChunk
  /\ RingInv /\ FillInv

USE AudioConstants

(***************************************************************************)
(* A step that leaves a part of the state alone keeps what is said of it.  *)
(***************************************************************************)
contentVars == <<chunks, chunk_state, write_chunk, read_chunk, written, heard>>

LEMMA RingKept ==
  ASSUME RingInv, UNCHANGED contentVars, device' => device
  PROVE  RingInv'
BY DEF RingInv, contentVars, Ahead

LEMMA SameSum ==
  ASSUME NEW a \in Nat, NEW a1 \in Nat, NEW n \in Int, NEW h \in 0 .. 1,
         NEW hd1 \in 0 .. 1, NEW f \in 0 .. 1, NEW f1 \in 0 .. 1, NEW total \in Nat,
         a + n + h + f = total, a1 + hd1 + f1 = a + h + f
  PROVE  a1 + n + hd1 + f1 = total
OBVIOUS

LEMMA PermitsKept ==
  ASSUME PermitsCounted, UNCHANGED <<chunk_state, read_chunk, written, heard>>,
         device' => device, device' =>
           buffer_count' + Held' + Freed' = buffer_count + Held + Freed,
         buffer_count \in Nat, buffer_count' \in Nat, written \in Nat, heard \in Nat
  PROVE  PermitsCounted'
<1>1. Held \in 0 .. 1 /\ Held' \in 0 .. 1 /\ Freed \in 0 .. 1 /\ Freed' \in 0 .. 1
  BY DEF Held, Freed
<1>2. ASSUME device'
      PROVE  buffer_count' + (written' - heard') + Held' + Freed' = LatencyChunks
  <2>1. written - heard \in Int /\ written - heard = written' - heard'
    OBVIOUS
  <2>2. PICK n \in Int, a \in Nat, a1 \in Nat, h \in 0 .. 1, hd1 \in 0 .. 1,
             f \in 0 .. 1, f1 \in 0 .. 1 :
          /\ n = written - heard /\ n = written' - heard'
          /\ a = buffer_count /\ a1 = buffer_count' /\ h = Held /\ hd1 = Held'
          /\ f = Freed /\ f1 = Freed'
    BY <1>1, <2>1, Zenon
  <2>3. a + n + h + f = LatencyChunks
    BY <1>2, <2>2 DEF PermitsCounted
  <2>4. a1 + hd1 + f1 = a + h + f
    BY <1>2, <2>2
  <2>5. a1 + n + hd1 + f1 = LatencyChunks
    BY <2>3, <2>4, SameSum
  <2> QED BY <2>2, <2>5
<1>3. ASSUME device', NEW c \in Chunk
      PROVE  chunk_state'[c] <=> Ahead(c)' < written' - heard'
  BY <1>3 DEF PermitsCounted, Ahead
<1> QED BY <1>2, <1>3 DEF PermitsCounted

LEMMA FillKept ==
  ASSUME FillInv, UNCHANGED <<chunks, write_chunk, written>>,
         device' => device,
         device' /\ Filling' => Filling /\ buffer_remaining' = buffer_remaining
  PROVE  FillInv'
BY DEF FillInv

LEMMA FilterKept ==
  ASSUME FilterOwnsChunk, UNCHANGED <<chunk_state, write_chunk>>,
         buffer_remaining' > 0 =>
           /\ buffer_remaining > 0 /\ UNCHANGED filter_chunk
           /\ device => device'
           /\ audio_device => audio_device'
           /\ Holding => Holding'
  PROVE  FilterOwnsChunk'
BY DEF FilterOwnsChunk

LEMMA SettingsKeep ==
  ASSUME AInv, SettingTypeOK',
         UNCHANGED <<core, device, audio_device, ringVars, ioVars, filterVars>>
  PROVE  AInv'
<1> USE DEF ringVars, ioVars, filterVars
<1>1. AudioTypeOK' /\ PlaceInv'
  BY DEF AInv, AudioTypeOK, RingTypeOK, PlaceInv
<1>2. RingInv'
  BY RingKept DEF AInv, contentVars
<1>3. PermitsCounted'
  BY DEF AInv, PermitsCounted, Held, Freed, Holding, Ahead
<1>4. FilterOwnsChunk' /\ FillInv'
  BY DEF AInv, FilterOwnsChunk, FillInv, Filling, Holding
<1> QED BY <1>1, <1>2, <1>3, <1>4 DEF AInv

(***************************************************************************)
(* The core thread is never more than LatencyChunks ahead.                 *)
(***************************************************************************)
LEMMA Counted ==
  ASSUME AInv, device
  PROVE  /\ Held \in 0 .. 1 /\ Freed \in 0 .. 1
         /\ written - heard \in 0 .. LatencyChunks
         /\ buffer_count + (written - heard) + Held + Freed = LatencyChunks
<1>1. Held \in 0 .. 1 /\ Freed \in 0 .. 1
  BY DEF Held, Freed
<1>2. heard <= written
  BY DEF AInv, RingInv
<1>3. buffer_count + (written - heard) + Held + Freed = LatencyChunks
  BY DEF AInv, PermitsCounted
<1> QED BY <1>1, <1>2, <1>3 DEF AInv, AudioTypeOK, RingTypeOK

LEMMA AudioInit_AInv == ASSUME AudioInit PROVE AInv
<1>1. chunks \in [Chunk -> [Unit -> Nat]] /\ chunk_state \in [Chunk -> BOOLEAN]
  BY DEF AudioInit
<1>2. /\ write_chunk = 0 /\ read_chunk = 0 /\ read_pos = 0
      /\ buffer_pending = FALSE /\ playing = FALSE /\ written = 0 /\ heard = 0
      /\ initial_fill = LatencyChunks /\ buffer_count = LatencyChunks
  BY DEF AudioInit
<1>3. 0 \in Chunk /\ 0 \in 0 .. ChunkSize - 1 /\ LatencyChunks \in 0 .. LatencyChunks
  BY DEF Chunk
<1>4. RingTypeOK BY <1>1, <1>2, <1>3 DEF RingTypeOK
<1>5. SettingTypeOK BY DEF AudioInit, SettingTypeOK
<1>6. /\ core = "top" /\ device = FALSE /\ audio_device = FALSE
      /\ alive = TRUE /\ io = "idle" /\ io_len = 0
      /\ filter = "none" /\ filter_chunk = 0 /\ buffer_remaining = 0
  BY DEF AudioInit
<1>7. 0 \in 0 .. ChunkSize OBVIOUS
<1>8. AudioTypeOK
  BY <1>7, <1>3, <1>5, <1>6, <1>4 DEF AudioTypeOK, CorePlaces
<1>9. PlaceInv BY <1>6 DEF PlaceInv, Playing
<1> QED
  BY <1>6, <1>8, <1>9 DEF AInv, PermitsCounted, FilterOwnsChunk, RingInv, FillInv

LEMMA AudioStep == ASSUME AInv, [AudioNext]_audioVars PROVE AInv'
<1> USE DEF ringVars, ioVars, filterVars, setVars
<1>1. ASSUME io_loop PROVE AInv'
  <2>1. RingTypeOK'
    BY <1>1 DEF AInv, AudioTypeOK, RingTypeOK, io_loop
  <2>2. SettingTypeOK'
    BY <1>1 DEF AInv, AudioTypeOK, SettingTypeOK, io_loop
  <2>3. AudioTypeOK'
    <3>1. core' \in CorePlaces BY <1>1 DEF AInv, AudioTypeOK, io_loop
    <3> QED BY <1>1, <2>1, <2>2, <3>1 DEF AInv, AudioTypeOK, io_loop
  <2>4. PlaceInv'
    BY <1>1 DEF AInv, PlaceInv, io_loop
  <2>5. RingInv'
    BY <1>1, RingKept DEF AInv, contentVars, io_loop
  <2>6. PermitsCounted'
    <3>1. device' => device /\ buffer_count' + Held' + Freed' = buffer_count + Held + Freed
      BY <1>1 DEF Holding, Held, Freed, io_loop
    <3> QED BY <1>1, <2>1, <3>1, PermitsKept DEF AInv, RingTypeOK, io_loop
  <2>7. FillInv'
    <3>1. device' /\ Filling' => device /\ Filling /\ buffer_remaining' = buffer_remaining
      BY <1>1 DEF Filling, io_loop
    <3> QED BY <1>1, <3>1, FillKept DEF AInv, io_loop
  <2>8. FilterOwnsChunk'
    BY <1>1, FilterKept DEF AInv, Holding, io_loop
  <2> QED BY <2>3, <2>4, <2>5, <2>6, <2>7, <2>8 DEF AInv
<1>2. ASSUME io_copy PROVE AInv'
  <2>1. RingTypeOK'
    <3>1. read_pos' \in 0 .. ChunkSize - 1
      BY <1>2 DEF AInv, AudioTypeOK, RingTypeOK, io_copy
    <3> QED BY <1>2, <3>1 DEF AInv, AudioTypeOK, RingTypeOK, io_copy
  <2>2. SettingTypeOK'
    BY <1>2 DEF AInv, AudioTypeOK, SettingTypeOK, io_copy
  <2>3. AudioTypeOK'
    <3>1. core' \in CorePlaces BY <1>2 DEF AInv, AudioTypeOK, io_copy
    <3> QED BY <1>2, <2>1, <2>2, <3>1 DEF AInv, AudioTypeOK, RingTypeOK, io_copy
  <2>4. PlaceInv'
    BY <1>2 DEF AInv, PlaceInv, io_copy
  <2>5. RingInv'
    BY <1>2, RingKept DEF AInv, contentVars, io_copy
  <2>6. PermitsCounted'
    <3>1. device' => device /\ buffer_count' + Held' + Freed' = buffer_count + Held + Freed
      BY <1>2 DEF Holding, Held, Freed, io_copy
    <3> QED BY <1>2, <2>1, <3>1, PermitsKept DEF AInv, RingTypeOK, io_copy
  <2>7. FillInv'
    <3>1. device' /\ Filling' => device /\ Filling /\ buffer_remaining' = buffer_remaining
      BY <1>2 DEF Filling, io_copy
    <3> QED BY <1>2, <3>1, FillKept DEF AInv, io_copy
  <2>8. FilterOwnsChunk'
    BY <1>2, FilterKept DEF AInv, Holding, io_copy
  <2> QED BY <2>3, <2>4, <2>5, <2>6, <2>7, <2>8 DEF AInv
<1>3. ASSUME io_free PROVE AInv'
  <2>1. RingTypeOK'
    BY <1>3 DEF AInv, AudioTypeOK, RingTypeOK, Chunk, io_free, NextChunk
  <2>2. SettingTypeOK'
    BY <1>3 DEF AInv, AudioTypeOK, SettingTypeOK, io_free
  <2>3. AudioTypeOK'
    <3>1. core' \in CorePlaces BY <1>3 DEF AInv, AudioTypeOK, io_free
    <3> QED BY <1>3, <2>1, <2>2, <3>1 DEF AInv, AudioTypeOK, io_free
  <2>4. PlaceInv'
    BY <1>3 DEF AInv, PlaceInv, io_free
  <2>5. RingInv'
    <3>1. device /\ chunk_state[read_chunk] /\ Ahead(read_chunk) = 0
      BY <1>3 DEF AInv, PlaceInv, io_free, Ahead, AudioTypeOK, RingTypeOK, Chunk
    <3>2. heard < written
      BY <3>1 DEF AInv, PermitsCounted, AudioTypeOK, RingTypeOK
    <3>3. ASSUME NEW c \in Chunk, c # read_chunk PROVE Ahead(c)' = Ahead(c) - 1
      BY <1>3, <3>3 DEF AInv, AudioTypeOK, RingTypeOK, Chunk, io_free, NextChunk, Ahead
    <3>4. Ahead(write_chunk) = written - heard /\ write_chunk # read_chunk
      BY <3>1, <3>2 DEF AInv, RingInv, AudioTypeOK, RingTypeOK
    <3>5. Ahead(write_chunk)' = written' - heard'
      BY <1>3, <3>3, <3>4 DEF AInv, AudioTypeOK, RingTypeOK, io_free
    <3>6. ASSUME NEW c \in Chunk, chunk_state'[c], NEW u \in Unit
          PROVE  chunks'[c][u] = heard' + 1 + Ahead(c)'
      <4>1. c # read_chunk /\ chunk_state[c]
        BY <1>3, <3>6 DEF AInv, AudioTypeOK, RingTypeOK, io_free
      <4>2. chunks[c][u] = heard + 1 + Ahead(c)
        BY <3>1, <4>1 DEF AInv, RingInv
      <4>3. Ahead(c) \in Int BY DEF Ahead, AInv, AudioTypeOK, RingTypeOK, Chunk
      <4> QED BY <1>3, <3>3, <4>1, <4>2, <4>3 DEF io_free, AInv, AudioTypeOK, RingTypeOK
    <3> QED BY <1>3, <3>2, <3>5, <3>6 DEF RingInv, io_free, AInv, AudioTypeOK, RingTypeOK
  <2>6. PermitsCounted'
    <3>1. device /\ chunk_state[read_chunk] /\ Freed = 0 /\ Freed' = 1 /\ Held' = Held
      BY <1>3 DEF AInv, PlaceInv, io_free, Freed, Held, Holding
    <3>2. buffer_count' + (written' - heard') + Held' + Freed' = LatencyChunks
      BY <1>3, <3>1, Counted DEF io_free, AInv, AudioTypeOK, RingTypeOK
    <3>3. ASSUME NEW c \in Chunk
          PROVE  chunk_state'[c] <=> Ahead(c)' < written' - heard'
      BY <1>3, <3>1, Counted DEF AInv, PermitsCounted, io_free, NextChunk, Ahead, AudioTypeOK, RingTypeOK, Chunk
    <3> QED BY <3>2, <3>3 DEF PermitsCounted
  <2>7. FillInv'
    BY <1>3, FillKept DEF AInv, io_free, Filling
  <2>8. FilterOwnsChunk'
    BY <1>3 DEF AInv, io_free, FilterOwnsChunk, Holding
  <2> QED BY <2>3, <2>4, <2>5, <2>6, <2>7, <2>8 DEF AInv
<1>4. ASSUME io_post PROVE AInv'
  <2>1. RingTypeOK'
    <3>1. device /\ Freed = 1
      BY <1>4 DEF AInv, PlaceInv, io_post, Freed
    <3>2. buffer_count' \in 0 .. LatencyChunks
      BY <1>4, <3>1, Counted DEF AInv, AudioTypeOK, RingTypeOK, io_post
    <3> QED BY <1>4, <3>2 DEF AInv, AudioTypeOK, RingTypeOK, io_post
  <2>2. SettingTypeOK'
    BY <1>4 DEF AInv, AudioTypeOK, SettingTypeOK, io_post
  <2>3. AudioTypeOK'
    <3>1. core' \in CorePlaces BY <1>4 DEF AInv, AudioTypeOK, io_post
    <3> QED BY <1>4, <2>1, <2>2, <3>1 DEF AInv, AudioTypeOK, io_post
  <2>4. PlaceInv'
    BY <1>4 DEF AInv, PlaceInv, io_post
  <2>5. RingInv'
    BY <1>4, RingKept DEF AInv, contentVars, io_post
  <2>6. PermitsCounted'
    <3>1. device' => device /\ buffer_count' + Held' + Freed' = buffer_count + Held + Freed
      BY <1>4 DEF AInv, Holding, Held, Freed, AudioTypeOK, RingTypeOK, io_post
    <3> QED BY <1>4, <2>1, <3>1, PermitsKept DEF AInv, AudioTypeOK, RingTypeOK, io_post
  <2>7. FillInv'
    <3>1. device' /\ Filling' => device /\ Filling /\ buffer_remaining' = buffer_remaining
      BY <1>4 DEF Filling, io_post
    <3> QED BY <1>4, <3>1, FillKept DEF AInv, io_post
  <2>8. FilterOwnsChunk'
    BY <1>4, FilterKept DEF AInv, Holding, io_post
  <2> QED BY <2>3, <2>4, <2>5, <2>6, <2>7, <2>8 DEF AInv
<1>5. ASSUME io_dies PROVE AInv'
  <2>1. RingTypeOK'
    BY <1>5 DEF AInv, AudioTypeOK, RingTypeOK, io_dies
  <2>2. SettingTypeOK'
    BY <1>5 DEF AInv, AudioTypeOK, SettingTypeOK, io_dies
  <2>3. AudioTypeOK'
    <3>1. core' \in CorePlaces BY <1>5 DEF AInv, AudioTypeOK, io_dies
    <3> QED BY <1>5, <2>1, <2>2, <3>1 DEF AInv, AudioTypeOK, io_dies
  <2>4. PlaceInv'
    BY <1>5 DEF AInv, PlaceInv, io_dies
  <2>5. RingInv'
    BY <1>5, RingKept DEF AInv, contentVars, io_dies
  <2>6. PermitsCounted'
    <3>1. device' => device /\ buffer_count' + Held' + Freed' = buffer_count + Held + Freed
      BY <1>5 DEF Holding, Held, Freed, io_dies
    <3> QED BY <1>5, <2>1, <3>1, PermitsKept DEF AInv, RingTypeOK, io_dies
  <2>7. FillInv'
    <3>1. device' /\ Filling' => device /\ Filling /\ buffer_remaining' = buffer_remaining
      BY <1>5 DEF Filling, io_dies
    <3> QED BY <1>5, <3>1, FillKept DEF AInv, io_dies
  <2>8. FilterOwnsChunk'
    BY <1>5, FilterKept DEF AInv, Holding, io_dies
  <2> QED BY <2>3, <2>4, <2>5, <2>6, <2>7, <2>8 DEF AInv
<1>6. ASSUME NEW n \in 1 .. MaxLen, io_callback(n) PROVE AInv'
  <2>1. RingTypeOK'
    BY <1>6 DEF AInv, AudioTypeOK, RingTypeOK, io_callback
  <2>2. SettingTypeOK'
    BY <1>6 DEF AInv, AudioTypeOK, SettingTypeOK, io_callback
  <2>3. AudioTypeOK'
    <3>1. core' \in CorePlaces BY <1>6 DEF AInv, AudioTypeOK, io_callback
    <3> QED BY <1>6, <2>1, <2>2, <3>1 DEF AInv, AudioTypeOK, io_callback
  <2>4. PlaceInv'
    BY <1>6 DEF AInv, PlaceInv, io_callback
  <2>5. RingInv'
    BY <1>6, RingKept DEF AInv, contentVars, io_callback
  <2>6. PermitsCounted'
    <3>1. device' => device /\ buffer_count' + Held' + Freed' = buffer_count + Held + Freed
      BY <1>6 DEF Holding, Held, Freed, io_callback
    <3> QED BY <1>6, <2>1, <3>1, PermitsKept DEF AInv, RingTypeOK, io_callback
  <2>7. FillInv'
    <3>1. device' /\ Filling' => device /\ Filling /\ buffer_remaining' = buffer_remaining
      BY <1>6 DEF Filling, io_callback
    <3> QED BY <1>6, <3>1, FillKept DEF AInv, io_callback
  <2>8. FilterOwnsChunk'
    BY <1>6, FilterKept DEF AInv, Holding, io_callback
  <2> QED BY <2>3, <2>4, <2>5, <2>6, <2>7, <2>8 DEF AInv
<1>7. ASSUME em_run PROVE AInv'
  <2>1. RingTypeOK'
    BY <1>7 DEF AInv, AudioTypeOK, RingTypeOK, em_run
  <2>2. SettingTypeOK'
    BY <1>7 DEF AInv, AudioTypeOK, SettingTypeOK, em_run
  <2>3. AudioTypeOK'
    <3>1. core' \in CorePlaces BY <1>7 DEF CorePlaces, Unlocked, em_run, Goto
    <3> QED BY <1>7, <2>1, <2>2, <3>1 DEF AInv, AudioTypeOK, em_run
  <2>4. PlaceInv'
    BY <1>7 DEF AInv, PlaceInv, Opening, Playing, em_run, Goto
  <2>5. RingInv'
    BY <1>7, RingKept DEF AInv, contentVars, em_run
  <2>6. PermitsCounted'
    <3>1. device' => device /\ buffer_count' + Held' + Freed' = buffer_count + Held + Freed
      BY <1>7 DEF Holding, Held, Freed, em_run, Goto
    <3> QED BY <1>7, <2>1, <3>1, PermitsKept DEF AInv, RingTypeOK, em_run
  <2>7. FillInv'
    <3>1. device' /\ Filling' => device /\ Filling /\ buffer_remaining' = buffer_remaining
      BY <1>7 DEF Filling, em_run, Goto
    <3> QED BY <1>7, <3>1, FillKept DEF AInv, em_run
  <2>8. FilterOwnsChunk'
    BY <1>7, FilterKept DEF AInv, Holding, em_run, Goto
  <2> QED BY <2>3, <2>4, <2>5, <2>6, <2>7, <2>8 DEF AInv
<1>8. ASSUME init_ext_cable PROVE AInv'
  <2>1. RingTypeOK'
    BY <1>8 DEF AInv, AudioTypeOK, RingTypeOK, init_ext_cable
  <2>2. SettingTypeOK'
    BY <1>8 DEF AInv, AudioTypeOK, SettingTypeOK, init_ext_cable
  <2>3. AudioTypeOK'
    <3>1. core' \in CorePlaces BY <1>8 DEF CorePlaces, init_ext_cable, Goto
    <3> QED BY <1>8, <2>1, <2>2, <3>1 DEF AInv, AudioTypeOK, init_ext_cable
  <2>4. PlaceInv'
    BY <1>8 DEF AInv, PlaceInv, Opening, Playing, init_ext_cable, Goto
  <2>5. RingInv'
    BY <1>8, RingKept DEF AInv, contentVars, init_ext_cable
  <2>6. PermitsCounted'
    <3>1. device' => device /\ buffer_count' + Held' + Freed' = buffer_count + Held + Freed
      BY <1>8 DEF Holding, Held, Freed, init_ext_cable, Goto
    <3> QED BY <1>8, <2>1, <3>1, PermitsKept DEF AInv, RingTypeOK, init_ext_cable
  <2>7. FillInv'
    <3>1. device' /\ Filling' => device /\ Filling /\ buffer_remaining' = buffer_remaining
      BY <1>8 DEF Filling, init_ext_cable, Goto
    <3> QED BY <1>8, <3>1, FillKept DEF AInv, init_ext_cable
  <2>8. FilterOwnsChunk'
    BY <1>8, FilterKept DEF AInv, Holding, init_ext_cable, Goto
  <2> QED BY <2>3, <2>4, <2>5, <2>6, <2>7, <2>8 DEF AInv
<1>9. ASSUME update_audio PROVE AInv'
  <2>1. RingTypeOK'
    BY <1>9 DEF AInv, AudioTypeOK, RingTypeOK, update_audio
  <2>2. SettingTypeOK'
    BY <1>9 DEF AInv, AudioTypeOK, SettingTypeOK, update_audio
  <2>3. AudioTypeOK'
    <3>1. core' \in CorePlaces
      BY <1>9 DEF CorePlaces, Unlocked, Goto, update_audio
    <3>2. device' \in BOOLEAN /\ audio_device' \in BOOLEAN
      BY <1>9 DEF AInv, AudioTypeOK, update_audio, audio_close, device_close
    <3>3. UNCHANGED filter
      BY <1>9 DEF update_audio, audio_close
    <3>4. \/ UNCHANGED <<filter_chunk, buffer_remaining>>
          \/ filter_chunk' = 0 /\ buffer_remaining' = 0
      BY <1>9 DEF update_audio, audio_close
    <3>5. filter_chunk' \in Chunk /\ buffer_remaining' \in 0 .. ChunkSize
      BY <3>4 DEF AInv, AudioTypeOK, Chunk
    <3>6. UNCHANGED <<alive, io, io_len>>
      BY <1>9 DEF update_audio
    <3> QED BY <2>1, <2>2, <3>1, <3>2, <3>3, <3>5, <3>6 DEF AInv, AudioTypeOK
  <2>4. PlaceInv'
    BY <1>9 DEF AInv, PlaceInv, Opening, Playing, update_audio, Goto, audio_close, device_close
  <2>5. RingInv'
    BY <1>9, RingKept DEF AInv, contentVars, update_audio, audio_close, device_close
  <2>6. PermitsCounted'
    <3>1. device' => device /\ buffer_count' + Held' + Freed' = buffer_count + Held + Freed
      BY <1>9 DEF Holding, Held, Freed, update_audio, Goto, audio_close, device_close
    <3> QED BY <1>9, <2>1, <3>1, PermitsKept DEF AInv, RingTypeOK, update_audio
  <2>7. FillInv'
    <3>1. device' /\ Filling' => device /\ Filling /\ buffer_remaining' = buffer_remaining
      BY <1>9 DEF Filling, update_audio, Goto, audio_close, device_close
    <3> QED BY <1>9, <3>1, FillKept DEF AInv, update_audio, audio_close, device_close
  <2>8. FilterOwnsChunk'
    BY <1>9, FilterKept DEF AInv, Holding, update_audio, Goto, audio_close
  <2> QED BY <2>3, <2>4, <2>5, <2>6, <2>7, <2>8 DEF AInv
<1>10. ASSUME device_open PROVE AInv'
  <2>1. RingTypeOK'
    <3>1. CASE core' = "open_get"
      <4>1. chunks' \in [Chunk -> [Unit -> Nat]] \/ UNCHANGED chunks
        BY <1>10 DEF device_open
      <4>2. chunk_state' \in [Chunk -> BOOLEAN] \/ UNCHANGED chunk_state
        BY <1>10 DEF device_open
      <4>3. \/ UNCHANGED <<write_chunk, read_chunk, read_pos, written, heard>>
            \/ /\ write_chunk' = 0 /\ read_chunk' = 0 /\ read_pos' = 0
               /\ written' = 0 /\ heard' = 0
        BY <1>10 DEF device_open
      <4>4. /\ \/ UNCHANGED <<initial_fill, buffer_count>>
               \/ initial_fill' = LatencyChunks /\ buffer_count' = LatencyChunks
            /\ (UNCHANGED playing \/ playing' = FALSE)
            /\ (UNCHANGED buffer_pending \/ buffer_pending' = TRUE)
        BY <1>10 DEF device_open
      <4>5. 0 \in Chunk /\ 0 \in 0 .. ChunkSize - 1 /\ LatencyChunks \in 0 .. LatencyChunks
        BY DEF Chunk
      <4>6. RingTypeOK BY DEF AInv, AudioTypeOK
      <4>7. chunks' \in [Chunk -> [Unit -> Nat]] /\ chunk_state' \in [Chunk -> BOOLEAN]
        BY <4>1, <4>2, <4>6 DEF RingTypeOK
      <4>8. /\ write_chunk' \in Chunk /\ read_chunk' \in Chunk
            /\ read_pos' \in 0 .. ChunkSize - 1 /\ written' \in Nat /\ heard' \in Nat
        BY <4>3, <4>5, <4>6 DEF RingTypeOK
      <4>9. /\ initial_fill' \in 0 .. LatencyChunks /\ buffer_count' \in 0 .. LatencyChunks
            /\ playing' \in BOOLEAN /\ buffer_pending' \in BOOLEAN
        BY <4>4, <4>5, <4>6 DEF RingTypeOK
      <4> QED BY <4>7, <4>8, <4>9 DEF RingTypeOK
    <3>2. CASE UNCHANGED ringVars
      BY <3>2 DEF AInv, AudioTypeOK, RingTypeOK
    <3> QED BY <1>10, <3>1, <3>2 DEF device_open, Goto
  <2>2. SettingTypeOK'
    BY <1>10 DEF AInv, AudioTypeOK, SettingTypeOK, device_open
  <2>3. AudioTypeOK'
    <3>1. core' \in CorePlaces BY <1>10 DEF CorePlaces, Unlocked, device_open, Goto
    <3> QED BY <1>10, <2>1, <2>2, <3>1 DEF AInv, AudioTypeOK, device_open
  <2>4. PlaceInv'
    BY <1>10 DEF AInv, PlaceInv, Opening, Playing, device_open, Goto
  <2>5. RingInv'
    <3>1. CASE UNCHANGED <<device, ringVars>>
      BY <3>1, RingKept DEF AInv, contentVars
    <3>2. CASE /\ chunk_state' = [c \in Chunk |-> FALSE] /\ write_chunk' = 0
               /\ read_chunk' = 0 /\ written' = 0 /\ heard' = 0
      BY <3>2 DEF RingInv, Ahead
    <3> QED BY <1>10, <3>1, <3>2 DEF device_open
  <2>6. PermitsCounted'
    <3>1. CASE UNCHANGED <<device, ringVars>> /\ core' = "open_failed"
      BY <1>10, <3>1 DEF AInv, PlaceInv, Opening, PermitsCounted, device_open
    <3>2. CASE /\ core' = "open_get" /\ buffer_pending' = TRUE
               /\ chunk_state' = [c \in Chunk |-> FALSE] /\ write_chunk' = 0
               /\ read_chunk' = 0 /\ written' = 0 /\ heard' = 0
               /\ buffer_count' = LatencyChunks
      <4>1. Held' = 0 /\ Freed' = 0
        BY <1>10, <3>2 DEF AInv, PlaceInv, Opening, Held, Freed, Holding, device_open
      <4>2. ASSUME NEW c \in Chunk PROVE ~ (Ahead(c)' < 0) /\ ~chunk_state'[c]
        BY <3>2 DEF Ahead, Chunk
      <4> QED BY <3>2, <4>1, <4>2 DEF PermitsCounted
    <3> QED BY <1>10, <3>1, <3>2 DEF device_open, Goto
  <2>7. FillInv'
    BY <1>10 DEF AInv, PlaceInv, Opening, Filling, FillInv, FilterOwnsChunk, device_open, Goto
  <2>8. FilterOwnsChunk'
    BY <1>10 DEF AInv, PlaceInv, Opening, FilterOwnsChunk, device_open
  <2> QED BY <2>3, <2>4, <2>5, <2>6, <2>7, <2>8 DEF AInv
<1>11. ASSUME get_buffer PROVE AInv'
  <2>1. RingTypeOK'
    BY <1>11 DEF AInv, AudioTypeOK, RingTypeOK, get_buffer
  <2>2. SettingTypeOK'
    BY <1>11 DEF AInv, AudioTypeOK, SettingTypeOK, get_buffer
  <2>3. AudioTypeOK'
    <3>1. core' \in CorePlaces BY <1>11 DEF CorePlaces, Unlocked, get_buffer, Goto
    <3> QED BY <1>11, <2>1, <2>2, <3>1 DEF AInv, AudioTypeOK, get_buffer
  <2>4. PlaceInv'
    BY <1>11 DEF AInv, PlaceInv, Opening, Playing, get_buffer, Goto
  <2>5. RingInv'
    BY <1>11, RingKept DEF AInv, contentVars, get_buffer
  <2>6. PermitsCounted'
    <3>1. device' => device /\ buffer_count' + Held' + Freed' = buffer_count + Held + Freed
      BY <1>11 DEF AInv, PlaceInv, Holding, Held, Freed, AudioTypeOK, RingTypeOK, get_buffer, Goto
    <3> QED BY <1>11, <2>1, <3>1, PermitsKept DEF AInv, AudioTypeOK, RingTypeOK, get_buffer
  <2>7. FillInv'
    <3>1. device' /\ Filling' => device /\ Filling /\ buffer_remaining' = buffer_remaining
      BY <1>11 DEF Filling, get_buffer, Goto
    <3> QED BY <1>11, <3>1, FillKept DEF AInv, get_buffer
  <2>8. FilterOwnsChunk'
    BY <1>11, FilterKept DEF AInv, Holding, get_buffer
  <2> QED BY <2>3, <2>4, <2>5, <2>6, <2>7, <2>8 DEF AInv
<1>12. ASSUME audio_failed PROVE AInv'
  <2>1. RingTypeOK'
    BY <1>12 DEF AInv, AudioTypeOK, RingTypeOK, audio_failed
  <2>2. SettingTypeOK'
    BY <1>12 DEF AInv, AudioTypeOK, SettingTypeOK, audio_failed
  <2>3. AudioTypeOK'
    <3>1. core' \in CorePlaces
      BY <1>12 DEF CorePlaces, Goto, audio_failed
    <3>2. device' \in BOOLEAN /\ audio_device' \in BOOLEAN
      BY <1>12 DEF AInv, AudioTypeOK, audio_failed, audio_close, device_close
    <3>3. UNCHANGED filter
      BY <1>12 DEF audio_failed, audio_close
    <3>4. \/ UNCHANGED <<filter_chunk, buffer_remaining>>
          \/ filter_chunk' = 0 /\ buffer_remaining' = 0
      BY <1>12 DEF audio_failed, audio_close
    <3>5. filter_chunk' \in Chunk /\ buffer_remaining' \in 0 .. ChunkSize
      BY <3>4 DEF AInv, AudioTypeOK, Chunk
    <3>6. UNCHANGED <<alive, io, io_len>>
      BY <1>12 DEF audio_failed
    <3> QED BY <2>1, <2>2, <3>1, <3>2, <3>3, <3>5, <3>6 DEF AInv, AudioTypeOK
  <2>4. PlaceInv'
    BY <1>12 DEF AInv, PlaceInv, Opening, Playing, audio_failed, Goto, audio_close, device_close
  <2>5. RingInv'
    BY <1>12, RingKept DEF AInv, contentVars, audio_failed, audio_close, device_close
  <2>6. PermitsCounted'
    <3>1. device' => device /\ buffer_count' + Held' + Freed' = buffer_count + Held + Freed
      BY <1>12 DEF audio_failed, audio_close, device_close
    <3> QED BY <1>12, <2>1, <3>1, PermitsKept DEF AInv, RingTypeOK, audio_failed
  <2>7. FillInv'
    <3>1. device' /\ Filling' => device /\ Filling /\ buffer_remaining' = buffer_remaining
      BY <1>12 DEF audio_failed, audio_close, device_close
    <3> QED BY <1>12, <3>1, FillKept DEF AInv, audio_failed, audio_close, device_close
  <2>8. FilterOwnsChunk'
    <3>1. ~ buffer_remaining' > 0
      BY <1>12 DEF AInv, PlaceInv, Opening, FilterOwnsChunk, audio_failed, audio_close
    <3> QED BY <3>1 DEF FilterOwnsChunk
  <2> QED BY <2>3, <2>4, <2>5, <2>6, <2>7, <2>8 DEF AInv
<1>13. ASSUME audio_set_buffer PROVE AInv'
  <2>1. RingTypeOK'
    BY <1>13 DEF AInv, AudioTypeOK, RingTypeOK, audio_set_buffer
  <2>2. SettingTypeOK'
    BY <1>13 DEF AInv, AudioTypeOK, SettingTypeOK, audio_set_buffer
  <2>3. AudioTypeOK'
    <3>1. core' \in CorePlaces BY <1>13 DEF CorePlaces, audio_set_buffer, Goto
    <3> QED BY <1>13, <2>1, <2>2, <3>1 DEF AInv, AudioTypeOK, RingTypeOK, audio_set_buffer
  <2>4. PlaceInv'
    BY <1>13 DEF AInv, PlaceInv, Opening, Playing, audio_set_buffer, Goto
  <2>5. RingInv'
    BY <1>13, RingKept DEF AInv, contentVars, audio_set_buffer
  <2>6. PermitsCounted'
    <3>1. device' => device /\ buffer_count' + Held' + Freed' = buffer_count + Held + Freed
      BY <1>13 DEF Holding, Held, Freed, audio_set_buffer, Goto
    <3> QED BY <1>13, <2>1, <3>1, PermitsKept DEF AInv, RingTypeOK, audio_set_buffer
  <2>7. FillInv'
    BY <1>13 DEF FillInv, audio_set_buffer, Unit
  <2>8. FilterOwnsChunk'
    <3>1. device /\ Holding /\ Holding' /\ Ahead(write_chunk) = written - heard
      BY <1>13 DEF AInv, PlaceInv, Playing, Holding, RingInv, audio_set_buffer, Goto
    <3>2. ~chunk_state[write_chunk]
      BY <3>1 DEF AInv, PermitsCounted, AudioTypeOK, RingTypeOK
    <3> QED BY <1>13, <3>1, <3>2 DEF FilterOwnsChunk, audio_set_buffer
  <2> QED BY <2>3, <2>4, <2>5, <2>6, <2>7, <2>8 DEF AInv
<1>14. ASSUME audio_check PROVE AInv'
  <2>1. RingTypeOK'
    BY <1>14 DEF AInv, AudioTypeOK, RingTypeOK, audio_check
  <2>2. SettingTypeOK'
    BY <1>14 DEF AInv, AudioTypeOK, SettingTypeOK, audio_check
  <2>3. AudioTypeOK'
    <3>1. core' \in CorePlaces BY <1>14 DEF CorePlaces, Unlocked, audio_check, Goto
    <3> QED BY <1>14, <2>1, <2>2, <3>1 DEF AInv, AudioTypeOK, audio_check
  <2>4. PlaceInv'
    BY <1>14 DEF AInv, PlaceInv, Opening, Playing, audio_check, Goto
  <2>5. RingInv'
    BY <1>14, RingKept DEF AInv, contentVars, audio_check
  <2>6. PermitsCounted'
    <3>1. device' => device /\ buffer_count' + Held' + Freed' = buffer_count + Held + Freed
      BY <1>14 DEF Holding, Held, Freed, audio_check, Goto
    <3> QED BY <1>14, <2>1, <3>1, PermitsKept DEF AInv, RingTypeOK, audio_check
  <2>7. FillInv'
    <3>1. device' /\ Filling' => device /\ Filling /\ buffer_remaining' = buffer_remaining
      BY <1>14 DEF Filling, audio_check, Goto
    <3> QED BY <1>14, <3>1, FillKept DEF AInv, audio_check
  <2>8. FilterOwnsChunk'
    BY <1>14, FilterKept DEF AInv, Holding, audio_check, Goto
  <2> QED BY <2>3, <2>4, <2>5, <2>6, <2>7, <2>8 DEF AInv
<1>15. ASSUME play_buffer PROVE AInv'
  <2>1. RingTypeOK'
    BY <1>15 DEF AInv, AudioTypeOK, RingTypeOK, Chunk, play_buffer, NextChunk
  <2>2. SettingTypeOK'
    BY <1>15 DEF AInv, AudioTypeOK, SettingTypeOK, play_buffer
  <2>3. AudioTypeOK'
    <3>1. core' \in CorePlaces BY <1>15 DEF CorePlaces, Unlocked, play_buffer, Goto
    <3> QED BY <1>15, <2>1, <2>2, <3>1 DEF AInv, AudioTypeOK, play_buffer
  <2>4. PlaceInv'
    BY <1>15 DEF AInv, PlaceInv, Opening, Playing, play_buffer, Goto
  <2>5. RingInv'
    <3>1. device /\ Held = 1
      BY <1>15 DEF AInv, PlaceInv, Playing, play_buffer, Held, Holding
    <3>2. Ahead(write_chunk) = written - heard /\ heard <= written
      BY <3>1 DEF AInv, RingInv
    <3>3. Ahead(write_chunk)' = written' - heard'
      BY <1>15, <3>1, <3>2, Counted DEF play_buffer, NextChunk, Ahead, AInv, AudioTypeOK, RingTypeOK, Chunk
    <3>4. \A u \in Unit : chunks[write_chunk][u] = written + 1
      <4>1. Filling /\ buffer_remaining = 0
        BY <1>15 DEF AInv, PlaceInv, Playing, Filling, play_buffer
      <4> QED BY <3>1, <4>1 DEF AInv, FillInv, Unit
    <3>5. ASSUME NEW c \in Chunk, chunk_state'[c], NEW u \in Unit
          PROVE  chunks'[c][u] = heard' + 1 + Ahead(c)'
      <4>1. Ahead(c)' = Ahead(c)
        BY <1>15 DEF play_buffer, Ahead
      <4>2. CASE c = write_chunk
        BY <1>15, <3>2, <3>4, <4>1, <4>2 DEF play_buffer, AInv, AudioTypeOK, RingTypeOK
      <4>3. CASE c # write_chunk
        <5>1. chunk_state[c]
          BY <1>15, <3>5, <4>3 DEF play_buffer
        <5>2. chunks[c][u] = heard + 1 + Ahead(c)
          BY <3>1, <5>1 DEF AInv, RingInv
        <5> QED BY <1>15, <4>1, <5>2 DEF play_buffer
      <4> QED BY <4>2, <4>3
    <3> QED BY <1>15, <3>2, <3>3, <3>5 DEF RingInv, play_buffer, AInv, AudioTypeOK, RingTypeOK
  <2>6. PermitsCounted'
    <3>1. device /\ Held = 1 /\ Held' = 0 /\ Freed' = Freed
      BY <1>15 DEF AInv, PlaceInv, Playing, play_buffer, Held, Holding, Freed, Goto
    <3>2. buffer_count' + (written' - heard') + Held' + Freed' = LatencyChunks
      BY <1>15, <3>1, Counted DEF play_buffer, AInv, AudioTypeOK, RingTypeOK
    <3>3. Ahead(write_chunk) = written - heard
      BY <3>1 DEF AInv, RingInv
    <3>4. ASSUME NEW c \in Chunk
          PROVE  chunk_state'[c] <=> Ahead(c)' < written' - heard'
      <4>1. c # write_chunk => Ahead(c) # Ahead(write_chunk)
        BY DEF AInv, AudioTypeOK, RingTypeOK, Chunk, Ahead
      <4>2. Ahead(c)' = Ahead(c) /\ Ahead(c) \in Int
        BY <1>15 DEF play_buffer, Ahead, AInv, AudioTypeOK, RingTypeOK, Chunk
      <4>3. chunk_state[c] <=> Ahead(c) < written - heard
        BY <3>1 DEF AInv, PermitsCounted
      <4>4. CASE c = write_chunk
        BY <1>15, <3>3, <4>2, <4>4 DEF play_buffer, AInv, AudioTypeOK, RingTypeOK
      <4>5. CASE c # write_chunk
        <5>1. chunk_state'[c] = chunk_state[c] /\ written' = written + 1 /\ heard' = heard
          BY <1>15, <4>5 DEF play_buffer
        <5>2. written \in Nat /\ heard \in Nat
          BY DEF AInv, AudioTypeOK, RingTypeOK
        <5> QED BY <3>3, <4>1, <4>2, <4>3, <4>5, <5>1, <5>2
      <4> QED BY <4>4, <4>5
    <3> QED BY <3>2, <3>4 DEF PermitsCounted
  <2>7. FillInv'
    BY <1>15 DEF AInv, PlaceInv, Playing, Filling, FillInv, play_buffer, Goto
  <2>8. FilterOwnsChunk'
    BY <1>15 DEF AInv, PlaceInv, Playing, FilterOwnsChunk, play_buffer
  <2> QED BY <2>3, <2>4, <2>5, <2>6, <2>7, <2>8 DEF AInv
<1>16. ASSUME em_run_z80 PROVE AInv'
  <2>1. RingTypeOK'
    BY <1>16 DEF AInv, AudioTypeOK, RingTypeOK, em_run_z80
  <2>2. SettingTypeOK'
    BY <1>16 DEF AInv, AudioTypeOK, SettingTypeOK, em_run_z80
  <2>3. AudioTypeOK'
    <3>1. core' \in CorePlaces
      BY <1>16 DEF CorePlaces, Unlocked, Goto, em_run_z80
    <3>2. device' \in BOOLEAN /\ audio_device' \in BOOLEAN
      BY <1>16 DEF AInv, AudioTypeOK, em_run_z80, audio_close, device_close
    <3>3. UNCHANGED filter
      BY <1>16 DEF em_run_z80, audio_close
    <3>4. \/ UNCHANGED <<filter_chunk, buffer_remaining>>
          \/ filter_chunk' = 0 /\ buffer_remaining' = 0
      BY <1>16 DEF em_run_z80, audio_close
    <3>5. filter_chunk' \in Chunk /\ buffer_remaining' \in 0 .. ChunkSize
      BY <3>4 DEF AInv, AudioTypeOK, Chunk
    <3>6. UNCHANGED <<alive, io, io_len>>
      BY <1>16 DEF em_run_z80
    <3> QED BY <2>1, <2>2, <3>1, <3>2, <3>3, <3>5, <3>6 DEF AInv, AudioTypeOK
  <2>4. PlaceInv'
    BY <1>16 DEF AInv, PlaceInv, Opening, Playing, em_run_z80, Goto, audio_close, device_close
  <2>5. RingInv'
    BY <1>16, RingKept DEF AInv, contentVars, em_run_z80, audio_close, device_close
  <2>6. PermitsCounted'
    <3>1. device' => device /\ buffer_count' + Held' + Freed' = buffer_count + Held + Freed
      BY <1>16 DEF Holding, Held, Freed, em_run_z80, Goto, audio_close, device_close
    <3> QED BY <1>16, <2>1, <3>1, PermitsKept DEF AInv, RingTypeOK, em_run_z80
  <2>7. FillInv'
    <3>1. device' /\ Filling' => device /\ Filling /\ buffer_remaining' = buffer_remaining
      BY <1>16 DEF Filling, em_run_z80, Goto, audio_close, device_close
    <3> QED BY <1>16, <3>1, FillKept DEF AInv, em_run_z80, audio_close, device_close
  <2>8. FilterOwnsChunk'
    BY <1>16, FilterKept DEF AInv, Holding, em_run_z80, Goto, audio_close
  <2> QED BY <2>3, <2>4, <2>5, <2>6, <2>7, <2>8 DEF AInv
<1>17. ASSUME put_frame PROVE AInv'
  <2>1. RingTypeOK'
    BY <1>17, SMTT(20) DEF AInv, AudioTypeOK, RingTypeOK, put_frame, Unit
  <2>2. SettingTypeOK'
    BY <1>17 DEF AInv, AudioTypeOK, SettingTypeOK, put_frame
  <2>3. AudioTypeOK'
    <3>1. core' \in CorePlaces BY <1>17 DEF CorePlaces, put_frame
    <3> QED BY <1>17, <2>1, <2>2, <3>1 DEF AInv, AudioTypeOK, put_frame
  <2>4. PlaceInv'
    BY <1>17 DEF AInv, PlaceInv, put_frame
  <2>5. RingInv'
    <3>1. filter_chunk = write_chunk /\ ~chunk_state[write_chunk]
      BY <1>17 DEF AInv, FilterOwnsChunk, put_frame
    <3>2. ASSUME NEW c \in Chunk, chunk_state[c] PROVE chunks'[c] = chunks[c]
      BY <1>17, <3>1, <3>2 DEF put_frame
    <3> QED BY <1>17, <3>2 DEF AInv, RingInv, put_frame, Ahead
  <2>6. PermitsCounted'
    BY <1>17 DEF AInv, PermitsCounted, put_frame, Held, Holding, Freed, Ahead
  <2>7. FillInv'
    <3>1. filter_chunk = write_chunk
      BY <1>17 DEF AInv, FilterOwnsChunk, put_frame
    <3> DEFINE last == ChunkSize - buffer_remaining + 1
    <3>2. last \in Unit /\ ChunkSize - buffer_remaining' = last
      BY <1>17 DEF put_frame, AInv, AudioTypeOK, Unit
    <3>3. ASSUME device, NEW u \in Unit, u < last
          PROVE  chunks[write_chunk][u] = written + 1
      BY <1>17, <3>3 DEF AInv, FillInv, Filling, put_frame, Unit, AudioTypeOK
    <3>4. ASSUME device, NEW u \in Unit, u <= last
          PROVE  chunks'[write_chunk][u] = written + 1
      BY <1>17, <3>1, <3>2, <3>3, <3>4 DEF put_frame, AInv, AudioTypeOK, RingTypeOK, Unit
    <3> QED BY <1>17, <3>2, <3>4 DEF FillInv, put_frame
  <2>8. FilterOwnsChunk'
    BY <1>17 DEF AInv, FilterOwnsChunk, put_frame, Holding
  <2> QED BY <2>3, <2>4, <2>5, <2>6, <2>7, <2>8 DEF AInv
<1>18. ASSUME run_end PROVE AInv'
  <2>1. RingTypeOK'
    BY <1>18 DEF AInv, AudioTypeOK, RingTypeOK, run_end
  <2>2. SettingTypeOK'
    BY <1>18 DEF AInv, AudioTypeOK, SettingTypeOK, run_end
  <2>3. AudioTypeOK'
    <3>1. core' \in CorePlaces BY <1>18 DEF CorePlaces, Unlocked, run_end, Goto
    <3> QED BY <1>18, <2>1, <2>2, <3>1 DEF AInv, AudioTypeOK, run_end
  <2>4. PlaceInv'
    BY <1>18 DEF AInv, PlaceInv, Opening, Playing, run_end, Goto
  <2>5. RingInv'
    BY <1>18, RingKept DEF AInv, contentVars, run_end
  <2>6. PermitsCounted'
    <3>1. device' => device /\ buffer_count' + Held' + Freed' = buffer_count + Held + Freed
      BY <1>18 DEF Holding, Held, Freed, run_end, Goto
    <3> QED BY <1>18, <2>1, <3>1, PermitsKept DEF AInv, RingTypeOK, run_end
  <2>7. FillInv'
    <3>1. device' /\ Filling' => device /\ Filling /\ buffer_remaining' = buffer_remaining
      BY <1>18 DEF Filling, run_end, Goto
    <3> QED BY <1>18, <3>1, FillKept DEF AInv, run_end
  <2>8. FilterOwnsChunk'
    BY <1>18, FilterKept DEF AInv, Holding, run_end, Goto
  <2> QED BY <2>3, <2>4, <2>5, <2>6, <2>7, <2>8 DEF AInv
<1>19. ASSUME core_resume PROVE AInv'
  <2>1. RingTypeOK'
    BY <1>19 DEF AInv, AudioTypeOK, RingTypeOK, core_resume
  <2>2. SettingTypeOK'
    BY <1>19 DEF AInv, AudioTypeOK, SettingTypeOK, core_resume
  <2>3. AudioTypeOK'
    <3>1. core' \in CorePlaces BY <1>19 DEF CorePlaces, core_resume, Goto
    <3> QED BY <1>19, <2>1, <2>2, <3>1 DEF AInv, AudioTypeOK, core_resume
  <2>4. PlaceInv'
    BY <1>19 DEF AInv, PlaceInv, Opening, Playing, core_resume, Goto
  <2>5. RingInv'
    BY <1>19, RingKept DEF AInv, contentVars, core_resume
  <2>6. PermitsCounted'
    <3>1. device' => device /\ buffer_count' + Held' + Freed' = buffer_count + Held + Freed
      BY <1>19 DEF Holding, Held, Freed, core_resume, Goto
    <3> QED BY <1>19, <2>1, <3>1, PermitsKept DEF AInv, RingTypeOK, core_resume
  <2>7. FillInv'
    <3>1. device' /\ Filling' => device /\ Filling /\ buffer_remaining' = buffer_remaining
      BY <1>19 DEF Filling, core_resume, Goto
    <3> QED BY <1>19, <3>1, FillKept DEF AInv, core_resume
  <2>8. FilterOwnsChunk'
    BY <1>19, FilterKept DEF AInv, Holding, core_resume, Goto
  <2> QED BY <2>3, <2>4, <2>5, <2>6, <2>7, <2>8 DEF AInv
<1>20. ASSUME get_timeout PROVE AInv'
  <2>1. RingTypeOK'
    BY <1>20 DEF AInv, AudioTypeOK, RingTypeOK, get_timeout
  <2>2. SettingTypeOK'
    BY <1>20 DEF AInv, AudioTypeOK, SettingTypeOK, get_timeout
  <2>3. AudioTypeOK'
    <3>1. core' \in CorePlaces BY <1>20 DEF CorePlaces, Unlocked, get_timeout, Goto
    <3> QED BY <1>20, <2>1, <2>2, <3>1 DEF AInv, AudioTypeOK, get_timeout
  <2>4. PlaceInv'
    BY <1>20 DEF AInv, PlaceInv, Opening, Playing, get_timeout, Goto
  <2>5. RingInv'
    BY <1>20, RingKept DEF AInv, contentVars, get_timeout
  <2>6. PermitsCounted'
    <3>1. device' => device /\ buffer_count' + Held' + Freed' = buffer_count + Held + Freed
      BY <1>20 DEF Holding, Held, Freed, get_timeout, Goto
    <3> QED BY <1>20, <2>1, <3>1, PermitsKept DEF AInv, RingTypeOK, get_timeout
  <2>7. FillInv'
    <3>1. device' /\ Filling' => device /\ Filling /\ buffer_remaining' = buffer_remaining
      BY <1>20 DEF Filling, get_timeout, Goto
    <3> QED BY <1>20, <3>1, FillKept DEF AInv, get_timeout
  <2>8. FilterOwnsChunk'
    BY <1>20, FilterKept DEF AInv, Holding, get_timeout
  <2> QED BY <2>3, <2>4, <2>5, <2>6, <2>7, <2>8 DEF AInv
<1>21. ASSUME audio_load_state PROVE AInv'
  <2>1. RingTypeOK'
    <3>1. chunks' \in [Chunk -> [Unit -> Nat]]
      <4>1. Flushed \in [Unit -> Nat]
        BY DEF Flushed, AInv, AudioTypeOK, RingTypeOK
      <4> QED BY <1>21, <4>1 DEF audio_load_state, AInv, AudioTypeOK, RingTypeOK
    <3> QED BY <1>21, <3>1 DEF AInv, AudioTypeOK, RingTypeOK, audio_load_state
  <2>2. SettingTypeOK'
    BY <1>21 DEF AInv, AudioTypeOK, SettingTypeOK, audio_load_state
  <2>3. AudioTypeOK'
    <3>1. core' \in CorePlaces BY <1>21 DEF CorePlaces, audio_load_state
    <3> QED BY <1>21, <2>1, <2>2, <3>1 DEF AInv, AudioTypeOK, Chunk, audio_load_state
  <2>4. PlaceInv'
    BY <1>21 DEF AInv, PlaceInv, audio_load_state
  <2>5. RingInv'
    <3>1. ASSUME NEW c \in Chunk, chunk_state[c] PROVE chunks'[c] = chunks[c]
      BY <1>21, <3>1 DEF audio_load_state, AInv, FilterOwnsChunk
    <3> QED BY <1>21, <3>1 DEF AInv, RingInv, audio_load_state, Ahead
  <2>6. PermitsCounted'
    BY <1>21 DEF AInv, PermitsCounted, audio_load_state, Held, Holding, Freed, Ahead
  <2>7. FillInv'
    <3>1. Filling' => core = "play" /\ buffer_remaining = 0
      BY <1>21 DEF Filling, audio_load_state, AInv, PlaceInv, Playing
    <3> QED BY <1>21, <3>1 DEF AInv, FillInv, Filling, audio_load_state
  <2>8. FilterOwnsChunk'
    BY <1>21 DEF FilterOwnsChunk, audio_load_state
  <2> QED BY <2>3, <2>4, <2>5, <2>6, <2>7, <2>8 DEF AInv
<1>22. ASSUME NEW b \in BOOLEAN, set_audio(b) PROVE AInv'
  <2>1. SettingTypeOK'
    BY <1>22 DEF AInv, AudioTypeOK, SettingTypeOK, set_audio
  <2> QED BY <1>22, <2>1, SettingsKeep DEF set_audio
<1>23. ASSUME NEW b \in BOOLEAN, set_paused(b) PROVE AInv'
  <2>1. SettingTypeOK'
    BY <1>23 DEF AInv, AudioTypeOK, SettingTypeOK, set_paused
  <2> QED BY <1>23, <2>1, SettingsKeep DEF set_paused
<1>24. ASSUME set_audio_options PROVE AInv'
  <2>1. SettingTypeOK'
    BY <1>24 DEF AInv, AudioTypeOK, SettingTypeOK, set_audio_options
  <2> QED BY <1>24, <2>1, SettingsKeep DEF set_audio_options
<1>25. ASSUME set_link_cable PROVE AInv'
  <2>1. SettingTypeOK'
    BY <1>25 DEF AInv, AudioTypeOK, SettingTypeOK, set_link_cable
  <2> QED BY <1>25, <2>1, SettingsKeep DEF set_link_cable
<1>26. ASSUME load_begin PROVE AInv'
  <2>1. SettingTypeOK'
    BY <1>26 DEF AInv, AudioTypeOK, SettingTypeOK, load_begin
  <2> QED BY <1>26, <2>1, SettingsKeep DEF load_begin
<1>27. ASSUME load_cancelled PROVE AInv'
  <2>1. SettingTypeOK'
    BY <1>27 DEF AInv, AudioTypeOK, SettingTypeOK, load_cancelled
  <2> QED BY <1>27, <2>1, SettingsKeep DEF load_cancelled
<1>28. CASE UNCHANGED audioVars
  BY <1>28, SettingsKeep DEF audioVars, AInv, AudioTypeOK, SettingTypeOK
<1> QED
  BY <1>1, <1>2, <1>3, <1>4, <1>5, <1>6, <1>7, <1>8, <1>9, <1>10, <1>11, <1>12, <1>13, <1>14, <1>15, <1>16, <1>17, <1>18, <1>19, <1>20, <1>21, <1>22, <1>23, <1>24, <1>25, <1>26, <1>27, <1>28 DEF AudioNext, IoStep, CoreStep, GuiStep

LEMMA AudioInvariant == AudioSpec => []AInv
<1> USE AudioInit_AInv, AudioStep
<1> QED BY PTL DEF AudioSpec

(***************************************************************************)
(* The audio threads' types, for any latency, ring and buffer size.        *)
(***************************************************************************)
THEOREM AudioTypes == AudioSpec => []AudioTypeOK
BY AudioInvariant, PTL DEF AInv

(***************************************************************************)
(* Every permit of buffer_count is accounted for and chunk_state marks     *)
(* exactly the chunks between the reader and the writer.                   *)
(***************************************************************************)
THEOREM AudioPermits == AudioSpec => []PermitsCounted
BY AudioInvariant, PTL DEF AInv

(***************************************************************************)
(* The filter writes only the chunk that get_buffer gave, of a device that *)
(* is open.                                                                *)
(***************************************************************************)
THEOREM AudioFilter == AudioSpec => []FilterOwnsChunk
BY AudioInvariant, PTL DEF AInv

(***************************************************************************)
(* What io_callback copies is complete and comes in the order in which it  *)
(* was filled, for any number of chunks and any sizes of requests.         *)
(***************************************************************************)
THEOREM AudioOrder == AudioSpec => []AudioInOrder
<1>1. AInv => AudioInOrder
  <2> SUFFICES ASSUME AInv, io = "copy", NEW u \in read_pos + 1 .. ChunkSize
               PROVE  chunks[read_chunk][u] = heard + 1
    BY DEF AudioInOrder
  <2>1. device /\ chunk_state[read_chunk] /\ u \in Unit /\ Ahead(read_chunk) = 0
    BY DEF AInv, PlaceInv, Unit, Ahead, AudioTypeOK, RingTypeOK, Chunk
  <2> QED BY <2>1 DEF AInv, RingInv, AudioTypeOK, RingTypeOK
<1> QED BY <1>1, AudioInvariant, PTL
=============================================================================
