---------------------------- MODULE StreamProofs ----------------------------
(***************************************************************************)
(* The live streams account for what their consumer missed, and the        *)
(* readers of history return what the chain holds.                         *)
(*                                                                         *)
(* The geyser client, for any queue and checkpoint interval, any number of *)
(* subscriptions, crashes and faults: every transaction up to a checkpoint *)
(* that was sent before its slot's status was handed over, or is one the   *)
(* client dropped or could not know of; a late one is lost with its stream *)
(* only; and the checkpoint goes back by the overlap of two loops only.    *)
(*                                                                         *)
(* The transaction stream, for any subscriptions, memory and reconnects:   *)
(* nothing is repeated within the memory, and every reconnect is told, from*)
(* the right slot.                                                         *)
(*                                                                         *)
(* The readers of history, for any page size and range, and any            *)
(* transactions landing meanwhile: a sweep misses nothing that was there   *)
(* when it began, a catch-up leaves no hole, a walk over blocks no block.  *)
(***************************************************************************)
EXTENDS MCStreams, SequenceLemmas, SequenceTheorems, TLAPS

-----------------------------------------------------------------------------
(* The geyser client.                                                      *)

TxUpdate(n) == [kind |-> "tx", slot |-> n]

Accounted == delivered \cup excused

(* A transaction waits in the queue q.                                     *)
Waits(q, n) == \E i \in 1..Len(q) : q[i] = TxUpdate(n)

(* What holds of a subscription in state s when the chain's tip is h, T are*)
(* the slots whose transaction is sent before their status, and A those    *)
(* accounted for.                                                          *)
SeenIsAccounted(s, h, T, A) ==
    /\ s.lastSlot <= h
    /\ \A n \in T : n <= s.lastSlot => n \in A

(* A gap has been fetched, or is still to fetch, up to the update in hand. *)
GapIsOnTheWay(s, h, T, A) ==
    s.at = "gap" =>
        /\ s.lastSlot >= 0 /\ s.hand.kind = "slot" /\ s.hand.slot <= h
        /\ \A n \in T : n <= s.hand.slot => n \in A \cup s.todo

(* The transaction of slot n is accounted for, or in the queue before the  *)
(* position i.                                                             *)
Before(s, n, i, A) == n \in A \/ \E j \in 1..Len(s.queue) : j < i /\ s.queue[j] = TxUpdate(n)

(* In the queue of an open stream a slot's transaction precedes its status.*)
StatusComesAfter(s, h, T, A) ==
    /\ \A i \in 1..Len(s.queue) : s.queue[i].kind = "slot" =>
        /\ s.queue[i].slot <= h
        /\ s.open /\ s.queue[i].slot \in T => Before(s, s.queue[i].slot, i, A)
    /\ s.open /\ h + 1 \in T => Before(s, h + 1, Len(s.queue) + 1, A)

(* The loop rests only when there is nothing to do, and saves only what it *)
(* has seen.                                                               *)
LoopSound(s) ==
    /\ s.open /\ s.at = "idle" => s.queue = <<>>
    /\ s.at = "save" => s.lastSlot >= 0

Loose(s, h, T, A) ==
    /\ s \in SubStates /\ Len(s.queue) <= QueueCapacity
    /\ s.open \/ s.queue = <<>>
    /\ SeenIsAccounted(s, h, T, A)
    /\ GapIsOnTheWay(s, h, T, A)
    /\ StatusComesAfter(s, h, T, A)

Sound(s, h, T, A) == Loose(s, h, T, A) /\ LoopSound(s)

(* A subscription is not behind the checkpoint c: by what it has seen, or  *)
(* by what it will see first.                                              *)
Ahead(s, c) ==
    IF s.lastSlot >= 0 THEN s.lastSlot >= c
    ELSE \A i \in 1..Len(s.queue) : s.queue[i].kind = "slot" => s.queue[i].slot >= c

Busy(k) == sub[k].open \/ Running(k)

OneAlive == \A j, k \in Subs : sub[j].open /\ sub[k].open => j = k

(* Without an overlap one loop at most saves checkpoints, and it is ahead. *)
OneLoopAhead ==
    ~overlap =>
        /\ \A j, k \in Subs : Busy(j) /\ Busy(k) => j = k
        /\ \A k \in Subs : Busy(k) => Ahead(sub[k], stored.slot)

(* A late transaction that was sent is accounted for, gone with its stream *)
(* or still waiting.                                                       *)
LateIsKnown ==
    \A n \in late \ unsent :
        n \in Accounted \cup gone \/ \E k \in Subs : Waits(sub[k].queue, n)

GeyserInv ==
    /\ GeyserTypeOK
    /\ \A n \in txs : n <= tip + 1
    /\ stored.slot <= tip
    /\ CheckpointIsHonest
    /\ \A k \in Subs : Sound(sub[k], tip, Prompt, Accounted)
    /\ OneAlive
    /\ OneLoopAhead
    /\ LateIsKnown

(* The fields of a subscription's state.                                   *)
LEMMA SubFields ==
    ASSUME NEW s \in SubStates
    PROVE  /\ s.queue \in Seq(Updates) /\ Len(s.queue) \in Nat /\ s.lastSlot \in -1..MaxTip
           /\ s.open \in BOOLEAN /\ s.todo \subseteq 1..MaxTip
           /\ \A i \in 1..Len(s.queue) : s.queue[i] \in Updates /\ s.queue[i].slot \in 1..MaxTip
                                         /\ s.queue[i].kind \in {"tx", "slot"}
<1>1. s.queue \in Seq(Updates)
  BY DEF SubStates
<1>2. \A i \in 1..Len(s.queue) : s.queue[i] \in Updates
  BY <1>1
<1>3. \A u \in Updates : u.slot \in 1..MaxTip /\ u.kind \in {"tx", "slot"}
  BY DEF Updates
<1> QED
  BY <1>1, <1>2, <1>3 DEF SubStates

(* The chain grows, and more is accounted for: a subscription that the new *)
(* slots do not reach, or that has no stream, stays sound.                 *)
LEMMA SoundGrows ==
    ASSUME NEW s, NEW h \in Nat, NEW g \in Nat, NEW T \in SUBSET Nat, NEW U \in SUBSET Nat,
           NEW A, NEW B,
           Sound(s, h, T, A), A \subseteq B, h <= g, T \subseteq U, \A n \in U \ T : n > h,
           s.open => U = T /\ (g = h \/ g + 1 \notin U)
    PROVE  Sound(s, g, U, B)
<1>0. /\ s \in SubStates /\ Len(s.queue) <= QueueCapacity
      /\ SeenIsAccounted(s, h, T, A) /\ GapIsOnTheWay(s, h, T, A)
      /\ StatusComesAfter(s, h, T, A) /\ LoopSound(s) /\ (s.open \/ s.queue = <<>>)
  BY DEF Sound, Loose
<1>1. /\ s.lastSlot \in -1..MaxTip /\ Len(s.queue) \in Nat
      /\ \A i \in 1..Len(s.queue) : s.queue[i].slot \in 1..MaxTip
  BY <1>0, SubFields
<1>2. SeenIsAccounted(s, g, U, B)
  BY <1>0, <1>1, GeyserAssumption DEF SeenIsAccounted
<1>3. GapIsOnTheWay(s, g, U, B)
  <2>1. s.hand.slot \in Int
    BY <1>0 DEF SubStates
  <2> QED
    BY <1>0, <2>1 DEF GapIsOnTheWay
<1>4. ASSUME NEW n, NEW i, Before(s, n, i, A) PROVE Before(s, n, i, B)
  BY <1>4 DEF Before
<1>5. StatusComesAfter(s, g, U, B)
  <2>1. ASSUME NEW i \in 1..Len(s.queue), s.queue[i].kind = "slot"
        PROVE  /\ s.queue[i].slot <= g
               /\ s.open /\ s.queue[i].slot \in U => Before(s, s.queue[i].slot, i, B)
    BY <1>0, <1>1, <1>4, <2>1, GeyserAssumption DEF StatusComesAfter
  <2>2. ASSUME s.open, g + 1 \in U PROVE Before(s, g + 1, Len(s.queue) + 1, B)
    BY <1>0, <1>4, <2>2 DEF StatusComesAfter
  <2> QED
    BY <2>1, <2>2 DEF StatusComesAfter
<1> QED
  BY <1>0, <1>2, <1>3, <1>5 DEF Sound, Loose

(* The head of the queue is taken: what was behind it still is, or has been*)
(* handed over.                                                            *)
LEMMA TailComesAfter ==
    ASSUME NEW s \in SubStates, NEW t \in SubStates, NEW h \in Nat, NEW T, NEW A,
           StatusComesAfter(s, h, T, A), s.queue # <<>>,
           t.queue = Tail(s.queue), t.open = s.open
    PROVE  /\ Head(s.queue) \in Updates /\ Len(t.queue) = Len(s.queue) - 1
           /\ \A i \in 1..Len(t.queue) : t.queue[i] = s.queue[i + 1]
           /\ StatusComesAfter(t, h, T, A \cup IF Head(s.queue).kind = "tx"
                                               THEN {Head(s.queue).slot} ELSE {})
<1> DEFINE u == Head(s.queue)
           B == A \cup IF u.kind = "tx" THEN {u.slot} ELSE {}
<1>1. s.queue \in Seq(Updates) /\ Len(s.queue) \in Nat /\ Len(s.queue) >= 1
  BY SubFields
<1>2. /\ u \in Updates /\ Len(t.queue) = Len(s.queue) - 1 /\ u = s.queue[1]
      /\ \A i \in 1..Len(t.queue) : t.queue[i] = s.queue[i + 1]
  BY <1>1, HeadTailProperties
<1>3. ASSUME NEW n, NEW i \in Nat, Before(s, n, i + 1, A) PROVE Before(t, n, i, B)
  <2>1. CASE n \in A
    BY <2>1 DEF Before
  <2>2. ASSUME NEW j \in 1..Len(s.queue), j < i + 1, s.queue[j] = TxUpdate(n) PROVE Before(t, n, i, B)
    <3>1. CASE j = 1
      <4>1. u.kind = "tx" /\ u.slot = n
        BY <1>2, <2>2, <3>1 DEF TxUpdate
      <4> QED
        BY <4>1 DEF Before
    <3>2. CASE j # 1
      <4>1. j - 1 \in 1..Len(t.queue) /\ j - 1 < i /\ t.queue[j - 1] = TxUpdate(n)
        BY <1>1, <1>2, <2>2, <3>2
      <4> QED
        BY <4>1 DEF Before
    <3> QED
      BY <3>1, <3>2
  <2> QED
    BY <1>3, <2>1, <2>2 DEF Before
<1>4. ASSUME NEW i \in 1..Len(t.queue), t.queue[i].kind = "slot"
      PROVE  /\ t.queue[i].slot <= h
             /\ t.open /\ t.queue[i].slot \in T => Before(t, t.queue[i].slot, i, B)
  <2>1. i + 1 \in 1..Len(s.queue) /\ s.queue[i + 1] = t.queue[i]
    BY <1>1, <1>2, <1>4
  <2>2. /\ t.queue[i].slot <= h
        /\ s.open /\ t.queue[i].slot \in T => Before(s, t.queue[i].slot, i + 1, A)
    BY <1>4, <2>1 DEF StatusComesAfter
  <2>3. i \in Nat
    BY <1>1, <1>2
  <2>4. ASSUME t.open, t.queue[i].slot \in T PROVE Before(t, t.queue[i].slot, i, B)
    BY <1>3, <2>2, <2>3, <2>4
  <2> QED
    BY <2>2, <2>4
<1>5. ASSUME t.open, h + 1 \in T PROVE Before(t, h + 1, Len(t.queue) + 1, B)
  <2>1. Before(s, h + 1, Len(s.queue) + 1, A)
    BY <1>5 DEF StatusComesAfter
  <2>2. Len(s.queue) + 1 = (Len(t.queue) + 1) + 1 /\ Len(t.queue) + 1 \in Nat
    BY <1>1, <1>2
  <2> QED
    BY <1>3, <2>1, <2>2
<1> QED
  BY <1>2, <1>4, <1>5 DEF StatusComesAfter

(* Update u comes, the chain going from tip h with the slots T to tip g    *)
(* with the slots U.                                                       *)
Arrives(u, h, g, T, U) ==
    \/ u = TxUpdate(h + 1) /\ g = h /\ U = T \cup {h + 1}
    \/ u.kind = "tx" /\ g = h /\ U = T
    \/ u.kind = "slot" /\ u.slot = h + 1 /\ g = h + 1 /\ U = T

(* What the queue q was full of is dropped for the next update.            *)
HeadDropped(q) ==
    IF Len(q) >= QueueCapacity /\ Head(q).kind = "tx" THEN {Head(q).slot} ELSE {}

(* An update arrives at the end of the queue; the head that makes room for *)
(* it is dropped, and known to be.                                         *)
LEMMA EnqueueComesAfter ==
    ASSUME NEW s \in SubStates, NEW t \in SubStates, NEW h \in Nat, NEW g \in Nat,
           NEW T \in SUBSET Nat, NEW U \in SUBSET Nat, NEW A, NEW u \in Updates,
           s.open, t.open, Len(s.queue) <= QueueCapacity, t.queue = enqueue(s.queue, u),
           StatusComesAfter(s, h, T, A), \A n \in T : n <= h + 1,
           Arrives(u, h, g, T, U)
    PROVE  /\ Len(t.queue) <= QueueCapacity
           /\ \A i \in 1..Len(t.queue) : t.queue[i] = u \/ \E j \in 1..Len(s.queue) : t.queue[i] = s.queue[j]
           /\ StatusComesAfter(t, g, U, A \cup HeadDropped(s.queue))
           /\ t.queue[Len(t.queue)] = u /\ Len(t.queue) \in Nat \ {0}
           /\ \A n : Waits(s.queue, n) => Waits(t.queue, n) \/ n \in HeadDropped(s.queue)
<1> DEFINE full == Len(s.queue) >= QueueCapacity
           B == A \cup IF full /\ Head(s.queue).kind = "tx" THEN {Head(s.queue).slot} ELSE {}
           q == IF full THEN Tail(s.queue) ELSE s.queue
           r == [s EXCEPT !.queue = q]
<1>1. /\ s.queue \in Seq(Updates) /\ Len(s.queue) \in Nat
      /\ \A i \in 1..Len(s.queue) : s.queue[i] \in Updates /\ s.queue[i].slot \in 1..MaxTip
  BY SubFields
<1>2. /\ q \in Seq(Updates) /\ Len(q) \in Nat /\ Len(q) < QueueCapacity
      /\ \A i \in 1..Len(q) : \E j \in 1..Len(s.queue) : q[i] = s.queue[j]
      /\ \A j \in 1..Len(s.queue) : (full /\ j = 1) \/ \E i \in 1..Len(q) : q[i] = s.queue[j]
      /\ r \in SubStates /\ StatusComesAfter(r, h, T, B)
  <2>1. CASE full
    <3>1. s.queue # <<>>
      BY <1>1, <2>1, GeyserAssumption
    <3>2. Tail(s.queue) \in Seq(Updates)
      BY <1>1, <3>1
    <3>3. r \in SubStates /\ r.queue = Tail(s.queue) /\ r.open = s.open
      BY <2>1, <3>2 DEF SubStates
    <3>4. /\ Len(r.queue) = Len(s.queue) - 1
          /\ \A i \in 1..Len(r.queue) : r.queue[i] = s.queue[i + 1]
          /\ StatusComesAfter(r, h, T, B)
      BY <2>1, <3>1, <3>3, TailComesAfter, ZenonT(30)
    <3>5. \A i \in 1..Len(q) : i + 1 \in 1..Len(s.queue) /\ q[i] = s.queue[i + 1]
      BY <1>1, <2>1, <3>3, <3>4
    <3>6. \A j \in 1..Len(s.queue) : j = 1 \/ \E i \in 1..Len(q) : q[i] = s.queue[j]
      <4>1. \A j \in 1..Len(s.queue) : j = 1 \/ (j - 1 \in 1..Len(q) /\ q[j - 1] = s.queue[j])
        BY <1>1, <2>1, <3>3, <3>4
      <4> QED
        BY <4>1
    <3> QED
      BY <1>1, <2>1, <3>2, <3>3, <3>4, <3>5, <3>6, GeyserAssumption
  <2>2. CASE ~full
    <3>1. r = s /\ q = s.queue
      BY <2>2 DEF SubStates
    <3>2. StatusComesAfter(r, h, T, B)
      BY <2>2, <3>1
    <3> QED
      BY <1>1, <2>2, <3>1, <3>2, GeyserAssumption
  <2> QED
    BY <2>1, <2>2
<1>3. /\ t.queue = Append(q, u) /\ Len(t.queue) = Len(q) + 1
      /\ \A i \in 1..Len(q) : t.queue[i] = q[i]
      /\ t.queue[Len(q) + 1] = u
  <2>1. t.queue = Append(q, u)
    BY DEF enqueue
  <2> QED
    BY <1>2, <2>1, AppendProperties
<1>4. r.queue = q /\ r.open
  BY DEF SubStates
<1> HIDE DEF q, r, full
<1>a. \/ u = TxUpdate(h + 1) /\ g = h /\ U = T \cup {h + 1}
      \/ u.kind = "tx" /\ g = h /\ U = T
      \/ u.kind = "slot" /\ u.slot = h + 1 /\ g = h + 1 /\ U = T
  BY DEF Arrives
<1>5. ASSUME NEW n, NEW i \in Nat, i <= Len(q) + 1, Before(r, n, i, B) PROVE Before(t, n, i, B)
  BY <1>2, <1>3, <1>4, <1>5 DEF Before
<1>6. ASSUME NEW i \in 1..Len(t.queue), t.queue[i].kind = "slot"
      PROVE  /\ t.queue[i].slot <= g
             /\ t.open /\ t.queue[i].slot \in U => Before(t, t.queue[i].slot, i, B)
  <2>1. CASE i = Len(q) + 1
    <3>1. u.kind = "slot" /\ g = h + 1 /\ U = T /\ t.queue[i].slot = h + 1
      BY <1>a, <1>3, <1>6, <2>1 DEF TxUpdate
    <3>2. h + 1 \in T => Before(r, h + 1, Len(q) + 1, B)
      BY <1>2, <1>4 DEF StatusComesAfter
    <3>3. Len(q) + 1 \in Nat /\ Len(q) + 1 <= Len(q) + 1
      BY <1>2
    <3>4. h + 1 \in T => Before(t, h + 1, Len(q) + 1, B)
      BY <1>5, <3>2, <3>3
    <3> QED
      BY <2>1, <3>1, <3>4
  <2>2. CASE i # Len(q) + 1
    <3>1. i \in 1..Len(q) /\ t.queue[i] = q[i] /\ i \in Nat /\ i <= Len(q) + 1
      BY <1>2, <1>3, <2>2
    <3>2. /\ q[i].slot <= h
          /\ q[i].slot \in T => Before(r, q[i].slot, i, B)
      <4>1. i \in 1..Len(r.queue) /\ r.queue[i] = q[i] /\ q[i].kind = "slot"
        BY <1>4, <1>6, <3>1
      <4> QED
        BY <1>2, <1>4, <4>1 DEF StatusComesAfter
    <3>a. q[i].slot \in 1..MaxTip
      BY <1>1, <1>2, <3>1
    <3>b. q[i].slot \in Int
      BY <3>a, GeyserAssumption
    <3>3. q[i].slot <= g /\ (q[i].slot \in U => q[i].slot \in T)
      BY <1>a, <3>2, <3>b
    <3>4. q[i].slot \in T => Before(t, q[i].slot, i, B)
      BY <1>5, <3>1, <3>2
    <3> QED
      BY <3>1, <3>3, <3>4
  <2> QED
    BY <2>1, <2>2
<1>7. ASSUME g + 1 \in U PROVE Before(t, g + 1, Len(t.queue) + 1, B)
  <2>1. Len(q) + 1 \in 1..Len(t.queue) /\ Len(q) + 1 < Len(t.queue) + 1 /\ Len(t.queue) = Len(q) + 1
    BY <1>2, <1>3
  <2>2. CASE u = TxUpdate(h + 1) /\ g = h
    BY <1>3, <2>1, <2>2 DEF Before
  <2>3. CASE g = h /\ U = T
    <3>1. Before(r, h + 1, Len(q) + 1, B)
      BY <1>2, <1>4, <1>7, <2>3 DEF StatusComesAfter
    <3>a. Len(q) + 1 \in Nat /\ Len(q) + 1 <= Len(q) + 1
      BY <1>2
    <3>2. Before(t, h + 1, Len(q) + 1, B)
      BY <1>5, <3>1, <3>a
    <3>3. Len(q) \in Nat
      BY <1>2
    <3> QED
      BY <2>1, <2>3, <3>2, <3>3 DEF Before
  <2>4. CASE g = h + 1 /\ U = T
    BY <1>7, <2>4
  <2> QED
    BY <1>a, <2>2, <2>3, <2>4
<1>8. Len(t.queue) <= QueueCapacity
  BY <1>2, <1>3, GeyserAssumption
<1>9. \A i \in 1..Len(t.queue) : t.queue[i] = u \/ \E j \in 1..Len(s.queue) : t.queue[i] = s.queue[j]
  BY <1>2, <1>3
<1>10. StatusComesAfter(t, g, U, B)
  BY <1>6, <1>7 DEF StatusComesAfter
<1>11. t.queue[Len(t.queue)] = u /\ Len(t.queue) \in Nat \ {0}
  BY <1>2, <1>3
<1>12. ASSUME NEW n, NEW j \in 1..Len(s.queue), s.queue[j] = TxUpdate(n)
       PROVE  Waits(t.queue, n) \/ (full /\ s.queue[1] = TxUpdate(n))
  <2>1. CASE full /\ j = 1
    BY <1>12, <2>1
  <2>2. ASSUME NEW i \in 1..Len(q), q[i] = s.queue[j] PROVE Waits(t.queue, n)
    <3>1. i \in 1..Len(t.queue) /\ t.queue[i] = TxUpdate(n)
      BY <1>2, <1>3, <1>12, <2>2
    <3> QED
      BY <3>1 DEF Waits
  <2> QED
    BY <1>2, <2>1, <2>2
<1>13. full => Head(s.queue) = s.queue[1]
  BY <1>1, GeyserAssumption DEF full
<1>14. \A n : Waits(s.queue, n) => Waits(t.queue, n) \/ (full /\ Head(s.queue) = TxUpdate(n))
  BY <1>12, <1>13 DEF Waits
<1>15. /\ B = A \cup HeadDropped(s.queue)
       /\ \A n : full /\ Head(s.queue) = TxUpdate(n) => n \in HeadDropped(s.queue)
  BY DEF full, HeadDropped, TxUpdate
<1> QED
  BY <1>8, <1>9, <1>10, <1>11, <1>14, <1>15

(* A state of no subscription.                                             *)
LEMMA NoSubIsSound ==
    ASSUME NEW h \in Nat, NEW T \in SUBSET (1..MaxTip), NEW A
    PROVE  NoSub \in SubStates /\ Sound(NoSub, h, T, A)
<1>1. /\ NoSub.queue = <<>> /\ NoSub.open = FALSE /\ NoSub.at = "idle" /\ NoSub.lastSlot = -1
      /\ Len(NoSub.queue) = 0 /\ 1..Len(NoSub.queue) = {}
  BY DEF NoSub
<1>2. NoSub \in SubStates
  <2>1. <<>> \in Seq(Updates) /\ -1 \in -1..MaxTip /\ 0 \in 0..MaxTip /\ 0 \in Nat
    BY GeyserAssumption
  <2> QED
    BY <2>1 DEF NoSub, SubStates
<1>3. SeenIsAccounted(NoSub, h, T, A)
  BY <1>1, GeyserAssumption DEF SeenIsAccounted
<1>4. GapIsOnTheWay(NoSub, h, T, A) /\ StatusComesAfter(NoSub, h, T, A) /\ LoopSound(NoSub)
  BY <1>1 DEF GapIsOnTheWay, StatusComesAfter, LoopSound
<1> QED
  BY <1>1, <1>2, <1>3, <1>4, GeyserAssumption DEF Sound, Loose

(* The loop of subscription k, in state s, has gone on to the state r.     *)
GoesOn(k, s, r, h, T, A) ==
    /\ sub' = [sub EXCEPT ![k] = r]
    /\ Sound(r, h, T, Accounted') /\ r.open = s.open
    /\ delivered \subseteq delivered' /\ excused \subseteq excused' /\ A \subseteq Accounted'
    /\ \A c \in Int : Ahead(s, c) => Ahead(r, c)
    /\ \A n : Waits(s.queue, n) => Waits(r.queue, n) \/ n \in Accounted'

(* The loop goes on: whatever it does next, the subscription stays sound.  *)
LEMMA DrainKeeps ==
    ASSUME NEW k \in Subs, NEW s, NEW ns, NEW A, A = Accounted \cup ns,
           NEW h \in 0..MaxTip, NEW T \in SUBSET (1..MaxTip),
           sub \in [Subs -> SubStates], txs \in SUBSET (1..MaxTip), \A n \in T \ txs : n > h,
           Loose(s, h, T, A), DrainOn(k, s, ns)
    PROVE  \E r \in SubStates : GoesOn(k, s, r, h, T, A)
<1> DEFINE u == Head(s.queue)
           t == [s EXCEPT !.queue = Tail(@)]
<1>0. /\ s \in SubStates /\ Len(s.queue) <= QueueCapacity /\ (s.open \/ s.queue = <<>>)
      /\ SeenIsAccounted(s, h, T, A) /\ StatusComesAfter(s, h, T, A)
      /\ h \in Nat /\ T \subseteq Nat /\ MaxTip \in Nat
  BY GeyserAssumption DEF Loose
<1>1. /\ s.queue \in Seq(Updates) /\ Len(s.queue) \in Nat /\ s.lastSlot \in -1..MaxTip
      /\ \A i \in 1..Len(s.queue) : s.queue[i] \in Updates /\ s.queue[i].slot \in 1..MaxTip
  BY <1>0, SubFields
<1>2. CASE ~s.open \/ s.queue = <<>>
  <2>1. /\ sub' = [sub EXCEPT ![k] = Resting(s)] /\ UNCHANGED delivered
        /\ excused' = excused \cup ns
    BY <1>2 DEF DrainOn
  <2>2. Accounted' = A /\ s.queue = <<>>
    BY <1>0, <1>2, <2>1 DEF Accounted
  <2>3. \A n : ~Waits(s.queue, n)
    BY <2>2 DEF Waits
  <2>4. CASE s.open
    <3> DEFINE r == [s EXCEPT !.at = "idle"]
    <3>1. /\ r \in SubStates /\ r.queue = s.queue /\ r.lastSlot = s.lastSlot
          /\ r.open = s.open /\ r.at = "idle"
      BY <1>0 DEF SubStates
    <3>2. Resting(s) = r
      BY <2>4 DEF Resting
    <3>3. Sound(r, h, T, Accounted')
      BY <1>0, <2>2, <3>1
         DEF Sound, Loose, SeenIsAccounted, GapIsOnTheWay, StatusComesAfter, Before, LoopSound
    <3>4. \A c \in Int : Ahead(s, c) => Ahead(r, c)
      BY <3>1 DEF Ahead
    <3> HIDE DEF r
    <3> QED
      BY <2>1, <2>2, <2>3, <3>1, <3>2, <3>3, <3>4 DEF GoesOn
  <2>5. CASE ~s.open
    <3>1. NoSub \in SubStates /\ Sound(NoSub, h, T, Accounted') /\ Resting(s) = NoSub
      BY <1>0, <2>5, NoSubIsSound DEF Resting
    <3>2. NoSub.open = FALSE /\ NoSub.at = "idle" /\ \A c \in Int : Ahead(NoSub, c)
      BY DEF NoSub, Ahead
    <3>3. s.open = FALSE
      BY <1>0, <2>5 DEF SubStates
    <3> QED
      BY <2>1, <2>2, <2>3, <3>1, <3>2, <3>3 DEF GoesOn
  <2> QED
    BY <2>4, <2>5
<1>3. CASE s.open /\ s.queue # <<>>
  <2>1. /\ u = s.queue[1] /\ u \in Updates /\ u.slot \in 1..MaxTip /\ u.slot \in Int
        /\ 1 \in 1..Len(s.queue) /\ u.kind \in {"tx", "slot"}
    BY <1>0, <1>1, <1>3 DEF Updates
  <2>2. /\ t \in SubStates /\ t.queue = Tail(s.queue) /\ t.open = s.open
        /\ t.lastSlot = s.lastSlot
    <3>1. Tail(s.queue) \in Seq(Updates)
      BY <1>1, <1>3
    <3> QED
      BY <1>0, <3>1 DEF SubStates
  <2>3. /\ Len(t.queue) = Len(s.queue) - 1
        /\ \A i \in 1..Len(t.queue) : t.queue[i] = s.queue[i + 1]
        /\ StatusComesAfter(t, h, T, A \cup IF u.kind = "tx" THEN {u.slot} ELSE {})
    BY <1>0, <1>3, <2>2, TailComesAfter
  <2>4. ASSUME u.kind = "slot"
        PROVE  u.slot <= h /\ (u.slot \in T => u.slot \in A)
    <3>1. u.slot <= h /\ (u.slot \in T => Before(s, u.slot, 1, A))
      BY <1>0, <1>3, <2>1, <2>4 DEF StatusComesAfter
    <3>2. ASSUME Before(s, u.slot, 1, A) PROVE u.slot \in A
      BY <3>2 DEF Before
    <3> QED
      BY <3>1, <3>2
  <2>5. \A i \in 1..Len(t.queue) : i + 1 \in 1..Len(s.queue) /\ t.queue[i] = s.queue[i + 1]
    BY <1>1, <2>3
  <2>8. ASSUME NEW n, Waits(s.queue, n) PROVE Waits(t.queue, n) \/ u = TxUpdate(n)
    <3>1. PICK i \in 1..Len(s.queue) : s.queue[i] = TxUpdate(n)
      BY <2>8 DEF Waits
    <3>2. CASE i = 1
      BY <2>1, <3>1, <3>2
    <3>3. CASE i # 1
      <4>1. i - 1 \in 1..Len(t.queue) /\ t.queue[i - 1] = TxUpdate(n)
        BY <1>1, <2>3, <3>1, <3>3
      <4> QED
        BY <4>1 DEF Waits
    <3> QED
      BY <3>2, <3>3
  <2>6. CASE Gap(s, u)
    <3> DEFINE r == [t EXCEPT !.at = "gap", !.hand = u, !.todo = Missing(s, u)]
    <3>1. sub' = [sub EXCEPT ![k] = r] /\ UNCHANGED delivered
          /\ excused' = excused \cup ns
      BY <1>3, <2>6 DEF DrainOn
    <3>2. /\ u.kind = "slot" /\ s.lastSlot >= 0 /\ Accounted' = A
          /\ A \cup (IF u.kind = "tx" THEN {u.slot} ELSE {}) = A
      BY <2>6, <3>1 DEF Gap, Accounted
    <3>3. Missing(s, u) \subseteq 1..MaxTip
      BY DEF Missing
    <3>4. /\ r \in SubStates /\ r.queue = t.queue /\ r.open = t.open /\ r.lastSlot = s.lastSlot
          /\ r.at = "gap" /\ r.hand = u /\ r.todo = Missing(s, u)
      <4>1. PICK M \in SUBSET (1..MaxTip) : M = Missing(s, u)
        BY <3>3
      <4>2. /\ t \in SubStates /\ u \in Updates /\ M \in SUBSET (1..MaxTip)
            /\ r = [t EXCEPT !.at = "gap", !.hand = u, !.todo = M]
        BY <2>1, <2>2, <4>1
      <4> HIDE DEF t, u, r
      <4>3. /\ r \in SubStates /\ r.queue = t.queue /\ r.open = t.open
            /\ r.lastSlot = t.lastSlot /\ r.at = "gap" /\ r.hand = u /\ r.todo = M
        <5>1. u \in [kind : {"tx", "slot"}, slot : 0..MaxTip]
          BY <4>2, GeyserAssumption DEF Updates
        <5> QED
          BY ONLY <4>2, <5>1 DEF SubStates
      <4> QED
        BY <2>2, <4>1, <4>3
    <3>5. \A n \in T : n <= u.slot => n \in A \cup Missing(s, u)
      <4>1. SUFFICES ASSUME NEW n \in T, n <= u.slot, n \notin A PROVE n \in Missing(s, u)
        OBVIOUS
      <4>2. n \in Int /\ ~(n <= s.lastSlot) /\ n # u.slot
        BY <1>0, <2>4, <3>2, <4>1 DEF SeenIsAccounted
      <4>3. n \in txs
        BY <1>0, <2>1, <2>4, <3>2, <4>1, <4>2
      <4> QED
        BY <1>1, <2>1, <4>1, <4>2, <4>3 DEF Missing
    <3>6. SeenIsAccounted(r, h, T, A) /\ GapIsOnTheWay(r, h, T, A) /\ LoopSound(r)
      BY <1>0, <2>4, <3>2, <3>4, <3>5 DEF SeenIsAccounted, GapIsOnTheWay, LoopSound
    <3>7. StatusComesAfter(r, h, T, A)
      BY <2>3, <3>2, <3>4, SMTT(30) DEF StatusComesAfter, Before
    <3>8. Len(r.queue) <= QueueCapacity
      BY <1>0, <1>1, <2>3, <3>4, GeyserAssumption
    <3>9. \A c \in Int : Ahead(s, c) => Ahead(r, c)
      BY <3>2, <3>4 DEF Ahead
    <3>10. Sound(r, h, T, Accounted')
      BY <1>3, <2>2, <3>2, <3>4, <3>6, <3>7, <3>8 DEF Sound, Loose
    <3>11. \A n : Waits(s.queue, n) => Waits(r.queue, n)
      <4>1. \A n : u # TxUpdate(n)
        BY <3>2 DEF TxUpdate
      <4> QED
        BY <2>8, <3>4, <4>1
    <3>12. delivered \subseteq delivered' /\ excused \subseteq excused'
      BY <3>1
    <3>13. r.open = s.open /\ r.open
      BY <1>3, <2>2, <3>4
    <3> HIDE DEF r
    <3> QED
      BY <3>1, <3>2, <3>4, <3>9, <3>10, <3>11, <3>12, <3>13 DEF GoesOn
  <2>7. CASE ~Gap(s, u)
    <3> DEFINE v == [t EXCEPT !.lastSlot = passed(s, u)]
               r == [v EXCEPT !.at = "handler"]
    <3>1. /\ sub' = [sub EXCEPT ![k] = r]
          /\ delivered' = IF u.kind = "tx" THEN delivered \cup {u.slot} ELSE delivered
          /\ excused' = excused \cup ns \cup
                        IF FirstSlot(s, u) THEN {n \in txs : n < u.slot} ELSE {}
      BY <1>3, <2>7 DEF DrainOn, Handle
    <3>2. passed(s, u) \in -1..MaxTip /\ passed(s, u) >= s.lastSlot
      BY <1>1, <2>1 DEF passed
    <3>3. /\ r \in SubStates /\ r.queue = t.queue /\ r.open = t.open
          /\ r.lastSlot = passed(s, u) /\ r.at = "handler"
      <4>1. v \in SubStates /\ v.queue = t.queue /\ v.open = t.open /\ v.lastSlot = passed(s, u)
        BY <2>2, <3>2 DEF SubStates
      <4>2. r = [v EXCEPT !.at = "handler"]
        OBVIOUS
      <4> HIDE DEF t, u, v, r
      <4>3. /\ r \in SubStates /\ r.queue = v.queue /\ r.open = v.open
            /\ r.lastSlot = v.lastSlot /\ r.at = "handler"
        BY ONLY <4>1, <4>2 DEF SubStates
      <4> QED
        BY <4>1, <4>3
    <3>4. /\ A \cup (IF u.kind = "tx" THEN {u.slot} ELSE {}) \subseteq Accounted'
          /\ delivered \subseteq delivered' /\ excused \subseteq excused'
          /\ FirstSlot(s, u) => {n \in txs : n < u.slot} \subseteq Accounted'
      BY <3>1 DEF Accounted
    <3>5. SeenIsAccounted(r, h, T, Accounted')
      <4>1. CASE ~(u.kind = "slot" /\ u.slot > s.lastSlot)
        <5>1. r.lastSlot = s.lastSlot
          BY <3>3, <4>1 DEF passed
        <5> QED
          BY <1>0, <3>4, <5>1 DEF SeenIsAccounted
      <4>2. CASE u.kind = "slot" /\ u.slot > s.lastSlot
        <5>1. r.lastSlot = u.slot
          BY <3>3, <4>2 DEF passed
        <5>2. ASSUME NEW n \in T, n <= u.slot PROVE n \in Accounted'
          <6>1. CASE n = u.slot
            BY <2>4, <3>4, <4>2, <6>1
          <6>2. CASE n # u.slot /\ s.lastSlot >= 0
            <7>1. n <= s.lastSlot
              BY <1>0, <1>1, <2>1, <2>7, <4>2, <5>2, <6>2 DEF Gap
            <7> QED
              BY <1>0, <3>4, <7>1 DEF SeenIsAccounted
          <6>3. CASE n # u.slot /\ s.lastSlot < 0
            <7>1. n \in txs /\ n < u.slot /\ FirstSlot(s, u)
              BY <1>0, <2>1, <2>4, <4>2, <5>2, <6>3 DEF FirstSlot
            <7> QED
              BY <3>4, <7>1
          <6> QED
            BY <1>1, <6>1, <6>2, <6>3
        <5> QED
          BY <2>4, <4>2, <5>1, <5>2 DEF SeenIsAccounted
      <4> QED
        BY <4>1, <4>2
    <3>6. GapIsOnTheWay(r, h, T, Accounted') /\ LoopSound(r)
      BY <3>3 DEF GapIsOnTheWay, LoopSound
    <3>7. StatusComesAfter(r, h, T, Accounted')
      BY <2>3, <3>3, <3>4, ZenonT(30) DEF StatusComesAfter, Before
    <3>8. Len(r.queue) <= QueueCapacity
      BY <1>0, <1>1, <2>3, <3>3, GeyserAssumption
    <3>9. ASSUME NEW c \in Int, Ahead(s, c) PROVE Ahead(r, c)
      <4>1. CASE s.lastSlot >= 0
        BY <1>1, <3>2, <3>3, <3>9, <4>1 DEF Ahead
      <4>2. CASE s.lastSlot < 0 /\ u.kind = "slot"
        <5>1. r.lastSlot = u.slot /\ u.slot >= c
          BY <1>1, <2>1, <3>3, <3>9, <4>2 DEF Ahead, passed
        <5> QED
          BY <2>1, <5>1 DEF Ahead
      <4>3. CASE s.lastSlot < 0 /\ u.kind # "slot"
        <5>1. r.lastSlot = s.lastSlot
          BY <3>3, <4>3 DEF passed
        <5> QED
          BY <1>1, <2>5, <3>3, <3>9, <4>3, <5>1 DEF Ahead
      <4> QED
        BY <1>1, <2>1, <4>1, <4>2, <4>3
    <3>10. Sound(r, h, T, Accounted')
      BY <1>3, <2>2, <3>3, <3>5, <3>6, <3>7, <3>8 DEF Sound, Loose
    <3>11. ASSUME NEW n, u = TxUpdate(n) PROVE n \in Accounted'
      BY <3>4, <3>11 DEF TxUpdate
    <3>12. \A n : Waits(s.queue, n) => Waits(r.queue, n) \/ n \in Accounted'
      BY <2>8, <3>3, <3>11
    <3>13. r.open = s.open /\ r.open /\ A \subseteq Accounted'
      BY <1>3, <2>2, <3>3, <3>4
    <3> HIDE DEF r
    <3> QED
      BY <3>1, <3>3, <3>4, <3>9, <3>10, <3>12, <3>13 DEF GoesOn
  <2> QED
    BY <2>6, <2>7
<1> QED
  BY <1>0, <1>2, <1>3 DEF SubStates

(* The invariant in its parts.                                             *)
LEMMA GeyserFacts ==
    ASSUME GeyserInv
    PROVE  /\ tip \in 0..MaxTip /\ tip \in Nat /\ txs \in SUBSET (1..MaxTip) /\ txs \in SUBSET Nat
           /\ sub \in [Subs -> SubStates]
           /\ stored \in [slot : 0..MaxTip, count : Nat] /\ stored.slot \in Nat
           /\ \A n \in txs : n <= tip + 1
           /\ \A k \in Subs : sub[k] \in SubStates /\ (sub[k].open \/ sub[k].queue = <<>>)
           /\ Prompt \in SUBSET (1..MaxTip) /\ Prompt \in SUBSET Nat /\ Prompt \subseteq txs
           /\ late \subseteq txs /\ unsent \subseteq late
<1>1. /\ tip \in 0..MaxTip /\ tip \in Nat /\ txs \in SUBSET (1..MaxTip) /\ txs \in SUBSET Nat
      /\ sub \in [Subs -> SubStates]
      /\ stored \in [slot : 0..MaxTip, count : Nat] /\ stored.slot \in Nat
      /\ \A n \in txs : n <= tip + 1
      /\ late \subseteq txs /\ unsent \subseteq late
  BY GeyserAssumption DEF GeyserInv, GeyserTypeOK
<1>2. Prompt \in SUBSET (1..MaxTip) /\ Prompt \in SUBSET Nat /\ Prompt \subseteq txs
  BY <1>1 DEF Prompt
<1>3. \A k \in Subs : sub[k] \in SubStates /\ (sub[k].open \/ sub[k].queue = <<>>)
  BY <1>1 DEF GeyserInv, Sound, Loose
<1> QED
  BY <1>1, <1>2, <1>3

(* What Queued says of the queue.                                          *)
LEMMA QueuedWaits ==
    ASSUME NEW k \in Subs, sub[k] \in SubStates, NEW n
    PROVE  Queued(k, n) <=> Waits(sub[k].queue, n)
<1>1. PICK q \in Seq(Updates) : q = sub[k].queue
  BY DEF SubStates
<1>2. ToSet(q) = {q[i] : i \in 1..Len(q)}
  BY <1>1 DEF ToSet
<1>3. \A i \in 1..Len(q) : q[i] \in Updates
  BY <1>1
<1>4. \A u \in Updates : u.kind = "tx" /\ u.slot = n <=> u = TxUpdate(n)
  BY DEF Updates, TxUpdate
<1> QED
  BY <1>1, <1>2, <1>3, <1>4 DEF Queued, Waits

(* The chain's own variables stand still.                                  *)
LEMMA ChainStands ==
    ASSUME UNCHANGED chainVars
    PROVE  /\ UNCHANGED <<tip, txs, late, unsent, overlap, gone>> /\ Prompt' = Prompt
           /\ gone \subseteq gone'
  BY DEF chainVars, Prompt

(* A step of one subscription, on a chain that stands still.               *)
LEMMA OneSubKeeps ==
    ASSUME GeyserInv, NEW k \in Subs, NEW r \in SubStates, sub' = [sub EXCEPT ![k] = r],
           UNCHANGED <<tip, txs, late, unsent, overlap, opened>>, gone \subseteq gone',
           delivered \subseteq delivered', excused \subseteq excused',
           Sound(r, tip, Prompt, Accounted'),
           r.open => sub[k].open, r.open \/ r.at \notin {"idle", "stopped"} => Busy(k),
           stored' = stored
             \/ /\ Busy(k) /\ stored' \in [slot : 0..MaxTip, count : Nat]
                /\ stored'.slot <= tip
                /\ \A n \in Prompt : n <= stored'.slot => n \in Accounted',
           Ahead(sub[k], stored.slot) => Ahead(r, stored'.slot),
           \A n \in late :
              Waits(sub[k].queue, n) => Waits(r.queue, n) \/ n \in Accounted' \cup gone'
    PROVE  GeyserInv'
<1>0. /\ GeyserTypeOK /\ CheckpointIsHonest /\ OneAlive /\ OneLoopAhead /\ LateIsKnown
      /\ \A j \in Subs : Sound(sub[j], tip, Prompt, Accounted)
      /\ \A n \in txs : n <= tip + 1
      /\ stored.slot <= tip
  BY DEF GeyserInv
<1>1. /\ tip \in Nat /\ Prompt \in SUBSET Nat /\ sub \in [Subs -> SubStates]
  BY GeyserFacts
<1>2. Accounted \subseteq Accounted'
  BY DEF Accounted
<1>3. UNCHANGED <<tip, txs, overlap, opened>> /\ Prompt' = Prompt
  BY DEF Prompt
<1>4. /\ sub' \in [Subs -> SubStates] /\ sub'[k] = r
      /\ \A j \in Subs : j # k => sub'[j] = sub[j]
  BY <1>1
<1>5. \A j \in Subs : Sound(sub'[j], tip, Prompt, Accounted')
  <2>1. ASSUME NEW j \in Subs, j # k PROVE Sound(sub[j], tip, Prompt, Accounted')
    <3>1. Sound(sub[j], tip, Prompt, Accounted) /\ tip <= tip /\ \A n \in Prompt \ Prompt : n > tip
      BY <1>0, <1>1
    <3> QED
      BY <1>1, <1>2, <3>1, SoundGrows
  <2> QED
    BY <1>4, <2>1
<1>6. \A j \in Subs : Len(sub'[j].queue) <= QueueCapacity
  BY <1>5 DEF Sound, Loose
<1>7. GeyserTypeOK'
  BY <1>0, <1>3, <1>4, <1>6 DEF GeyserTypeOK
<1>8. CheckpointIsHonest' /\ (stored.slot <= tip)'
  <2>1. \A n \in Prompt : n <= stored'.slot => n \in Accounted'
    BY <1>0, <1>2 DEF CheckpointIsHonest, Accounted
  <2>2. CheckpointIsHonest'
    BY <1>3, <2>1 DEF CheckpointIsHonest, Accounted
  <2>3. stored'.slot <= tip'
    BY <1>0, <1>3
  <2> QED
    BY <2>2, <2>3
<1>9. \A j \in Subs : /\ sub'[j].open => sub[j].open
                      /\ Busy(j)' => Busy(j)
  BY <1>4 DEF Busy, Running
<1>10. OneAlive'
  BY <1>0, <1>9 DEF OneAlive
<1>11. OneLoopAhead'
  <2>1. SUFFICES ASSUME ~overlap
                 PROVE  /\ \A i, j \in Subs : Busy(i)' /\ Busy(j)' => i = j
                        /\ \A j \in Subs : Busy(j)' => Ahead(sub'[j], stored'.slot)
    BY <1>3 DEF OneLoopAhead
  <2>2. /\ \A i, j \in Subs : Busy(i) /\ Busy(j) => i = j
        /\ \A j \in Subs : Busy(j) => Ahead(sub[j], stored.slot)
    BY <1>0, <2>1 DEF OneLoopAhead
  <2>3. ASSUME NEW j \in Subs, Busy(j)' PROVE Ahead(sub'[j], stored'.slot)
    BY <1>4, <1>9, <2>2, <2>3
  <2> QED
    BY <1>9, <2>2, <2>3
<1>12. LateIsKnown'
  <2>1. SUFFICES ASSUME NEW n \in late \ unsent
                 PROVE  n \in (Accounted \cup gone)' \/ \E j \in Subs : Waits(sub'[j].queue, n)
    BY DEF LateIsKnown
  <2>2. CASE n \in Accounted \cup gone
    BY <1>2, <2>2
  <2>3. ASSUME NEW j \in Subs, Waits(sub[j].queue, n)
        PROVE  n \in (Accounted \cup gone)' \/ \E i \in Subs : Waits(sub'[i].queue, n)
    <3>1. CASE j = k
      BY <1>4, <2>1, <2>3, <3>1
    <3>2. CASE j # k
      BY <1>4, <2>3, <3>2
    <3> QED
      BY <3>1, <3>2
  <2> QED
    BY <1>0, <2>2, <2>3 DEF LateIsKnown
<1> QED
  BY <1>0, <1>3, <1>5, <1>7, <1>8, <1>10, <1>11, <1>12 DEF GeyserInv

(* The loop of one subscription goes on from state s, after an await.      *)
LEMMA GoesOnKeeps ==
    ASSUME GeyserInv, NEW k \in Subs, NEW s, DrainOn(k, s, {}), UNCHANGED <<chainVars, opened>>,
           Loose(s, tip, Prompt, Accounted), s.open = sub[k].open, s.queue = sub[k].queue,
           Busy(k),
           stored' = stored
             \/ /\ stored' \in [slot : 0..MaxTip, count : Nat]
                /\ stored'.slot <= tip
                /\ \A n \in Prompt : n <= stored'.slot => n \in Accounted,
           Ahead(sub[k], stored.slot) => Ahead(s, stored'.slot)
    PROVE  GeyserInv'
<1>1. /\ tip \in 0..MaxTip /\ Prompt \in SUBSET (1..MaxTip) /\ sub \in [Subs -> SubStates]
      /\ txs \in SUBSET (1..MaxTip) /\ \A n \in Prompt \ txs : n > tip
      /\ stored.slot \in Nat /\ Accounted = Accounted \cup {}
  BY GeyserFacts
<1>a. PICK h, T, A, ns :
        /\ h \in 0..MaxTip /\ h = tip
        /\ T \in SUBSET (1..MaxTip) /\ T = Prompt
        /\ A = Accounted /\ ns = {}
  BY <1>1
<1>b. A = Accounted \cup ns /\ Loose(s, h, T, A) /\ DrainOn(k, s, ns)
  BY <1>1, <1>a
<1>c. /\ sub \in [Subs -> SubStates] /\ txs \in SUBSET (1..MaxTip)
      /\ \A n \in T \ txs : n > h
  BY <1>1, <1>a
<1>d. h \in 0..MaxTip /\ T \in SUBSET (1..MaxTip)
  BY <1>a
<1>2. PICK r \in SubStates :
             /\ sub' = [sub EXCEPT ![k] = r]
             /\ Sound(r, tip, Prompt, Accounted') /\ r.open = s.open
             /\ delivered \subseteq delivered' /\ excused \subseteq excused'
             /\ \A c \in Int : Ahead(s, c) => Ahead(r, c)
             /\ \A n : Waits(s.queue, n) => Waits(r.queue, n) \/ n \in Accounted'
  <2>1. PICK r \in SubStates : GoesOn(k, s, r, h, T, A)
    BY ONLY <1>b, <1>c, <1>d, k \in Subs, DrainKeeps
  <2> QED
    BY <1>a, <2>1 DEF GoesOn
<1>3. stored'.slot \in Int
  BY <1>1, GeyserAssumption
<1>4. Accounted \subseteq Accounted'
  BY <1>2 DEF Accounted
<1>5. UNCHANGED <<tip, txs, late, unsent, overlap, opened>> /\ gone \subseteq gone'
  BY ChainStands
<1>6. Ahead(sub[k], stored.slot) => Ahead(r, stored'.slot)
  BY <1>2, <1>3
<1>7. \A n \in late :
         Waits(sub[k].queue, n) => Waits(r.queue, n) \/ n \in Accounted' \cup gone'
  BY <1>2
<1> QED
  BY <1>2, <1>4, <1>5, <1>6, <1>7, OneSubKeeps

(* Only the queue, the slots and the state of the loop matter.             *)
LEMMA LooseFrame ==
    ASSUME NEW s, NEW r \in SubStates, NEW h, NEW T, NEW A, Loose(s, h, T, A),
           r.queue = s.queue, r.lastSlot = s.lastSlot, r.hand = s.hand, r.todo = s.todo,
           r.at = s.at, r.open = s.open
    PROVE  /\ Loose(r, h, T, A)
           /\ LoopSound(s) => LoopSound(r)
           /\ \A c : Ahead(s, c) => Ahead(r, c)
<1>1. SeenIsAccounted(r, h, T, A) /\ GapIsOnTheWay(r, h, T, A)
  BY DEF Loose, SeenIsAccounted, GapIsOnTheWay
<1>2. StatusComesAfter(r, h, T, A)
  BY DEF Loose, StatusComesAfter, Before
<1>3. Len(r.queue) <= QueueCapacity
  BY DEF Loose
<1>4. LoopSound(s) => LoopSound(r)
  BY DEF LoopSound
<1>5. \A c : Ahead(s, c) => Ahead(r, c)
  BY DEF Ahead
<1> QED
  BY <1>1, <1>2, <1>3, <1>4, <1>5 DEF Loose

(* A backfill that has come to the next transaction, or found it missing.  *)
LEMMA BackfillKeeps ==
    ASSUME GeyserInv, NEW k \in Subs, sub[k].at = "gap", NEW n \in sub[k].todo,
           sub' = [sub EXCEPT ![k].todo = @ \ {n}],
           UNCHANGED <<chainVars, opened, stored>>, delivered \subseteq delivered',
           excused \subseteq excused', n \in Accounted'
    PROVE  GeyserInv'
<1>1. /\ sub \in [Subs -> SubStates] /\ sub[k] \in SubStates
      /\ Sound(sub[k], tip, Prompt, Accounted)
  BY GeyserFacts DEF GeyserInv
<1>2. PICK s : s = sub[k]
  OBVIOUS
<1>3. PICK r : r = [s EXCEPT !.todo = @ \ {n}]
  OBVIOUS
<1>4. /\ r \in SubStates /\ r.queue = s.queue /\ r.open = s.open /\ r.at = s.at
      /\ r.lastSlot = s.lastSlot /\ r.hand = s.hand /\ r.todo = s.todo \ {n}
  BY <1>1, <1>2, <1>3 DEF SubStates
<1>5. sub' = [sub EXCEPT ![k] = r]
  BY <1>2, <1>3
<1>6. Accounted \subseteq Accounted'
  BY DEF Accounted
<1>7. Sound(r, tip, Prompt, Accounted')
  <2>1. SeenIsAccounted(r, tip, Prompt, Accounted') /\ LoopSound(r)
    BY <1>1, <1>2, <1>4, <1>6 DEF Sound, Loose, SeenIsAccounted, LoopSound
  <2>2. GapIsOnTheWay(r, tip, Prompt, Accounted')
    BY <1>1, <1>2, <1>4, <1>6 DEF Sound, Loose, GapIsOnTheWay
  <2>3. StatusComesAfter(r, tip, Prompt, Accounted')
    BY <1>1, <1>2, <1>4, <1>6 DEF Sound, Loose, StatusComesAfter, Before
  <2>4. Len(r.queue) <= QueueCapacity /\ (r.open \/ r.queue = <<>>)
    BY <1>1, <1>2, <1>4 DEF Sound, Loose
  <2> QED
    BY <1>4, <2>1, <2>2, <2>3, <2>4 DEF Sound, Loose
<1>8. Busy(k) /\ (Ahead(sub[k], stored.slot) => Ahead(r, stored.slot))
  BY <1>2, <1>4 DEF Busy, Running, Ahead
<1>9. UNCHANGED <<tip, txs, late, unsent, overlap, opened>> /\ gone \subseteq gone'
  BY ChainStands
<1> QED
  BY <1>2, <1>4, <1>5, <1>7, <1>8, <1>9, OneSubKeeps

(* The backfill ends: what it has not come to is known to be missed.       *)
LEMMA BackfillEndKeeps ==
    ASSUME GeyserInv, NEW k \in Subs, BackfillEnds(k)
    PROVE  GeyserInv'
<1>1. /\ sub \in [Subs -> SubStates] /\ sub[k] \in SubStates
      /\ Sound(sub[k], tip, Prompt, Accounted) /\ tip \in Nat /\ Prompt \in SUBSET Nat
      /\ stored.slot \in Nat
  BY GeyserFacts DEF GeyserInv
<1>2. PICK s : s = sub[k]
  OBVIOUS
<1>3. /\ s \in SubStates /\ s.lastSlot \in -1..MaxTip /\ s.hand.slot \in 0..MaxTip
      /\ s.hand \in [kind : {"tx", "slot"}, slot : 0..MaxTip]
      /\ s.lastSlot >= 0 /\ s.hand.kind = "slot" /\ s.hand.slot <= tip
      /\ \A n \in Prompt : n <= s.hand.slot => n \in Accounted \cup s.todo
  BY <1>1, <1>2 DEF SubStates, Sound, Loose, GapIsOnTheWay, BackfillEnds
<1>4. PICK l : l = passed(s, s.hand)
  OBVIOUS
<1>5. /\ l \in -1..MaxTip /\ l >= s.lastSlot /\ l <= tip
      /\ l = s.lastSlot \/ l = s.hand.slot
  BY <1>1, <1>2, <1>3, <1>4 DEF passed, Sound, Loose, SeenIsAccounted
<1>6. PICK v : v = [s EXCEPT !.todo = {}, !.lastSlot = l, !.hand = NoSub.hand]
  OBVIOUS
<1>7. v \in SubStates /\ v.queue = s.queue /\ v.open = s.open /\ v.lastSlot = l
  <2>1. NoSub.hand \in [kind : {"tx", "slot"}, slot : 0..MaxTip]
    BY GeyserAssumption DEF NoSub
  <2> QED
    BY <1>3, <1>5, <1>6, <2>1 DEF SubStates
<1>8. PICK r : r = [v EXCEPT !.at = "handler"]
  OBVIOUS
<1>9. /\ r \in SubStates /\ r.queue = s.queue /\ r.open = s.open /\ r.lastSlot = l
      /\ r.at = "handler"
  BY <1>7, <1>8 DEF SubStates
<1>10. /\ sub' = [sub EXCEPT ![k] = r]
       /\ delivered \subseteq delivered' /\ excused' = excused \cup s.todo
       /\ UNCHANGED <<chainVars, opened, stored>> /\ sub[k].at = "gap"
  BY <1>2, <1>4, <1>6, <1>8 DEF BackfillEnds, Handle
<1>11. Accounted \cup s.todo \subseteq Accounted'
  BY <1>10 DEF Accounted
<1>12. Sound(r, tip, Prompt, Accounted')
  <2>1. SeenIsAccounted(r, tip, Prompt, Accounted')
    <3>1. \A n \in Prompt : n <= s.lastSlot => n \in Accounted
      BY <1>1, <1>2 DEF Sound, Loose, SeenIsAccounted
    <3> QED
      BY <1>3, <1>5, <1>9, <1>11, <3>1 DEF SeenIsAccounted
  <2>2. GapIsOnTheWay(r, tip, Prompt, Accounted') /\ LoopSound(r)
    BY <1>9 DEF GapIsOnTheWay, LoopSound
  <2>3. StatusComesAfter(r, tip, Prompt, Accounted')
    BY <1>1, <1>2, <1>9, <1>11 DEF Sound, Loose, StatusComesAfter, Before
  <2>4. Len(r.queue) <= QueueCapacity /\ (r.open \/ r.queue = <<>>)
    BY <1>1, <1>2, <1>9 DEF Sound, Loose
  <2> QED
    BY <1>9, <2>1, <2>2, <2>3, <2>4 DEF Sound, Loose
<1>13. Busy(k)
  BY <1>10 DEF Busy, Running
<1>14. Ahead(sub[k], stored.slot) => Ahead(r, stored.slot)
  BY <1>1, <1>2, <1>3, <1>5, <1>9 DEF Ahead
<1>15. UNCHANGED <<tip, txs, late, unsent, overlap, opened>> /\ gone \subseteq gone'
  BY <1>10, ChainStands
<1>16. excused \subseteq excused' /\ stored' = stored /\ r.queue = sub[k].queue
       /\ (r.open => sub[k].open)
  BY <1>2, <1>9, <1>10
<1> QED
  BY <1>9, <1>10, <1>12, <1>13, <1>14, <1>15, <1>16, OneSubKeeps

(* The handler settles, and the checkpoint is due or not.                  *)
LEMMA HandlerSettledKeeps ==
    ASSUME GeyserInv, NEW k \in Subs, HandlerSettled(k)
    PROVE  GeyserInv'
<1>1. /\ sub \in [Subs -> SubStates] /\ sub[k] \in SubStates
      /\ Sound(sub[k], tip, Prompt, Accounted) /\ sub[k].at = "handler"
      /\ UNCHANGED <<chainVars, opened, stored, faults>>
  BY GeyserFacts DEF GeyserInv, HandlerSettled
<1>2. PICK s : s = [sub[k] EXCEPT !.count = @ + 1]
  OBVIOUS
<1>3. /\ s \in SubStates /\ s.queue = sub[k].queue /\ s.open = sub[k].open /\ s.at = "handler"
      /\ s.lastSlot = sub[k].lastSlot /\ s.hand = sub[k].hand /\ s.todo = sub[k].todo
  <2>1. PICK o \in SubStates : o = sub[k]
    BY <1>1
  <2>2. o \in SubStates /\ s = [o EXCEPT !.count = @ + 1] /\ o.at = "handler"
    BY <1>1, <1>2, <2>1
  <2>3. /\ s \in SubStates /\ s.queue = o.queue /\ s.open = o.open /\ s.at = "handler"
        /\ s.lastSlot = o.lastSlot /\ s.hand = o.hand /\ s.todo = o.todo
    BY ONLY <2>2 DEF SubStates
  <2> QED
    BY <2>1, <2>3
<1>4. Loose(s, tip, Prompt, Accounted) /\ \A c : Ahead(sub[k], c) => Ahead(s, c)
  BY <1>1, <1>3, LooseFrame DEF Sound
<1>5. Busy(k) /\ UNCHANGED <<tip, txs, late, unsent, overlap, opened>> /\ gone \subseteq gone'
  BY <1>1, ChainStands DEF Busy, Running
<1>6. CASE CheckpointDue(s)
  <2>1. PICK r : r = [s EXCEPT !.at = "save"]
    OBVIOUS
  <2>2. /\ r \in SubStates /\ r.queue = s.queue /\ r.open = s.open /\ r.at = "save"
        /\ r.lastSlot = s.lastSlot
    BY <1>3, <2>1 DEF SubStates
  <2>3. sub' = [sub EXCEPT ![k] = r] /\ UNCHANGED <<delivered, excused>>
    BY <1>2, <1>6, <2>1 DEF HandlerSettled
  <2>4. Accounted' = Accounted
    BY <2>3 DEF Accounted
  <2>5. Sound(r, tip, Prompt, Accounted')
    <3>1. GapIsOnTheWay(r, tip, Prompt, Accounted) /\ LoopSound(r)
      BY <1>6, <2>2 DEF GapIsOnTheWay, LoopSound, CheckpointDue
    <3>2. SeenIsAccounted(r, tip, Prompt, Accounted) /\ StatusComesAfter(r, tip, Prompt, Accounted)
      BY <1>4, <2>2 DEF Loose, SeenIsAccounted, StatusComesAfter, Before
    <3>3. Len(r.queue) <= QueueCapacity /\ (r.open \/ r.queue = <<>>)
      BY <1>4, <2>2 DEF Loose
    <3> QED
      BY <2>2, <2>4, <3>1, <3>2, <3>3 DEF Sound, Loose
  <2>6. Ahead(sub[k], stored.slot) => Ahead(r, stored.slot)
    BY <1>4, <2>2 DEF Ahead
  <2> QED
    BY <1>1, <1>3, <1>5, <2>2, <2>3, <2>5, <2>6, OneSubKeeps
<1>7. CASE ~CheckpointDue(s)
  <2>1. DrainOn(k, s, {})
    BY <1>2, <1>7 DEF HandlerSettled
  <2> QED
    BY <1>1, <1>3, <1>4, <1>5, <2>1, GoesOnKeeps
<1> QED
  BY <1>6, <1>7

(* A checkpoint is saved, or could not be.                                 *)
LEMMA SaveKeeps ==
    ASSUME GeyserInv, NEW k \in Subs, NEW ok, SaveSettles(k, ok)
    PROVE  GeyserInv' /\ (stored'.slot < stored.slot => overlap)
<1>1. /\ sub[k] \in SubStates /\ Sound(sub[k], tip, Prompt, Accounted) /\ OneLoopAhead
      /\ stored.slot \in Nat /\ sub[k].at = "save" /\ DrainOn(k, sub[k], {})
      /\ UNCHANGED <<chainVars, opened>>
  BY GeyserFacts DEF GeyserInv, SaveSettles
<1>2. /\ Loose(sub[k], tip, Prompt, Accounted) /\ sub[k].lastSlot >= 0 /\ sub[k].lastSlot <= tip
      /\ \A n \in Prompt : n <= sub[k].lastSlot => n \in Accounted
  BY <1>1 DEF Sound, Loose, LoopSound, SeenIsAccounted
<1>3. sub[k].lastSlot \in 0..MaxTip /\ sub[k].count \in Nat
  BY <1>1, <1>2, GeyserAssumption DEF SubStates
<1>4. Busy(k)
  BY <1>1 DEF Busy, Running
<1>5. stored' = stored \/ stored' = [slot |-> sub[k].lastSlot, count |-> sub[k].count]
  BY DEF SaveSettles
<1>6. stored' = stored
        \/ /\ stored' \in [slot : 0..MaxTip, count : Nat] /\ stored'.slot = sub[k].lastSlot
           /\ stored'.slot <= tip
           /\ \A n \in Prompt : n <= stored'.slot => n \in Accounted
  BY <1>2, <1>3, <1>5
<1>7. Ahead(sub[k], stored.slot) => Ahead(sub[k], stored'.slot) /\ stored'.slot >= stored.slot
  BY <1>1, <1>2, <1>3, <1>6 DEF Ahead
<1>8. GeyserInv'
  BY <1>1, <1>2, <1>4, <1>6, <1>7, GoesOnKeeps
<1>9. ~overlap => Ahead(sub[k], stored.slot)
  BY <1>1, <1>4 DEF OneLoopAhead
<1> QED
  BY <1>1, <1>3, <1>6, <1>7, <1>8, <1>9

(* The checkpoint is loaded, before the first slot or after it.            *)
LEMMA LoadKeeps ==
    ASSUME GeyserInv, NEW k \in Subs, NEW ok, LoadSettles(k, ok)
    PROVE  GeyserInv'
<1>1. /\ sub[k] \in SubStates /\ Sound(sub[k], tip, Prompt, Accounted) /\ CheckpointIsHonest
      /\ stored \in [slot : 0..MaxTip, count : Nat] /\ stored.slot \in Nat /\ stored.slot <= tip
      /\ UNCHANGED <<chainVars, opened, stored, delivered, excused>>
  BY GeyserFacts DEF GeyserInv, LoadSettles
<1>2. PICK s : s = sub[k]
  OBVIOUS
<1>3. PICK r : r = IF ok /\ stored.slot > 0 /\ s.lastSlot < 0
                   THEN [s EXCEPT !.loading = FALSE, !.lastSlot = stored.slot, !.count = stored.count]
                   ELSE [s EXCEPT !.loading = FALSE]
  OBVIOUS
<1>4. sub' = [sub EXCEPT ![k] = r]
  <2>1. sub \in [Subs -> SubStates]
    BY GeyserFacts
  <2> QED
    BY <1>2, <1>3, <2>1 DEF LoadSettles
<1>5. s \in SubStates /\ stored.slot \in -1..MaxTip /\ stored.count \in Nat /\ s.lastSlot \in Int
  BY <1>1, <1>2 DEF SubStates
<1>6. /\ r \in SubStates /\ r.queue = s.queue /\ r.open = s.open /\ r.at = s.at
      /\ r.hand = s.hand /\ r.todo = s.todo
      /\ r.lastSlot = s.lastSlot \/ (s.lastSlot < 0 /\ r.lastSlot = stored.slot)
  <2>1. CASE ok /\ stored.slot > 0 /\ s.lastSlot < 0
    <3>1. PICK o : o = stored
      OBVIOUS
    <3>2. /\ r = [s EXCEPT !.loading = FALSE, !.lastSlot = o.slot, !.count = o.count]
          /\ s \in SubStates /\ o.slot \in -1..MaxTip /\ o.count \in Nat
      BY <1>3, <1>5, <2>1, <3>1
    <3>3. /\ r \in SubStates /\ r.queue = s.queue /\ r.open = s.open /\ r.at = s.at
          /\ r.hand = s.hand /\ r.todo = s.todo /\ r.lastSlot = o.slot
      BY ONLY <3>2 DEF SubStates
    <3> QED
      BY <2>1, <3>1, <3>3
  <2>2. CASE ~(ok /\ stored.slot > 0 /\ s.lastSlot < 0)
    <3>1. r = [s EXCEPT !.loading = FALSE] /\ s \in SubStates
      BY <1>3, <1>5, <2>2
    <3>2. /\ r \in SubStates /\ r.queue = s.queue /\ r.open = s.open /\ r.at = s.at
          /\ r.hand = s.hand /\ r.todo = s.todo /\ r.lastSlot = s.lastSlot
      BY ONLY <3>1 DEF SubStates
    <3> QED
      BY <3>2
  <2> QED
    BY <2>1, <2>2
<1>7. Accounted' = Accounted
  BY <1>1 DEF Accounted
<1>8. Sound(r, tip, Prompt, Accounted')
  <2>0. /\ SeenIsAccounted(s, tip, Prompt, Accounted) /\ GapIsOnTheWay(s, tip, Prompt, Accounted)
        /\ StatusComesAfter(s, tip, Prompt, Accounted) /\ LoopSound(s)
        /\ Len(s.queue) <= QueueCapacity /\ (s.open \/ s.queue = <<>>)
    BY <1>1, <1>2 DEF Sound, Loose
  <2>1. SeenIsAccounted(r, tip, Prompt, Accounted')
    BY <1>1, <1>6, <1>7, <2>0 DEF SeenIsAccounted, CheckpointIsHonest, Accounted
  <2>2. GapIsOnTheWay(r, tip, Prompt, Accounted') /\ LoopSound(r)
    BY <1>5, <1>6, <1>7, <2>0 DEF GapIsOnTheWay, LoopSound
  <2>3. StatusComesAfter(r, tip, Prompt, Accounted')
    BY <1>6, <1>7, <2>0 DEF StatusComesAfter, Before
  <2> QED
    BY <1>6, <2>0, <2>1, <2>2, <2>3 DEF Sound, Loose
<1>9. /\ Ahead(s, stored.slot) => Ahead(r, stored.slot)
      /\ r.open \/ r.at \notin {"idle", "stopped"} => Busy(k)
  BY <1>1, <1>2, <1>6 DEF Ahead, Busy, Running
<1>10. UNCHANGED <<tip, txs, late, unsent, overlap, opened>> /\ gone \subseteq gone'
  BY <1>1, ChainStands
<1> QED
  BY <1>1, <1>2, <1>4, <1>6, <1>7, <1>8, <1>9, <1>10, OneSubKeeps

(* A subscription is closed: the loop keeps the update in hand only.       *)
LEMMA CloseKeeps ==
    ASSUME GeyserInv, NEW k \in Subs, CloseSub(k)
    PROVE  GeyserInv'
<1>1. /\ sub[k] \in SubStates /\ Sound(sub[k], tip, Prompt, Accounted) /\ sub[k].open
      /\ tip \in Nat /\ Prompt \in SUBSET (1..MaxTip)
      /\ gone' = gone \cup {n \in late : Queued(k, n)}
      /\ UNCHANGED <<tip, txs, late, unsent, overlap, opened, stored, delivered, excused>>
  BY GeyserFacts DEF GeyserInv, CloseSub
<1>2. PICK s \in SubStates : s = sub[k]
  BY <1>1
<1>3. PICK r : r = IF Running(k) THEN [s EXCEPT !.open = FALSE, !.queue = <<>>] ELSE NoSub
  OBVIOUS
<1>4. sub' = [sub EXCEPT ![k] = r]
  BY <1>2, <1>3, GeyserFacts DEF CloseSub
<1>5. Accounted' = Accounted /\ gone \subseteq gone'
  BY <1>1 DEF Accounted
<1>6. /\ r \in SubStates /\ Sound(r, tip, Prompt, Accounted') /\ ~r.open
      /\ Ahead(s, stored.slot) => Ahead(r, stored.slot)
  <2>1. CASE Running(k)
    <3>1. /\ r \in SubStates /\ r.queue = <<>> /\ r.at = s.at /\ r.open = FALSE
          /\ r.hand = s.hand /\ r.todo = s.todo /\ r.lastSlot = s.lastSlot
      <4>1. r = [s EXCEPT !.open = FALSE, !.queue = <<>>] /\ <<>> \in Seq(Updates)
        BY <1>3, <2>1
      <4> QED
        BY ONLY <1>2, <4>1 DEF SubStates
    <3>2. Len(r.queue) = 0 /\ 1..Len(r.queue) = {} /\ Len(r.queue) <= QueueCapacity
      BY <3>1, GeyserAssumption
    <3>3. SeenIsAccounted(s, tip, Prompt, Accounted) /\ GapIsOnTheWay(s, tip, Prompt, Accounted)
          /\ LoopSound(s)
      BY <1>1, <1>2 DEF Sound, Loose
    <3>4. SeenIsAccounted(r, tip, Prompt, Accounted) /\ GapIsOnTheWay(r, tip, Prompt, Accounted)
      BY <3>1, <3>3 DEF SeenIsAccounted, GapIsOnTheWay
    <3>5. StatusComesAfter(r, tip, Prompt, Accounted) /\ LoopSound(r)
      BY <3>1, <3>2, <3>3 DEF StatusComesAfter, LoopSound
    <3>6. Ahead(s, stored.slot) => Ahead(r, stored.slot)
      BY <3>1, <3>2 DEF Ahead
    <3> QED
      BY <1>5, <3>1, <3>2, <3>4, <3>5, <3>6 DEF Sound, Loose
  <2>2. CASE ~Running(k)
    <3>1. r = NoSub /\ NoSub.open = FALSE /\ NoSub.lastSlot = -1 /\ NoSub.queue = <<>>
      BY <1>3, <2>2 DEF NoSub
    <3>2. Ahead(NoSub, stored.slot)
      BY <3>1 DEF Ahead
    <3> QED
      BY <1>1, <3>1, <3>2, NoSubIsSound
  <2> QED
    BY <2>1, <2>2
<1>7. Busy(k)
  BY <1>1 DEF Busy
<1>8. \A n \in late : Waits(sub[k].queue, n) => n \in gone'
  BY <1>1, QueuedWaits
<1> QED
  BY <1>1, <1>2, <1>4, <1>5, <1>6, <1>7, <1>8, OneSubKeeps

(* A listener throws: the loop is gone, what it had seen is still seen.    *)
LEMMA ListenerThrowsKeeps ==
    ASSUME GeyserInv, NEW k \in Subs, ListenerThrows(k)
    PROVE  GeyserInv'
<1>1. /\ sub[k] \in SubStates /\ Sound(sub[k], tip, Prompt, Accounted) /\ Running(k)
      /\ sub \in [Subs -> SubStates]
      /\ UNCHANGED <<chainVars, opened, stored, delivered, excused>>
  BY GeyserFacts DEF GeyserInv, ListenerThrows
<1>2. PICK s \in SubStates : s = sub[k]
  BY <1>1
<1>3. PICK r : r = [s EXCEPT !.at = "stopped", !.todo = {}, !.hand = NoSub.hand]
  OBVIOUS
<1>4. /\ r \in SubStates /\ r.queue = s.queue /\ r.at = "stopped" /\ r.open = s.open
      /\ r.lastSlot = s.lastSlot
  <2>1. NoSub.hand \in [kind : {"tx", "slot"}, slot : 0..MaxTip]
    BY GeyserAssumption DEF NoSub
  <2> QED
    BY ONLY <1>2, <1>3, <2>1 DEF SubStates
<1>5. sub' = [sub EXCEPT ![k] = r]
  BY <1>1, <1>2, <1>3 DEF ListenerThrows
<1>6. Accounted' = Accounted
  BY <1>1 DEF Accounted
<1>7. Sound(r, tip, Prompt, Accounted') /\ (Ahead(s, stored.slot) => Ahead(r, stored.slot))
  <2>1. GapIsOnTheWay(r, tip, Prompt, Accounted) /\ LoopSound(r)
    BY <1>4 DEF GapIsOnTheWay, LoopSound
  <2>2. /\ SeenIsAccounted(s, tip, Prompt, Accounted) /\ StatusComesAfter(s, tip, Prompt, Accounted)
        /\ Len(s.queue) <= QueueCapacity /\ (s.open \/ s.queue = <<>>)
    BY <1>1, <1>2 DEF Sound, Loose
  <2>3. SeenIsAccounted(r, tip, Prompt, Accounted) /\ StatusComesAfter(r, tip, Prompt, Accounted)
    BY <1>4, <2>2 DEF SeenIsAccounted, StatusComesAfter, Before
  <2>4. Ahead(s, stored.slot) => Ahead(r, stored.slot)
    BY <1>4 DEF Ahead
  <2> QED
    BY <1>4, <1>6, <2>1, <2>2, <2>3, <2>4 DEF Sound, Loose
<1>8. Busy(k) /\ UNCHANGED <<tip, txs, late, unsent, overlap, opened>> /\ gone \subseteq gone'
  BY <1>1, ChainStands DEF Busy
<1> QED
  BY <1>1, <1>2, <1>4, <1>5, <1>7, <1>8, OneSubKeeps

(* A subscription is opened when no other is open.                         *)
LEMMA SubscribeKeeps ==
    ASSUME GeyserInv, Subscribe
    PROVE  GeyserInv'
<1>0. /\ GeyserTypeOK /\ CheckpointIsHonest /\ OneAlive /\ OneLoopAhead /\ LateIsKnown
      /\ \A j \in Subs : Sound(sub[j], tip, Prompt, Accounted)
      /\ \A n \in txs : n <= tip + 1
      /\ stored.slot <= tip
  BY DEF GeyserInv
<1>1. /\ tip \in Nat /\ Prompt \in SUBSET (1..MaxTip) /\ Prompt \in SUBSET Nat
      /\ sub \in [Subs -> SubStates]
      /\ \A j \in Subs : sub[j].open \/ sub[j].queue = <<>>
  BY GeyserFacts
<1>2. PICK k \in Subs : k = opened + 1
  BY DEF Subscribe
<1>3. PICK r : r = [NoSub EXCEPT !.open = TRUE, !.loading = TRUE]
  OBVIOUS
<1>4. /\ r \in SubStates /\ r.queue = <<>> /\ r.open /\ r.at = "idle" /\ r.lastSlot = -1
      /\ Len(r.queue) = 0 /\ 1..Len(r.queue) = {}
  <2>1. NoSub \in SubStates
    BY <1>1, NoSubIsSound
  <2>2. /\ r \in SubStates /\ r.queue = NoSub.queue /\ r.open /\ r.at = NoSub.at
        /\ r.lastSlot = NoSub.lastSlot
    BY <1>3, <2>1 DEF SubStates
  <2>3. NoSub.queue = <<>> /\ NoSub.at = "idle" /\ NoSub.lastSlot = -1
    BY DEF NoSub
  <2> QED
    BY <2>2, <2>3
<1>5. /\ sub' = [sub EXCEPT ![k] = r] /\ opened' \in Subs
      /\ excused' = excused \cup {n \in Prompt : n > tip}
      /\ UNCHANGED <<tip, txs, late, unsent, gone, stored, delivered>> /\ Prompt' = Prompt
      /\ \A j \in Subs : ~sub[j].open
      /\ overlap' = (overlap \/ \E j \in Subs : Running(j))
  BY <1>2, <1>3 DEF Subscribe, Alive, Prompt
<1>6. Accounted \subseteq Accounted' /\ \A n \in Prompt : n > tip => n \in Accounted'
  BY <1>5 DEF Accounted
<1>7. /\ sub' \in [Subs -> SubStates] /\ sub'[k] = r
      /\ \A j \in Subs : j # k => sub'[j] = sub[j]
  BY <1>1, <1>4, <1>5
<1>8. \A j \in Subs : Sound(sub'[j], tip, Prompt, Accounted')
  <2>1. Sound(r, tip, Prompt, Accounted')
    <3>1. SeenIsAccounted(r, tip, Prompt, Accounted')
      <4>1. r.lastSlot = -1 /\ tip \in Nat /\ Prompt \in SUBSET Nat
        BY <1>1, <1>4
      <4>2. r.lastSlot <= tip /\ \A n \in Prompt : ~(n <= r.lastSlot)
        BY ONLY <4>1
      <4> QED
        BY <4>2 DEF SeenIsAccounted
    <3>2. GapIsOnTheWay(r, tip, Prompt, Accounted') /\ LoopSound(r)
      BY <1>4 DEF GapIsOnTheWay, LoopSound
    <3>3. StatusComesAfter(r, tip, Prompt, Accounted')
      <4>1. tip + 1 \in Prompt => tip + 1 \in Accounted'
        BY <1>1, <1>6
      <4> QED
        BY <1>4, <4>1 DEF StatusComesAfter, Before
    <3> QED
      BY <1>4, <3>1, <3>2, <3>3, GeyserAssumption DEF Sound, Loose
  <2>2. ASSUME NEW j \in Subs, j # k PROVE Sound(sub[j], tip, Prompt, Accounted')
    <3>1. Sound(sub[j], tip, Prompt, Accounted) /\ tip <= tip /\ \A n \in Prompt \ Prompt : n > tip
      BY <1>0, <1>1
    <3> QED
      BY <1>1, <1>6, <3>1, SoundGrows
  <2> QED
    BY <1>7, <2>1, <2>2
<1>9. GeyserTypeOK'
  <2>1. \A j \in Subs : Len(sub'[j].queue) <= QueueCapacity
    BY <1>8 DEF Sound, Loose
  <2>2. opened' \in 0..NSubs /\ overlap' \in BOOLEAN
    BY <1>0, <1>5, GeyserAssumption DEF Subs, GeyserTypeOK
  <2> QED
    BY <1>0, <1>5, <1>7, <2>1, <2>2 DEF GeyserTypeOK
<1>10. CheckpointIsHonest'
  BY <1>0, <1>5, <1>6 DEF CheckpointIsHonest, Accounted
<1>11. \A j \in Subs : sub'[j].open => j = k
  BY <1>5, <1>7
<1>12. OneLoopAhead'
  <2>1. SUFFICES ASSUME ~overlap'
                 PROVE  /\ \A i, j \in Subs : Busy(i)' /\ Busy(j)' => i = j
                        /\ \A j \in Subs : Busy(j)' => Ahead(sub'[j], stored'.slot)
    BY DEF OneLoopAhead
  <2>2. \A j \in Subs : Busy(j)' => j = k
    BY <1>5, <1>7, <2>1 DEF Busy, Running
  <2>3. Ahead(r, stored'.slot)
    BY <1>4 DEF Ahead
  <2> QED
    BY <1>7, <2>2, <2>3
<1>13. LateIsKnown'
  <2>1. \A j \in Subs : \A n : ~Waits(sub[j].queue, n)
    BY <1>1, <1>5 DEF Waits
  <2>2. \A n \in late \ unsent : n \in Accounted \cup gone
    BY <1>0, <2>1 DEF LateIsKnown
  <2> QED
    BY <1>5, <1>6, <2>2 DEF LateIsKnown
<1> QED
  BY <1>0, <1>5, <1>8, <1>9, <1>10, <1>11, <1>12, <1>13 DEF GeyserInv, OneAlive

(* A crash leaves no subscription.                                         *)
LEMMA CrashKeeps ==
    ASSUME GeyserInv, CrashAndRestart
    PROVE  GeyserInv'
<1>0. /\ GeyserTypeOK /\ CheckpointIsHonest /\ LateIsKnown
      /\ \A n \in txs : n <= tip + 1
      /\ stored.slot <= tip /\ tip \in Nat /\ Prompt \in SUBSET (1..MaxTip)
      /\ \A k \in Subs : sub[k] \in SubStates
  BY GeyserFacts DEF GeyserInv
<1>1. /\ sub' = [k \in Subs |-> NoSub]
      /\ UNCHANGED <<tip, txs, late, unsent, opened, stored, delivered, excused, overlap>>
      /\ gone' = gone \cup {n \in late : \E k \in Subs : Queued(k, n)}
      /\ Prompt' = Prompt
  BY DEF CrashAndRestart, Prompt
<1>2. /\ \A k \in Subs : sub'[k] = NoSub
      /\ NoSub.open = FALSE /\ NoSub.at = "idle"
  BY <1>1 DEF NoSub
<1>3. NoSub \in SubStates /\ Sound(NoSub, tip, Prompt, Accounted')
  BY <1>0, NoSubIsSound
<1>4. GeyserTypeOK'
  BY <1>0, <1>1, <1>2, <1>3 DEF GeyserTypeOK, Sound, Loose
<1>5. CheckpointIsHonest'
  BY <1>0, <1>1 DEF CheckpointIsHonest
<1>6. OneAlive' /\ OneLoopAhead'
  BY <1>2 DEF OneAlive, OneLoopAhead, Busy, Running
<1>7. LateIsKnown'
  <2>1. Accounted' = Accounted
    BY <1>1 DEF Accounted
  <2>2. \A k \in Subs, n \in late : Waits(sub[k].queue, n) => n \in gone'
    BY <1>0, <1>1, QueuedWaits
  <2>3. \A n \in late \ unsent : n \in Accounted \cup gone'
    BY <1>0, <1>1, <2>2 DEF LateIsKnown
  <2> QED
    BY <1>1, <2>1, <2>3 DEF LateIsKnown
<1> QED
  BY <1>0, <1>1, <1>2, <1>3, <1>4, <1>5, <1>6, <1>7 DEF GeyserInv

(* The chain grows, and an open subscription hears of it.                  *)
LEMMA ChainKeeps ==
    ASSUME GeyserInv, tip' \in 0..MaxTip, tip <= tip', Prompt \subseteq Prompt',
           \A n \in Prompt' \ Prompt : n > tip,
           txs' \in SUBSET (1..MaxTip), \A n \in txs' : n <= tip' + 1,
           late' \subseteq txs', unsent' \subseteq late', LateIsKnown',
           sub' \in [Subs -> SubStates],
           \A k \in Subs : Sound(sub'[k], tip', Prompt', Accounted'),
           \A k \in Subs : (sub'[k].open => sub[k].open) /\ (Busy(k)' => Busy(k)),
           \A k \in Subs : Busy(k) /\ Ahead(sub[k], stored.slot) => Ahead(sub'[k], stored.slot),
           UNCHANGED <<opened, stored, overlap>>,
           delivered \subseteq delivered', excused \subseteq excused'
    PROVE  GeyserInv'
<1>0. /\ GeyserTypeOK /\ CheckpointIsHonest /\ OneAlive /\ OneLoopAhead
      /\ stored.slot <= tip /\ tip \in Nat /\ stored.slot \in Nat /\ tip' \in Nat
  BY GeyserFacts, GeyserAssumption DEF GeyserInv
<1>a. Prompt' \in SUBSET Nat
  BY DEF Prompt
<1>1. GeyserTypeOK'
  BY <1>0 DEF GeyserTypeOK, Sound, Loose
<1>2. CheckpointIsHonest' /\ stored'.slot <= tip'
  <2>1. stored'.slot <= tip'
    BY <1>0
  <2>2. ASSUME NEW n \in Prompt', n <= stored'.slot PROVE n \in Accounted'
    <3>1. n \in Prompt
      BY <1>0, <1>a, <2>2
    <3>2. n \in Accounted
      BY <1>0, <2>2, <3>1 DEF CheckpointIsHonest, Accounted
    <3> QED
      BY <3>2 DEF Accounted
  <2> QED
    BY <2>1, <2>2 DEF CheckpointIsHonest, Accounted
<1>3. OneAlive'
  BY <1>0 DEF OneAlive
<1>4. OneLoopAhead'
  BY <1>0 DEF OneLoopAhead
<1> QED
  BY <1>1, <1>2, <1>3, <1>4 DEF GeyserInv

(* The chain grows without the stream's hearing of it.                     *)
LEMMA UnheardKeeps ==
    ASSUME GeyserInv, tip' \in 0..MaxTip, tip <= tip', Prompt \subseteq Prompt',
           \A n \in Prompt' \ Prompt : n > tip,
           txs' \in SUBSET (1..MaxTip), \A n \in txs' : n <= tip' + 1,
           late' \subseteq txs', unsent' \subseteq late',
           \A n \in late' \ unsent' : n \in late \ unsent \/ n \in gone', gone \subseteq gone',
           \A k \in Subs :
              sub[k].open => Prompt' = Prompt /\ (tip' = tip \/ tip' + 1 \notin Prompt'),
           UNCHANGED <<sub, opened, stored, delivered, excused, overlap>>
    PROVE  GeyserInv'
<1>1. /\ \A j \in Subs : Sound(sub[j], tip, Prompt, Accounted)
      /\ sub \in [Subs -> SubStates] /\ LateIsKnown
      /\ tip \in Nat /\ tip' \in Nat /\ Prompt \in SUBSET Nat
  BY GeyserFacts, GeyserAssumption DEF GeyserInv
<1>2. Prompt' \in SUBSET Nat
  BY DEF Prompt
<1>3. Accounted' = Accounted
  BY DEF Accounted
<1>4. \A j \in Subs : Sound(sub'[j], tip', Prompt', Accounted')
  <2>1. PICK h \in Nat, g \in Nat, T \in SUBSET Nat, U \in SUBSET Nat :
          h = tip /\ g = tip' /\ T = Prompt /\ U = Prompt'
    BY <1>1, <1>2
  <2>2. ASSUME NEW j \in Subs PROVE Sound(sub[j], g, U, Accounted)
    <3>1. /\ Sound(sub[j], h, T, Accounted) /\ h <= g /\ T \subseteq U /\ \A n \in U \ T : n > h
          /\ sub[j].open => U = T /\ (g = h \/ g + 1 \notin U)
      BY <1>1, <2>1
    <3> QED
      BY ONLY <2>1, <3>1, SoundGrows
  <2> QED
    BY <1>3, <2>1, <2>2
<1>5. \A j \in Subs : (sub'[j].open => sub[j].open) /\ (Busy(j)' => Busy(j))
  BY DEF Busy, Running
<1>6. LateIsKnown'
  BY <1>1, <1>3 DEF LateIsKnown
<1> QED
  BY <1>1, <1>4, <1>5, <1>6, ChainKeeps

(* An update arrives at the open subscription.                             *)
LEMMA ReceiveKeeps ==
    ASSUME GeyserInv, NEW u \in Updates, Receive(u), Alive # {},
           \/ u = TxUpdate(tip + 1) /\ tip' = tip /\ Prompt' = Prompt \cup {tip + 1}
           \/ u.kind = "tx" /\ tip' = tip /\ Prompt' = Prompt
           \/ u.kind = "slot" /\ u.slot = tip + 1 /\ tip' = tip + 1 /\ Prompt' = Prompt,
           tip' \in 0..MaxTip, txs \subseteq txs', txs' \in SUBSET (1..MaxTip),
           \A n \in txs' : n <= tip' + 1,
           late' \subseteq txs', unsent' \subseteq late', gone \subseteq gone',
           \A n \in late' \ unsent' : n \in late \ unsent \/ u = TxUpdate(n),
           UNCHANGED <<opened, stored, overlap>>
    PROVE  GeyserInv'
<1>0. /\ \A n \in txs : n <= tip + 1
      /\ \A j \in Subs : Sound(sub[j], tip, Prompt, Accounted)
      /\ OneAlive /\ stored.slot <= tip /\ LateIsKnown
  BY DEF GeyserInv
<1>1. /\ tip \in 0..MaxTip /\ tip \in Nat /\ Prompt \in SUBSET (1..MaxTip) /\ Prompt \in SUBSET Nat
      /\ txs \in SUBSET (1..MaxTip) /\ Prompt \subseteq txs
      /\ sub \in [Subs -> SubStates] /\ stored.slot \in Nat
  BY GeyserFacts
<1>2. /\ tip' \in Nat /\ tip <= tip' /\ Prompt \subseteq Prompt'
      /\ Prompt' \in SUBSET (1..MaxTip) /\ Prompt' \in SUBSET Nat
      /\ \A n \in Prompt' \ Prompt : n > tip
      /\ \A n \in Prompt' \ txs : n > tip'
  <2>1. MaxTip \in Nat /\ Prompt' \in SUBSET (1..MaxTip) /\ tip' \in Nat
    BY GeyserAssumption DEF Prompt
  <2>2. Prompt' \in SUBSET Nat
    BY <2>1
  <2>3. tip <= tip' /\ Prompt \subseteq Prompt' /\ \A n \in Prompt' \ Prompt : n > tip
    BY <1>1, SMT
  <2>4. ASSUME NEW n \in Prompt' \ txs PROVE n > tip'
    <3>1. n \notin Prompt
      BY <1>1, <2>4
    <3>2. n = tip + 1 /\ tip' = tip
      BY <2>4, <3>1
    <3> QED
      BY <1>1, <3>2
  <2> QED
    BY <2>1, <2>2, <2>3, <2>4
<1>3. ASSUME NEW j \in Subs, ~sub[j].open, Accounted \subseteq Accounted'
      PROVE  Sound(sub[j], tip', Prompt', Accounted')
  <2>1. PICK h \in Nat, g \in Nat, T \in SUBSET Nat, U \in SUBSET Nat :
          h = tip /\ g = tip' /\ T = Prompt /\ U = Prompt'
    BY <1>1, <1>2
  <2>2. /\ Sound(sub[j], h, T, Accounted) /\ h <= g /\ T \subseteq U /\ \A n \in U \ T : n > h
        /\ sub[j].open => U = T /\ (g = h \/ g + 1 \notin U)
    BY <1>0, <1>2, <1>3, <2>1
  <2>3. Sound(sub[j], g, U, Accounted')
    BY ONLY <1>3, <2>1, <2>2, SoundGrows
  <2> QED
    BY <2>1, <2>3
<1>4. PICK k \in Subs : sub[k].open /\ k = CHOOSE j \in Alive : TRUE
  BY DEF Alive
<1>5. PICK o \in SubStates : o = sub[k]
  BY <1>1
<1>6. PICK q : q = enqueue(o.queue, u)
  OBVIOUS
<1>7. PICK s : s = [o EXCEPT !.queue = q]
  OBVIOUS
<1>8. \A j \in Subs : sub[j].open => j = k
  BY <1>0, <1>4 DEF OneAlive
<1>9. /\ Sound(o, tip, Prompt, Accounted) /\ o.open
      /\ Loose(o, tip, Prompt, Accounted) /\ Len(o.queue) <= QueueCapacity
      /\ o.queue \in Seq(Updates) /\ Len(o.queue) \in Nat
      /\ \A i \in 1..Len(o.queue) : o.queue[i] \in Updates /\ o.queue[i].slot \in 1..MaxTip
  BY <1>0, <1>4, <1>5, SubFields, ZenonT(30) DEF Sound, Loose
<1>10. q \in Seq(Updates)
  <2>1. Len(o.queue) >= QueueCapacity => Tail(o.queue) \in Seq(Updates)
    BY <1>9, GeyserAssumption
  <2> QED
    BY <1>6, <1>9, <2>1 DEF enqueue
<1>11. /\ s \in SubStates /\ s.queue = q /\ s.open = o.open /\ s.at = o.at
       /\ s.lastSlot = o.lastSlot /\ s.hand = o.hand /\ s.todo = o.todo
  BY ONLY <1>5, <1>7, <1>10 DEF SubStates
<1>12. PICK D : D = DroppedTx(k)
  OBVIOUS
<1>13. D = HeadDropped(o.queue)
  BY <1>5, <1>12 DEF DroppedTx, HeadDropped
<1>14. PICK h, g, T, U, A, B :
         /\ h \in Nat /\ g \in Nat /\ T \in SUBSET Nat /\ U \in SUBSET (1..MaxTip)
         /\ h = tip /\ g = tip' /\ T = Prompt /\ U = Prompt' /\ A = Accounted
         /\ B = Accounted \cup D
  BY <1>1, <1>2
<1>15. U \in SUBSET Nat /\ g \in 0..MaxTip
  BY <1>2, <1>14
<1>16. /\ Len(s.queue) <= QueueCapacity
       /\ \A i \in 1..Len(s.queue) :
             s.queue[i] = u \/ \E j \in 1..Len(o.queue) : s.queue[i] = o.queue[j]
       /\ StatusComesAfter(s, g, U, B)
       /\ s.queue[Len(s.queue)] = u /\ Len(s.queue) \in Nat \ {0}
       /\ \A n : Waits(o.queue, n) => Waits(s.queue, n) \/ n \in D
  <2>1. /\ o \in SubStates /\ s \in SubStates /\ o.open /\ s.open
        /\ Len(o.queue) <= QueueCapacity /\ s.queue = enqueue(o.queue, u)
    BY <1>5, <1>6, <1>9, <1>11
  <2>2. StatusComesAfter(o, h, T, A) /\ \A n \in T : n <= h + 1
    BY <1>0, <1>1, <1>9, <1>14 DEF Loose
  <2>3. Arrives(u, h, g, T, U)
    BY <1>14 DEF Arrives
  <2>4. h \in Nat /\ g \in Nat /\ T \in SUBSET Nat /\ U \in SUBSET Nat
    BY <1>14, <1>15
  <2>5. /\ Len(s.queue) <= QueueCapacity
        /\ \A i \in 1..Len(s.queue) :
              s.queue[i] = u \/ \E j \in 1..Len(o.queue) : s.queue[i] = o.queue[j]
        /\ StatusComesAfter(s, g, U, A \cup HeadDropped(o.queue))
        /\ s.queue[Len(s.queue)] = u /\ Len(s.queue) \in Nat \ {0}
        /\ \A n : Waits(o.queue, n) => Waits(s.queue, n) \/ n \in HeadDropped(o.queue)
    BY ONLY <2>1, <2>2, <2>3, <2>4, u \in Updates, EnqueueComesAfter
  <2> QED
    BY <1>13, <1>14, <2>5
<1>17. Loose(s, g, U, B)
  <2>1. /\ SeenIsAccounted(o, h, T, A) /\ GapIsOnTheWay(o, h, T, A)
        /\ o.lastSlot \in Int /\ o.hand.slot \in Int
    BY <1>9, <1>14 DEF Loose, SubStates
  <2>2. h <= g /\ T \subseteq U /\ (\A n \in U \ T : n > h) /\ A \subseteq B
    BY <1>2, <1>14
  <2>3. SeenIsAccounted(s, g, U, B)
    BY <1>11, <1>14, <1>15, <2>1, <2>2 DEF SeenIsAccounted
  <2>4. GapIsOnTheWay(s, g, U, B)
    BY <1>11, <1>14, <1>15, <2>1, <2>2 DEF GapIsOnTheWay
  <2> QED
    BY <1>9, <1>11, <1>16, <2>3, <2>4 DEF Loose
<1>18. Ahead(o, stored.slot) => Ahead(s, stored.slot)
  <2>1. u.kind = "slot" => u.slot >= stored.slot
    BY <1>0, <1>1 DEF TxUpdate
  <2> QED
    BY <1>9, <1>11, <1>16, <2>1 DEF Ahead
<1>19. \A n : u = TxUpdate(n) => Waits(s.queue, n)
  <2>1. Len(s.queue) \in 1..Len(s.queue) /\ s.queue[Len(s.queue)] = u
    BY <1>16
  <2> QED
    BY <2>1 DEF Waits
<1>20. PICK r \in SubStates :
         /\ sub' = [sub EXCEPT ![k] = r] /\ Sound(r, g, U, Accounted') /\ r.open
         /\ delivered \subseteq delivered' /\ excused \subseteq excused' /\ D \subseteq Accounted'
         /\ Ahead(o, stored.slot) => Ahead(r, stored.slot)
         /\ \A n : Waits(s.queue, n) => Waits(r.queue, n) \/ n \in Accounted'
  <2>1. IF ~Running(k) THEN DrainOn(k, s, D)
        ELSE sub' = [sub EXCEPT ![k] = s] /\ excused' = excused \cup D /\ UNCHANGED delivered
    BY <1>4, <1>5, <1>6, <1>7, <1>12 DEF Receive
  <2>2. CASE ~Running(k)
    <3>1. /\ sub \in [Subs -> SubStates] /\ txs \in SUBSET (1..MaxTip)
          /\ \A n \in U \ txs : n > g
      BY <1>1, <1>2, <1>14
    <3>2. DrainOn(k, s, D) /\ B = Accounted \cup D /\ stored.slot \in Int
      BY <1>1, <1>14, <2>1, <2>2
    <3>3. PICK r \in SubStates : GoesOn(k, s, r, g, U, B)
      BY ONLY <1>14, <1>15, <1>17, <3>1, <3>2, k \in Subs, DrainKeeps
    <3>4. r.open /\ (Ahead(o, stored.slot) => Ahead(r, stored.slot)) /\ D \subseteq Accounted'
      BY <1>9, <1>11, <1>18, <3>2, <3>3 DEF GoesOn
    <3> QED
      BY <3>3, <3>4 DEF GoesOn
  <2>3. CASE Running(k)
    <3>1. /\ sub' = [sub EXCEPT ![k] = s] /\ delivered' = delivered /\ excused' = excused \cup D
      BY <2>1, <2>3
    <3>2. Accounted' = B
      BY <1>14, <3>1 DEF Accounted
    <3>3. LoopSound(s)
      BY <1>5, <1>9, <1>11, <2>3 DEF Sound, LoopSound, Running
    <3>4. Sound(s, g, U, Accounted') /\ D \subseteq Accounted'
      BY <1>14, <1>17, <3>2, <3>3 DEF Sound
    <3> QED
      BY <1>9, <1>11, <1>18, <3>1, <3>4
  <2> QED
    BY <2>2, <2>3
<1>21. /\ sub' \in [Subs -> SubStates] /\ sub'[k] = r
       /\ \A j \in Subs : j # k => sub'[j] = sub[j]
  BY <1>1, <1>20
<1>22. Accounted \subseteq Accounted'
  BY <1>20 DEF Accounted
<1>23. \A j \in Subs : Sound(sub'[j], tip', Prompt', Accounted')
  BY <1>3, <1>8, <1>14, <1>20, <1>21, <1>22
<1>24. /\ \A j \in Subs : (sub'[j].open => sub[j].open) /\ (Busy(j)' => Busy(j))
       /\ \A j \in Subs : Busy(j) /\ Ahead(sub[j], stored.slot) => Ahead(sub'[j], stored.slot)
  BY <1>4, <1>5, <1>20, <1>21 DEF Busy, Running
<1>25. LateIsKnown'
  <2>1. ASSUME NEW n, Waits(s.queue, n)
        PROVE  n \in Accounted' \/ \E j \in Subs : Waits(sub'[j].queue, n)
    BY <1>20, <1>21, <2>1
  <2>2. ASSUME NEW n, NEW j \in Subs, Waits(sub[j].queue, n)
        PROVE  n \in Accounted' \/ \E i \in Subs : Waits(sub'[i].queue, n)
    <3>1. CASE j = k
      BY <1>5, <1>16, <1>20, <2>1, <2>2, <3>1
    <3>2. CASE j # k
      BY <1>21, <2>2, <3>2
    <3> QED
      BY <3>1, <3>2
  <2>3. ASSUME NEW n \in late' \ unsent'
        PROVE  n \in (Accounted \cup gone)' \/ \E j \in Subs : Waits(sub'[j].queue, n)
    <3>1. CASE u = TxUpdate(n)
      BY <1>19, <2>1, <3>1
    <3>2. CASE n \in late \ unsent
      <4>1. n \in Accounted \cup gone \/ \E j \in Subs : Waits(sub[j].queue, n)
        BY <1>0, <3>2 DEF LateIsKnown
      <4> QED
        BY <1>22, <2>2, <4>1
    <3> QED
      BY <2>3, <3>1, <3>2
  <2> QED
    BY <2>3 DEF LateIsKnown
<1> QED
  BY <1>2, <1>20, <1>21, <1>23, <1>24, <1>25, ChainKeeps

(* A slot without a block: no transaction is awaited in it.                *)
LEMMA SkipKeeps ==
    ASSUME GeyserInv, ChainSkips
    PROVE  GeyserInv'
<1>1. /\ tip \in 0..MaxTip /\ txs \in SUBSET (1..MaxTip) /\ Prompt \subseteq txs
      /\ \A n \in txs : n <= tip + 1
      /\ late \subseteq txs /\ unsent \subseteq late
  BY GeyserFacts
<1>2. /\ tip < MaxTip /\ tip + 1 \notin txs /\ tip' = tip + 1 /\ Prompt' = Prompt
      /\ UNCHANGED <<txs, late, unsent, sub, opened, stored, delivered, excused, gone, overlap>>
  BY DEF ChainSkips, Prompt
<1>3. /\ tip' \in 0..MaxTip /\ tip <= tip' /\ tip' + 1 \notin txs
      /\ \A n \in txs : n <= tip' + 1
  BY <1>1, <1>2, GeyserAssumption
<1> QED
  BY <1>1, <1>2, <1>3, UnheardKeeps

(* A transaction of the slot in the making, sent at once or to be sent.    *)
LEMMA TxKeeps ==
    ASSUME GeyserInv, ChainTx \/ ChainLateTx
    PROVE  GeyserInv'
<1>1. /\ tip \in 0..MaxTip /\ txs \in SUBSET (1..MaxTip) /\ Prompt \subseteq txs
      /\ \A n \in txs : n <= tip + 1
      /\ late \subseteq txs /\ unsent \subseteq late /\ tip < MaxTip /\ tip + 1 \notin txs
      /\ txs' = txs \cup {tip + 1} /\ UNCHANGED <<tip, opened, stored, overlap, gone>>
  BY GeyserFacts DEF ChainTx, ChainLateTx
<1>2. /\ tip + 1 \in 1..MaxTip /\ txs' \in SUBSET (1..MaxTip) /\ \A n \in txs' : n <= tip' + 1
      /\ tip' \in 0..MaxTip /\ tip <= tip' /\ tip + 1 > tip
  BY <1>1, GeyserAssumption
<1>3. CASE ChainTx
  <2>1. /\ UNCHANGED <<late, unsent>> /\ Receive(TxUpdate(tip + 1))
        /\ Prompt' = Prompt \cup {tip + 1}
    BY <1>1, <1>3 DEF ChainTx, TxUpdate, Prompt
  <2>2. TxUpdate(tip + 1) \in Updates
    BY <1>2 DEF Updates, TxUpdate
  <2>3. CASE Alive = {}
    <3>1. UNCHANGED <<sub, delivered, excused>> /\ \A k \in Subs : ~sub[k].open
      BY <2>1, <2>3 DEF Receive, Alive
    <3>2. Prompt \subseteq Prompt' /\ \A n \in Prompt' \ Prompt : n > tip
      BY <1>2, <2>1
    <3> QED
      BY <1>1, <1>2, <2>1, <3>1, <3>2, UnheardKeeps
  <2>4. CASE Alive # {}
    <3>1. PICK u \in Updates : u = TxUpdate(tip + 1)
      BY <2>2
    <3>2. /\ Receive(u) /\ tip' = tip /\ txs \subseteq txs'
          /\ late' \subseteq txs' /\ unsent' \subseteq late' /\ gone \subseteq gone'
          /\ \A n \in late' \ unsent' : n \in late \ unsent
      BY <1>1, <2>1, <3>1
    <3> QED
      BY <1>1, <1>2, <2>1, <2>4, <3>1, <3>2, ReceiveKeeps
  <2> QED
    BY <2>3, <2>4
<1>4. CASE ChainLateTx
  <2>1. /\ late' = late \cup {tip + 1} /\ unsent' = unsent \cup {tip + 1}
        /\ UNCHANGED <<sub, delivered, excused>> /\ Prompt' = Prompt
    BY <1>1, <1>4 DEF ChainLateTx, Prompt
  <2> QED
    BY <1>1, <1>2, <2>1, UnheardKeeps
<1> QED
  BY <1>3, <1>4

(* A late transaction is sent: it waits, is in hand, or has no stream.     *)
LEMMA SendLateKeeps ==
    ASSUME GeyserInv, NEW n \in unsent, SendLate(n)
    PROVE  GeyserInv'
<1>1. /\ tip \in 0..MaxTip /\ txs \in SUBSET (1..MaxTip) /\ \A m \in txs : m <= tip + 1
      /\ late \subseteq txs /\ unsent \subseteq late /\ unsent' = unsent \ {n}
      /\ Receive(TxUpdate(n)) /\ gone' = IF Alive = {} THEN gone \cup {n} ELSE gone
      /\ UNCHANGED <<tip, txs, late, opened, stored, overlap>> /\ Prompt' = Prompt
  BY GeyserFacts DEF SendLate, TxUpdate, Prompt
<1>2. TxUpdate(n) \in Updates
  BY <1>1 DEF Updates, TxUpdate
<1>3. tip <= tip'
  BY <1>1
<1>4. CASE Alive = {}
  <2>1. UNCHANGED <<sub, delivered, excused>>
    BY <1>1, <1>4 DEF Receive
  <2>2. \A m \in late' \ unsent' : m \in late \ unsent \/ m \in gone'
    BY <1>1, <1>4
  <2> QED
    BY <1>1, <1>3, <1>4, <2>1, <2>2, UnheardKeeps
<1>5. CASE Alive # {}
  <2>1. PICK u \in Updates : u = TxUpdate(n)
    BY <1>2
  <2>2. u.kind = "tx" /\ \A m \in late' \ unsent' : m \in late \ unsent \/ u = TxUpdate(m)
    BY <1>1, <2>1 DEF TxUpdate
  <2>3. Receive(u) /\ tip' = tip /\ tip' \in 0..MaxTip /\ txs \subseteq txs' /\ txs' \in SUBSET (1..MaxTip)
        /\ late' \subseteq txs' /\ unsent' \subseteq late' /\ gone \subseteq gone'
        /\ \A m \in txs' : m <= tip' + 1
    BY <1>1, <1>5, <2>1
  <2> QED
    BY <1>1, <1>5, <2>1, <2>2, <2>3, ReceiveKeeps
<1> QED
  BY <1>4, <1>5

(* The status of a slot.                                                   *)
LEMMA SlotKeeps ==
    ASSUME GeyserInv, ChainSlot
    PROVE  GeyserInv'
<1>1. /\ tip \in 0..MaxTip /\ txs \in SUBSET (1..MaxTip) /\ \A n \in txs : n <= tip + 1
      /\ late \subseteq txs /\ unsent \subseteq late /\ tip < MaxTip /\ tip' = tip + 1
      /\ UNCHANGED <<txs, late, unsent, opened, stored, overlap, gone>> /\ Prompt' = Prompt
  BY GeyserFacts DEF ChainSlot, Prompt
<1>2. /\ tip' \in 0..MaxTip /\ tip <= tip' /\ \A n \in txs' : n <= tip' + 1
      /\ [kind |-> "slot", slot |-> tip + 1] \in Updates
  BY <1>1, GeyserAssumption DEF Updates
<1>3. PICK u \in Updates : u = [kind |-> "slot", slot |-> tip + 1]
  BY <1>2
<1>4. Receive(u) /\ u.kind = "slot" /\ u.slot = tip + 1
  BY <1>3 DEF ChainSlot
<1>5. CASE Alive = {}
  <2>1. UNCHANGED <<sub, delivered, excused>> /\ \A k \in Subs : ~sub[k].open
    BY <1>4, <1>5 DEF Receive, Alive
  <2> QED
    BY <1>1, <1>2, <2>1, UnheardKeeps
<1>6. CASE Alive # {}
  <2>1. /\ txs \subseteq txs' /\ txs' \in SUBSET (1..MaxTip) /\ late' \subseteq txs'
        /\ unsent' \subseteq late' /\ gone \subseteq gone'
        /\ \A n \in late' \ unsent' : n \in late \ unsent
    BY <1>1
  <2> QED
    BY <1>1, <1>2, <1>4, <1>6, <2>1, ReceiveKeeps
<1> QED
  BY <1>5, <1>6

(* Nothing is known, and nothing is owed.                                  *)
LEMMA GeyserInitInv == GeyserInit => GeyserInv
<1> SUFFICES ASSUME GeyserInit PROVE GeyserInv
  OBVIOUS
<1>1. /\ tip = 0 /\ txs = {} /\ sub = [k \in Subs |-> NoSub] /\ opened = 0
      /\ late = {} /\ unsent = {} /\ stored = [slot |-> 0, count |-> 0] /\ overlap = FALSE
      /\ Prompt = {}
  BY DEF GeyserInit, Prompt
<1>2. /\ 0 \in Nat /\ Prompt \in SUBSET (1..MaxTip)
      /\ \A k \in Subs : sub[k] = NoSub
  BY <1>1
<1>3. NoSub \in SubStates /\ Sound(NoSub, tip, Prompt, Accounted)
  BY <1>1, <1>2, NoSubIsSound
<1>4. NoSub.open = FALSE /\ NoSub.at = "idle"
  BY DEF NoSub
<1>5. GeyserTypeOK
  <2>1. sub \in [Subs -> SubStates] /\ \A k \in Subs : Len(sub[k].queue) <= QueueCapacity
    BY <1>1, <1>2, <1>3 DEF Sound, Loose
  <2>2. 0 \in 0..MaxTip /\ 0 \in 0..NSubs /\ 0 \in Nat
    BY GeyserAssumption
  <2> QED
    BY <1>1, <2>1, <2>2 DEF GeyserTypeOK
<1>6. OneAlive /\ OneLoopAhead
  BY <1>2, <1>4 DEF OneAlive, OneLoopAhead, Busy, Running
<1> QED
  BY <1>1, <1>2, <1>3, <1>5, <1>6 DEF GeyserInv, CheckpointIsHonest, LateIsKnown

(* Every step keeps the invariant, and takes the checkpoint back only when *)
(* two loops overlap.                                                      *)
LEMMA GeyserStep ==
    ASSUME GeyserInv, [GeyserNext]_geyserVars
    PROVE  GeyserInv' /\ (stored'.slot < stored.slot => overlap)
<1>0. stored.slot \in Nat
  BY GeyserFacts
<1>1. CASE Subscribe
  BY <1>0, <1>1, SubscribeKeeps DEF Subscribe
<1>2. CASE CrashAndRestart
  BY <1>0, <1>2, CrashKeeps DEF CrashAndRestart
<1>3. CASE ChainTx \/ ChainLateTx
  BY <1>0, <1>3, TxKeeps DEF ChainTx, ChainLateTx
<1>4. CASE ChainSlot
  BY <1>0, <1>4, SlotKeeps DEF ChainSlot
<1>5. CASE ChainSkips
  BY <1>0, <1>5, SkipKeeps DEF ChainSkips
<1>6. ASSUME NEW k \in Subs, BackfillDelivers(k)
      PROVE  GeyserInv' /\ (stored'.slot < stored.slot => overlap)
  <2>1. PICK n \in sub[k].todo :
          /\ sub' = [sub EXCEPT ![k].todo = @ \ {n}] /\ delivered' = delivered \cup {n}
          /\ UNCHANGED <<chainVars, opened, stored, excused>> /\ sub[k].at = "gap"
    BY <1>6 DEF BackfillDelivers
  <2>2. n \in Accounted' /\ delivered \subseteq delivered' /\ excused \subseteq excused'
    BY <2>1 DEF Accounted
  <2>3. UNCHANGED <<chainVars, opened, stored>> /\ sub[k].at = "gap"
    BY <2>1
  <2>4. GeyserInv'
    BY <2>1, <2>2, <2>3, BackfillKeeps
  <2> QED
    BY <1>0, <2>3, <2>4
<1>7. ASSUME NEW k \in Subs, BackfillFindsNull(k)
      PROVE  GeyserInv' /\ (stored'.slot < stored.slot => overlap)
  <2>1. PICK n \in sub[k].todo :
          /\ sub' = [sub EXCEPT ![k].todo = @ \ {n}] /\ excused' = excused \cup {n}
          /\ UNCHANGED <<chainVars, opened, stored, delivered>> /\ sub[k].at = "gap"
    BY <1>7 DEF BackfillFindsNull
  <2>2. n \in Accounted' /\ delivered \subseteq delivered' /\ excused \subseteq excused'
    BY <2>1 DEF Accounted
  <2>3. UNCHANGED <<chainVars, opened, stored>> /\ sub[k].at = "gap"
    BY <2>1
  <2>4. GeyserInv'
    BY <2>1, <2>2, <2>3, BackfillKeeps
  <2> QED
    BY <1>0, <2>3, <2>4
<1>8. ASSUME NEW k \in Subs, BackfillEnds(k)
      PROVE  GeyserInv' /\ (stored'.slot < stored.slot => overlap)
  <2>1. stored' = stored
    BY <1>8 DEF BackfillEnds
  <2> QED
    BY <1>0, <1>8, <2>1, BackfillEndKeeps
<1>9. ASSUME NEW k \in Subs, HandlerSettled(k)
      PROVE  GeyserInv' /\ (stored'.slot < stored.slot => overlap)
  <2>1. stored' = stored
    BY <1>9 DEF HandlerSettled
  <2> QED
    BY <1>0, <1>9, <2>1, HandlerSettledKeeps
<1>10. ASSUME NEW k \in Subs, NEW ok \in BOOLEAN, SaveSettles(k, ok)
       PROVE  GeyserInv' /\ (stored'.slot < stored.slot => overlap)
  BY <1>10, SaveKeeps
<1>11. ASSUME NEW k \in Subs, CloseSub(k)
       PROVE  GeyserInv' /\ (stored'.slot < stored.slot => overlap)
  <2>1. stored' = stored
    BY <1>11 DEF CloseSub
  <2> QED
    BY <1>0, <1>11, <2>1, CloseKeeps
<1>12. ASSUME NEW k \in Subs, NEW ok \in BOOLEAN, LoadSettles(k, ok)
       PROVE  GeyserInv' /\ (stored'.slot < stored.slot => overlap)
  <2>1. stored' = stored
    BY <1>12 DEF LoadSettles
  <2> QED
    BY <1>0, <1>12, <2>1, LoadKeeps
<1>13. ASSUME NEW k \in Subs, ListenerThrows(k)
       PROVE  GeyserInv' /\ (stored'.slot < stored.slot => overlap)
  <2>1. stored' = stored
    BY <1>13 DEF ListenerThrows
  <2> QED
    BY <1>0, <1>13, <2>1, ListenerThrowsKeeps
<1>14. ASSUME NEW n \in unsent, SendLate(n)
       PROVE  GeyserInv' /\ (stored'.slot < stored.slot => overlap)
  <2>1. stored' = stored
    BY <1>14 DEF SendLate
  <2> QED
    BY <1>0, <1>14, <2>1, SendLateKeeps
<1>15. CASE UNCHANGED geyserVars
  <2>1. /\ UNCHANGED <<tip, txs, late, unsent, sub, opened, stored, delivered, excused, gone, overlap>>
        /\ Prompt' = Prompt /\ Accounted' = Accounted
    BY <1>15 DEF geyserVars, Prompt, Accounted
  <2>2. GeyserTypeOK' /\ CheckpointIsHonest' /\ OneAlive' /\ OneLoopAhead' /\ LateIsKnown'
    BY <2>1 DEF GeyserInv, GeyserTypeOK, CheckpointIsHonest, OneAlive, OneLoopAhead, Busy, Running,
                LateIsKnown
  <2>3. GeyserInv'
    BY <2>1, <2>2 DEF GeyserInv
  <2> QED
    BY <1>0, <2>1, <2>3
<1> QED
  BY <1>1, <1>2, <1>3, <1>4, <1>5, <1>6, <1>7, <1>8, <1>9, <1>10, <1>11, <1>12, <1>13, <1>14, <1>15
     DEF GeyserNext, DrainStep

(* What the runs check of the client follows.                              *)
LEMMA GeyserInvIsSafe ==
    ASSUME GeyserInv PROVE GeyserSafe
<1>1. NothingSlips /\ RestsWhenEmpty
  BY DEF GeyserInv, NothingSlips, RestsWhenEmpty, Sound, Loose, LoopSound, SeenIsAccounted, Accounted
<1>2. LateIsLostWithItsStream
  BY GeyserFacts, QueuedWaits DEF GeyserInv, LateIsKnown, LateIsLostWithItsStream, Accounted
<1> QED
  BY <1>1, <1>2 DEF GeyserInv, GeyserSafe

(* The geyser client (geyser-client.ts:436-670): a checkpoint vouches for  *)
(* every transaction up to its slot that was sent before its slot's status,*)
(* and so does what a subscription has seen, over gaps, drops, crashes,    *)
(* faults, listeners that throw and a checkpoint that loads late.  A late  *)
(* transaction is lost with its stream only, and the drain loop rests only *)
(* when its queue is empty or a listener threw.                            *)
THEOREM GeyserIsSafe == GeyserSpec => []GeyserSafe
<1>1. GeyserInv /\ [GeyserNext]_geyserVars => GeyserInv'
  BY GeyserStep
<1>2. GeyserInv => GeyserSafe
  BY GeyserInvIsSafe
<1> QED
  BY <1>1, <1>2, GeyserInitInv, PTL DEF GeyserSpec

(* The checkpoint goes back only when a subscription was opened while the  *)
(* loop of a closed one had an update in hand (geyser-client.ts:570).      *)
THEOREM CheckpointGoesOn == GeyserSpec => CheckpointGoesBackByOverlap
<1>1. GeyserInv /\ [GeyserNext]_geyserVars => GeyserInv'
  BY GeyserStep
<1>2. GeyserInv /\ [GeyserNext]_geyserVars => [stored'.slot < stored.slot => overlap]_geyserVars
  BY GeyserStep
<1> QED
  BY <1>1, <1>2, GeyserInitInv, PTL DEF GeyserSpec, CheckpointGoesBackByOverlap

-----------------------------------------------------------------------------
(* The transaction stream.                                                 *)

(* RecentSet holds the last transactions delivered, each of them once.     *)
RemembersTheLast ==
    /\ Len(recent) <= Len(got)
    /\ Len(recent) = RecentCapacity \/ Len(recent) = Len(got)
    /\ \A i \in 1..Len(recent) : recent[i] = got[Len(got) - Len(recent) + i]

(* What the stream has seen since the drop came before the last            *)
(* acknowledgement, as long as that is awaited.                            *)
SeenSinceIsEarly ==
    /\ lastSeen >= atDrop
    /\ acked # StreamRequests /\ lastSeen > atDrop => early \/ socket = "closed"

(* A stream that has started and is not served in full has a drop to tell. *)
OwesTelling ==
    /\ drops \in Nat /\ told.drops \in Nat /\ told.drops <= drops
    /\ started /\ socket # "closed" /\ acked # StreamRequests => told.drops < drops

(* What a step may tell: every reconnect, once, and from the right slot.   *)
TellsRight ==
    /\ Reconnects => told'.drops = drops
    /\ told' # told => /\ Reconnects
                       /\ told.drops < told'.drops
                       /\ told'.slot >= atDrop
                       /\ told'.slot > atDrop => early

TxInv ==
    /\ TxTypeOK
    /\ OwesTelling
    /\ lastSeen \in Nat /\ atDrop \in Nat /\ head \in Nat
    /\ recent \in Seq(Nat) /\ got \in Seq(Nat)
    /\ RemembersTheLast
    /\ ~repeated
    /\ SeenSinceIsEarly

(* A new transaction is remembered, and the oldest forgotten when there is *)
(* no room.                                                                *)
LEMMA AddRemembers ==
    ASSUME RemembersTheLast, recent \in Seq(Nat), got \in Seq(Nat), IsInjective(recent),
           Len(recent) <= RecentCapacity, NEW n \in Nat, n \notin ToSet(recent),
           recent' = add(n), got' = Append(got, n)
    PROVE  /\ RemembersTheLast' /\ recent' \in Seq(Nat) /\ got' \in Seq(Nat)
           /\ IsInjective(recent') /\ Len(recent') <= RecentCapacity
           /\ ~WithinMemory(n)
<1>1. RecentCapacity \in Nat \ {0} /\ Len(recent) \in Nat /\ Len(got) \in Nat
  BY StreamAssumption
<1>2. /\ \A i \in 1..Len(recent) : recent[i] # n
      /\ \A i, j \in 1..Len(recent) : recent[i] = recent[j] => i = j
      /\ \A i \in 1..Len(recent) : recent[i] = got[Len(got) - Len(recent) + i]
      /\ Len(recent) <= Len(got)
      /\ Len(recent) = RecentCapacity \/ Len(recent) = Len(got)
  <2>1. DOMAIN recent = 1..Len(recent)
    OBVIOUS
  <2>2. \A i \in 1..Len(recent) : recent[i] # n
    BY <2>1 DEF ToSet
  <2>3. \A i, j \in 1..Len(recent) : recent[i] = recent[j] => i = j
    BY <2>1 DEF IsInjective
  <2> QED
    BY <2>2, <2>3 DEF RemembersTheLast
<1>3. /\ got' \in Seq(Nat) /\ Len(got') = Len(got) + 1 /\ got'[Len(got) + 1] = n
      /\ \A i \in 1..Len(got) : got'[i] = got[i]
  BY <1>1, AppendProperties
<1>4. ~WithinMemory(n)
  <2>1. SUFFICES ASSUME NEW k \in 1..Len(got), got[k] = n, Len(got) - k < RecentCapacity
                 PROVE  FALSE
    BY DEF WithinMemory
  <2> DEFINE i == k - (Len(got) - Len(recent))
  <2>2. i \in 1..Len(recent) /\ Len(got) - Len(recent) + i = k
    BY <1>1, <1>2, <2>1
  <2> QED
    BY <1>2, <2>1, <2>2
<1>5. CASE Len(recent) >= RecentCapacity
  <2>1. recent # <<>> /\ recent' = Append(Tail(recent), n) /\ Len(recent) = RecentCapacity
    BY <1>1, <1>5 DEF add
  <2>2. PICK t : t = Tail(recent)
    OBVIOUS
  <2>3. /\ t \in Seq(Nat) /\ Len(t) = Len(recent) - 1
        /\ \A i \in 1..Len(t) : t[i] = recent[i + 1]
    BY <2>1, <2>2, HeadTailProperties
  <2>4. /\ recent' \in Seq(Nat) /\ Len(recent') = Len(recent) /\ recent'[Len(recent)] = n
        /\ \A i \in 1..Len(recent) - 1 : recent'[i] = recent[i + 1]
    <3>1. recent' = Append(t, n)
      BY <2>1, <2>2
    <3>2. /\ recent' \in Seq(Nat) /\ Len(recent') = Len(t) + 1 /\ recent'[Len(t) + 1] = n
          /\ \A i \in 1..Len(t) : recent'[i] = t[i]
      BY <2>3, <3>1, AppendProperties
    <3> QED
      BY <1>1, <2>3, <3>2
  <2>5. \A i \in 1..Len(recent) - 1 : i + 1 \in 1..Len(recent)
    BY <1>1
  <2>6. IsInjective(recent')
    <3>1. DOMAIN recent' = 1..Len(recent)
      BY <2>4
    <3>2. ASSUME NEW i \in 1..Len(recent), NEW j \in 1..Len(recent), recent'[i] = recent'[j]
          PROVE  i = j
      <4>1. \A l \in 1..Len(recent) - 1 : recent'[l] = recent[l + 1] /\ recent'[l] # n
        <5>1. ASSUME NEW l \in 1..Len(recent) - 1 PROVE recent'[l] = recent[l + 1] /\ recent[l + 1] # n
          BY <1>2, <2>4, <2>5
        <5> QED
          BY <5>1
      <4>2. CASE i = Len(recent) \/ j = Len(recent)
        <5>1. recent'[i] = n /\ recent'[j] = n
          BY <2>4, <3>2, <4>2
        <5> QED
          BY <1>1, <4>1, <5>1
      <4>3. CASE i # Len(recent) /\ j # Len(recent)
        <5>1. i \in 1..Len(recent) - 1 /\ j \in 1..Len(recent) - 1
          BY <1>1, <4>3
        <5>2. i + 1 \in 1..Len(recent) /\ j + 1 \in 1..Len(recent) /\ recent[i + 1] = recent[j + 1]
          BY <2>5, <3>2, <4>1, <5>1
        <5>3. i + 1 = j + 1
          BY <1>2, <5>2
        <5> QED
          BY <1>1, <5>1, <5>3
      <4> QED
        BY <4>2, <4>3
    <3> QED
      BY <3>1, <3>2 DEF IsInjective
  <2>7. RemembersTheLast'
    <3>1. ASSUME NEW i \in 1..Len(recent)
          PROVE  recent'[i] = got'[Len(got') - Len(recent') + i]
      <4>1. CASE i = Len(recent)
        BY <1>1, <1>3, <2>4, <4>1
      <4>2. CASE i # Len(recent)
        <5>1. i \in 1..Len(recent) - 1 /\ i + 1 \in 1..Len(recent)
          BY <1>1, <4>2
        <5>2. recent'[i] = got[Len(got) - Len(recent) + (i + 1)]
          BY <1>2, <2>4, <5>1
        <5>3. /\ Len(got) - Len(recent) + (i + 1) \in 1..Len(got)
              /\ Len(got') - Len(recent') + i = Len(got) - Len(recent) + (i + 1)
          BY <1>1, <1>2, <1>3, <2>4, <5>1
        <5> QED
          BY <1>3, <5>2, <5>3
      <4> QED
        BY <4>1, <4>2
    <3>2. Len(recent') <= Len(got') /\ Len(recent') = RecentCapacity
      BY <1>1, <1>2, <1>3, <2>1, <2>4
    <3> QED
      BY <2>4, <3>1, <3>2 DEF RemembersTheLast
  <2> QED
    BY <1>1, <1>3, <1>4, <2>1, <2>4, <2>6, <2>7
<1>6. CASE Len(recent) < RecentCapacity
  <2>1. /\ recent' = Append(recent, n) /\ Len(recent) = Len(got)
    BY <1>1, <1>2, <1>6 DEF add
  <2>2. /\ recent' \in Seq(Nat) /\ Len(recent') = Len(recent) + 1 /\ recent'[Len(recent) + 1] = n
        /\ \A i \in 1..Len(recent) : recent'[i] = recent[i]
    BY <2>1, AppendProperties
  <2>3. IsInjective(recent')
    <3>1. DOMAIN recent' = 1..Len(recent) + 1
      BY <2>2
    <3>2. ASSUME NEW i \in 1..Len(recent) + 1, NEW j \in 1..Len(recent) + 1,
                 recent'[i] = recent'[j]
          PROVE  i = j
      <4>1. \A l \in 1..Len(recent) : recent'[l] = recent[l] /\ recent'[l] # n
        BY <1>2, <2>2
      <4>2. CASE i = Len(recent) + 1 \/ j = Len(recent) + 1
        <5>1. recent'[i] = n /\ recent'[j] = n
          BY <2>2, <3>2, <4>2
        <5>2. i \notin 1..Len(recent) /\ j \notin 1..Len(recent)
          BY <4>1, <5>1
        <5> QED
          BY <1>1, <5>2
      <4>3. CASE i # Len(recent) + 1 /\ j # Len(recent) + 1
        <5>1. i \in 1..Len(recent) /\ j \in 1..Len(recent)
          <6>1. PICK L \in Nat : L = Len(recent)
            BY <1>1
          <6>2. i \in 1..L + 1 /\ j \in 1..L + 1 /\ i # L + 1 /\ j # L + 1
            BY <4>3, <6>1
          <6>3. i \in 1..L /\ j \in 1..L
            BY ONLY <6>1, <6>2
          <6> QED
            BY <6>1, <6>3
        <5> QED
          BY <1>2, <3>2, <4>1, <5>1
      <4> QED
        BY <4>2, <4>3
    <3> QED
      BY <3>1, <3>2 DEF IsInjective
  <2>4. RemembersTheLast'
    <3>1. \A i \in 1..Len(recent) : recent[i] = got[i]
      BY <1>1, <1>2, <2>1
    <3>2. \A i \in 1..Len(recent) + 1 : recent'[i] = got'[i]
      BY <1>1, <1>3, <2>1, <2>2, <3>1
    <3> QED
      BY <1>1, <1>3, <2>1, <2>2, <3>2 DEF RemembersTheLast
  <2> QED
    BY <1>1, <1>3, <1>4, <1>6, <2>2, <2>3, <2>4
<1> QED
  BY <1>1, <1>5, <1>6

LEMMA TxInitInv == TxInit => TxInv
<1> SUFFICES ASSUME TxInit PROVE TxInv
  OBVIOUS
<1>1. <<>> \in Seq(Nat) /\ Len(<<>>) = 0 /\ DOMAIN <<>> = {} /\ 1..0 = {}
  OBVIOUS
<1>2. recent = <<>> /\ got = <<>> /\ lastSeen = 0 /\ atDrop = 0 /\ head = 0 /\ repeated = FALSE
  BY DEF TxInit
<1>3. RemembersTheLast /\ SeenSinceIsEarly /\ IsInjective(recent)
  BY <1>1, <1>2 DEF RemembersTheLast, SeenSinceIsEarly, IsInjective
<1>4. TxTypeOK
  BY <1>1, <1>2, <1>3, StreamAssumption DEF TxInit, TxTypeOK
<1>5. OwesTelling
  BY DEF TxInit, OwesTelling
<1> QED
  BY <1>1, <1>2, <1>3, <1>4, <1>5 DEF TxInv

(* A step that delivers nothing and does not touch the sockets' history.   *)
LEMMA StreamFrame ==
    ASSUME TxInv, UNCHANGED <<deliveryVars, atDrop>>, head' \in Nat, TxTypeOK', OwesTelling',
           acked' # StreamRequests => acked # StreamRequests \/ socket' = "closed",
           socket = "closed" => socket' = "closed"
    PROVE  TxInv'
  BY DEF TxInv, RemembersTheLast, SeenSinceIsEarly, deliveryVars

LEMMA StreamStep ==
    ASSUME TxInv, [TxNext]_txVars
    PROVE  TxInv' /\ (TellsRight \/ UNCHANGED txVars)
<1>0. /\ TxTypeOK /\ lastSeen \in Nat /\ atDrop \in Nat /\ head \in Nat
      /\ recent \in Seq(Nat) /\ got \in Seq(Nat)
      /\ RemembersTheLast /\ ~repeated /\ SeenSinceIsEarly
      /\ OwesTelling /\ {} # StreamRequests
  BY StreamAssumption DEF TxInv
<1>a. ASSUME told' = told, acked' # StreamRequests \/ acked' = acked
      PROVE  TellsRight
  BY <1>a DEF TellsRight, Reconnects
<1>1. CASE Opens
  <2>1. TxTypeOK'
    BY <1>0, <1>1 DEF TxTypeOK, Opens, deliveryVars
  <2>2. OwesTelling'
    BY <1>0, <1>1 DEF OwesTelling, Opens
  <2>3. TellsRight
    BY <1>0, <1>1, <1>a DEF Opens
  <2> QED
    BY <1>0, <1>1, <2>1, <2>2, <2>3, StreamFrame DEF Opens
<1>2. CASE Fail
  <2>1. backoff \in Int /\ backoff <= MaxDelay
    <3>1. attempts \in Nat /\ BaseDelay \in Nat /\ MaxDelay \in Nat
      BY <1>0, StreamAssumption DEF TxTypeOK
    <3>2. BaseDelay * 2 ^ attempts \in Int
      BY <3>1
    <3> QED
      BY <3>1, <3>2 DEF backoff
  <2>2. TxTypeOK'
    BY <1>0, <1>2, <2>1 DEF TxTypeOK, Fail
  <2>3. lastSeen' \in Nat /\ atDrop' \in Nat /\ SeenSinceIsEarly'
    BY <1>0, <1>2 DEF Fail, SeenSinceIsEarly
  <2>4. RemembersTheLast'
    BY <1>0, <1>2 DEF Fail, RemembersTheLast
  <2>5. OwesTelling'
    BY <1>0, <1>2 DEF OwesTelling, Fail
  <2>6. TellsRight
    BY <1>0, <1>2, <1>a DEF Fail
  <2> QED
    BY <1>0, <1>2, <2>2, <2>3, <2>4, <2>5, <2>6 DEF Fail, TxInv
<1>3. CASE Retry
  <2>1. TxTypeOK'
    BY <1>0, <1>3 DEF TxTypeOK, Retry, deliveryVars
  <2>2. OwesTelling'
    BY <1>0, <1>3 DEF OwesTelling, Retry
  <2>3. TellsRight
    BY <1>0, <1>3, <1>a DEF Retry
  <2> QED
    BY <1>0, <1>3, <2>1, <2>2, <2>3, StreamFrame DEF Retry
<1>4. CASE CloseStream
  <2>1. TxTypeOK'
    BY <1>0, <1>4 DEF TxTypeOK, CloseStream, deliveryVars
  <2>2. OwesTelling'
    BY <1>0, <1>4 DEF OwesTelling, CloseStream
  <2>3. TellsRight
    BY <1>0, <1>4, <1>a DEF CloseStream
  <2> QED
    BY <1>0, <1>4, <2>1, <2>2, <2>3, StreamFrame DEF CloseStream
<1>5. ASSUME NEW r \in StreamRequests, Serves(r)
      PROVE  TxInv' /\ TellsRight
  <2>1. TxTypeOK'
    BY <1>0, <1>5 DEF TxTypeOK, Serves, deliveryVars
  <2>2. OwesTelling' /\ TellsRight
    BY <1>0, <1>5, <1>a DEF OwesTelling, Serves
  <2> QED
    BY <1>0, <1>5, <2>1, <2>2, StreamFrame DEF Serves
<1>6. ASSUME NEW r \in StreamRequests, Acked(r)
      PROVE  TxInv' /\ TellsRight
  <2>1. /\ acked # StreamRequests /\ socket = "open" /\ acked' = acked \cup {r} /\ r \in subscribed
        /\ UNCHANGED <<socket, subscribed, delay, deliveryVars, head, drops, atDrop>>
        /\ attempts' = attempts \/ attempts' = 0
    BY <1>6 DEF Acked
  <2>2. TxTypeOK'
    BY <1>0, <2>1 DEF TxTypeOK, deliveryVars
  <2>3. lastSeen >= atDrop /\ (lastSeen > atDrop => early)
    BY <1>0, <2>1 DEF SeenSinceIsEarly
  <2>4. CASE acked' # StreamRequests
    <3>1. UNCHANGED <<started, told>>
      BY <1>6, <2>4 DEF Acked, AllAcked
    <3>2. OwesTelling' /\ TellsRight
      BY <1>0, <1>a, <2>1, <2>4, <3>1 DEF OwesTelling
    <3> QED
      BY <1>0, <2>1, <2>2, <3>2, StreamFrame
  <2>5. CASE acked' = StreamRequests
    <3>1. /\ started' = TRUE
          /\ told' = IF started THEN [drops |-> drops, slot |-> lastSeen] ELSE told
      BY <1>6, <2>5 DEF Acked, AllAcked
    <3>2. OwesTelling'
      BY <1>0, <2>1, <2>5, <3>1 DEF OwesTelling
    <3>3. TellsRight
      <4>1. CASE started
        <5>1. told'.drops = drops /\ told'.slot = lastSeen /\ told.drops < drops
          BY <1>0, <2>1, <3>1, <4>1 DEF OwesTelling
        <5>2. Reconnects
          BY <2>1, <2>5, <4>1 DEF Reconnects
        <5> QED
          BY <2>3, <5>1, <5>2 DEF TellsRight
      <4>2. CASE ~started
        BY <3>1, <4>2 DEF TellsRight, Reconnects
      <4> QED
        BY <4>1, <4>2
    <3> QED
      BY <1>0, <2>1, <2>2, <3>2, <3>3, StreamFrame
  <2> QED
    BY <2>4, <2>5
<1>7. ASSUME NEW r \in StreamRequests, NEW n \in 1..head, Notified(r, n)
      PROVE  TxInv' /\ TellsRight
  <2>1. /\ socket = "open"
        /\ UNCHANGED <<socket, started, acked, subscribed, attempts, delay, head, drops, told,
                       atDrop>>
    BY <1>7 DEF Notified
  <2>a. OwesTelling' /\ TellsRight
    BY <1>0, <1>a, <2>1 DEF OwesTelling
  <2>2. CASE n \in ToSet(recent)
    <3>1. UNCHANGED deliveryVars
      BY <1>7, <2>2 DEF Notified
    <3>2. TxTypeOK'
      BY <1>0, <2>1, <3>1 DEF TxTypeOK, deliveryVars
    <3> QED
      BY <1>0, <2>1, <2>a, <3>1, <3>2, StreamFrame
  <2>3. CASE n \notin ToSet(recent)
    <3>1. /\ recent' = add(n) /\ lastSeen' = IF n > lastSeen THEN n ELSE lastSeen
          /\ repeated' = (repeated \/ WithinMemory(n)) /\ got' = Append(got, n)
          /\ early' = (early \/ acked # StreamRequests)
      BY <1>7, <2>3 DEF Notified
    <3>2. n \in Nat
      BY <1>0
    <3>3. /\ RemembersTheLast' /\ recent' \in Seq(Nat) /\ got' \in Seq(Nat)
          /\ IsInjective(recent') /\ Len(recent') <= RecentCapacity
          /\ ~WithinMemory(n)
      BY <1>0, <2>3, <3>1, <3>2, AddRemembers DEF TxTypeOK
    <3>4. TxTypeOK'
      BY <1>0, <2>1, <3>3 DEF TxTypeOK
    <3>5. lastSeen' \in Nat /\ SeenSinceIsEarly'
      <4>1. lastSeen' \in Nat /\ lastSeen' >= atDrop
        BY <1>0, <3>1, <3>2 DEF SeenSinceIsEarly
      <4>2. acked # StreamRequests => early'
        BY <3>1
      <4> QED
        BY <2>1, <4>1, <4>2 DEF SeenSinceIsEarly
    <3> QED
      BY <1>0, <2>1, <2>a, <3>1, <3>3, <3>4, <3>5 DEF TxInv
  <2> QED
    BY <2>2, <2>3
<1>8. ASSUME NEW ps, Lands(ps)
      PROVE  TxInv' /\ TellsRight
  <2>1. TxTypeOK' /\ head' \in Nat
    BY <1>0, <1>8 DEF TxTypeOK, Lands, deliveryVars
  <2>2. OwesTelling' /\ TellsRight
    BY <1>0, <1>8, <1>a DEF OwesTelling, Lands
  <2> QED
    BY <1>0, <1>8, <2>1, <2>2, StreamFrame DEF Lands
<1>9. CASE UNCHANGED txVars
  <2>1. /\ TxTypeOK' /\ OwesTelling'
        /\ UNCHANGED <<deliveryVars, atDrop, head, acked, socket, told>>
    BY <1>0, <1>9 DEF TxTypeOK, OwesTelling, txVars, deliveryVars
  <2> QED
    BY <1>0, <1>9, <2>1, StreamFrame
<1> QED
  BY <1>1, <1>2, <1>3, <1>4, <1>5, <1>6, <1>7, <1>8, <1>9 DEF TxNext

(* The stream (tx-stream.ts:145): what several subscriptions report is     *)
(* delivered once within the memory, on any socket.                        *)
THEOREM StreamIsSafe == TxSpec => []TxSafe
<1>1. TxInv /\ [TxNext]_txVars => TxInv'
  BY StreamStep
<1>2. TxInv => TxSafe
  BY DEF TxInv, TxSafe, NoRepeatWithinMemory
<1> QED
  BY <1>1, <1>2, TxInitInv, PTL DEF TxSpec

(* Whenever all subscriptions are served again, onReconnect() is called in *)
(* that step and in no other, once for all the drops since the last call,  *)
(* and from a slot that is not behind the drop (tx-stream.ts:221).         *)
THEOREM ReconnectsAreTold == TxSpec => ReconnectIsTold
<1>1. TxInv /\ [TxNext]_txVars => TxInv'
  BY StreamStep
<1>2. TxInv /\ [TxNext]_txVars => [TellsRight]_txVars
  BY StreamStep
<1> QED
  BY <1>1, <1>2, TxInitInv, PTL DEF TxSpec, ReconnectIsTold, TellsRight

-----------------------------------------------------------------------------
(* Both streams, in the behaviours that TLC explores.                      *)

LEMMA StreamsStep ==
    ASSUME GeyserInv, TxInv, [MCNext]_mcVars
    PROVE  GeyserInv' /\ TxInv' /\ [GeyserNext]_geyserVars /\ [TxNext]_txVars
<1>1. [GeyserNext]_geyserVars /\ [TxNext]_txVars
  BY DEF MCNext, mcVars
<1> QED
  BY <1>1, GeyserStep, StreamStep

(* What a crash, a full queue or a listener that throws may cost the       *)
(* streams is known: of what was sent before its slot's status nothing     *)
(* that a checkpoint does not vouch for, of what was sent late only what   *)
(* its stream took with it; and nothing is delivered twice within the      *)
(* memory (geyser-client.ts:436-670, tx-stream.ts:145).                    *)
THEOREM StreamsAreSafe == MCSpec => []StreamsSafe
<1>1. MCInit => GeyserInv /\ TxInv
  BY GeyserInitInv, TxInitInv DEF MCInit
<1>2. (GeyserInv /\ TxInv) /\ [MCNext]_mcVars => (GeyserInv /\ TxInv)'
  BY StreamsStep
<1>3. GeyserInv /\ TxInv => StreamsSafe
  BY GeyserInvIsSafe DEF StreamsSafe, TxInv, TxSafe, NoRepeatWithinMemory
<1> QED
  BY <1>1, <1>2, <1>3, PTL DEF MCSpec

(* Whoever resumes is told, and told where: every reconnect of a stream    *)
(* that has started calls onReconnect(), from a slot not behind the drop   *)
(* (tx-stream.ts:221), and a checkpoint goes back by the overlap of two    *)
(* loops only (geyser-client.ts:570).                                      *)
THEOREM ResumingIsTold == MCSpec => ResumeIsTold
<1>1. MCInit => GeyserInv /\ TxInv
  BY GeyserInitInv, TxInitInv DEF MCInit
<1>2. (GeyserInv /\ TxInv) /\ [MCNext]_mcVars => (GeyserInv /\ TxInv)'
  BY StreamsStep
<1>3. (GeyserInv /\ TxInv) /\ [MCNext]_mcVars =>
        /\ [stored'.slot < stored.slot => overlap]_geyserVars
        /\ [TellsRight]_txVars
  BY StreamsStep, GeyserStep, StreamStep
<1> QED
  BY <1>1, <1>2, <1>3, PTL
     DEF MCSpec, ResumeIsTold, CheckpointGoesBackByOverlap, ReconnectIsTold, TellsRight

-----------------------------------------------------------------------------
(* Lists of numbers that rise or fall.                                     *)

Rising(s) == \A j, k \in 1..Len(s) : j < k => s[j] < s[k]
Falling(s) == \A j, k \in 1..Len(s) : j < k => s[j] > s[k]

LEMMA RangeIs == \A T : \A s \in Seq(T) : Range(s) = {s[k] : k \in 1..Len(s)}
BY DEF Range

LEMMA RangeOfJoin ==
    ASSUME NEW T, NEW a \in Seq(T), NEW b \in Seq(T)
    PROVE  Range(a \o b) = Range(a) \union Range(b)
<1> DEFINE c == a \o b
           m == Len(a)
           n == Len(b)
<1>1. /\ c \in Seq(T) /\ Len(c) = m + n
      /\ \A i \in 1..(m + n) : c[i] = IF i <= m THEN a[i] ELSE b[i - m]
    BY JoinedAt
<1>2. m \in Nat /\ n \in Nat OBVIOUS
<1>3. Range(a) = {a[k] : k \in 1..m} /\ Range(b) = {b[k] : k \in 1..n} /\ Range(c) = {c[k] : k \in 1..Len(c)}
    BY <1>1, RangeIs
<1> HIDE DEF c, m, n
<1>4. \A i \in 1..m : i \in 1..(m + n) /\ c[i] = a[i] BY <1>1, <1>2
<1>5. \A i \in 1..n : i + m \in 1..(m + n) /\ c[i + m] = b[i]
    <2> TAKE i \in 1..n
    <2>1. i + m \in 1..(m + n) /\ ~(i + m <= m) /\ (i + m) - m = i BY <1>2
    <2> QED BY <1>1, <2>1
<1>6. \A i \in 1..(m + n) : (i \in 1..m /\ c[i] = a[i]) \/ (i - m \in 1..n /\ c[i] = b[i - m])
    <2> TAKE i \in 1..(m + n)
    <2>1. CASE i <= m BY <1>1, <1>2, <2>1
    <2>2. CASE ~(i <= m) BY <1>1, <1>2, <2>2
    <2> QED BY <2>1, <2>2
<1>7. Range(c) \subseteq Range(a) \union Range(b)
    <2> SUFFICES ASSUME NEW i \in 1..(m + n) PROVE c[i] \in Range(a) \union Range(b) BY <1>1, <1>3
    <2> QED BY <1>3, <1>6
<1>8. Range(a) \subseteq Range(c) BY <1>1, <1>3, <1>4
<1>9. Range(b) \subseteq Range(c)
    <2> SUFFICES ASSUME NEW i \in 1..n PROVE b[i] \in Range(c) BY <1>3
    <2>1. i + m \in 1..Len(c) /\ c[i + m] = b[i] BY <1>1, <1>5
    <2> QED BY <1>3, <2>1, Zenon
<1> QED BY <1>7, <1>8, <1>9 DEF c

LEMMA JoinFalls ==
    ASSUME NEW a \in Seq(Nat), NEW b \in Seq(Nat), Falling(a), Falling(b),
           \A x \in Range(a), y \in Range(b) : x > y
    PROVE  Falling(a \o b)
<1> DEFINE c == a \o b
           m == Len(a)
           n == Len(b)
<1>1. /\ c \in Seq(Nat) /\ Len(c) = m + n
      /\ \A i \in 1..(m + n) : c[i] = IF i <= m THEN a[i] ELSE b[i - m]
    BY JoinedAt
<1>2. m \in Nat /\ n \in Nat OBVIOUS
<1>3. Range(a) = {a[k] : k \in 1..m} /\ Range(b) = {b[k] : k \in 1..n} BY RangeIs
<1>4. \A j \in 1..m, k \in 1..n : a[j] > b[k] BY <1>3, Zenon
<1> HIDE DEF c
<1> SUFFICES ASSUME NEW j \in 1..(m + n), NEW k \in 1..(m + n), j < k PROVE c[j] > c[k]
    BY <1>1 DEF Falling, c
<1> HIDE DEF m, n
<1>5. CASE k <= m
    <2>1. j \in 1..m /\ k \in 1..m /\ c[j] = a[j] /\ c[k] = a[k] BY <1>1, <1>2, <1>5
    <2> QED BY <2>1 DEF Falling, m
<1>6. CASE ~(k <= m) /\ j <= m
    <2>1. j \in 1..m /\ k - m \in 1..n BY <1>2, <1>6
    <2>2. c[j] = a[j] /\ c[k] = b[k - m] BY <1>1, <1>6
    <2> QED BY <1>4, <2>1, <2>2
<1>7. CASE ~(k <= m) /\ ~(j <= m)
    <2>1. j - m \in 1..n /\ k - m \in 1..n /\ j - m < k - m BY <1>2, <1>7
    <2>2. c[j] = b[j - m] /\ c[k] = b[k - m] BY <1>1, <1>7
    <2> QED BY <2>1, <2>2 DEF Falling, n
<1> QED BY <1>5, <1>6, <1>7

LEMMA JoinRises ==
    ASSUME NEW a \in Seq(Nat), NEW b \in Seq(Nat), Rising(a), Rising(b),
           \A x \in Range(a), y \in Range(b) : x < y
    PROVE  Rising(a \o b)
<1> DEFINE c == a \o b
           m == Len(a)
           n == Len(b)
<1>1. /\ c \in Seq(Nat) /\ Len(c) = m + n
      /\ \A i \in 1..(m + n) : c[i] = IF i <= m THEN a[i] ELSE b[i - m]
    BY JoinedAt
<1>2. m \in Nat /\ n \in Nat OBVIOUS
<1>3. Range(a) = {a[k] : k \in 1..m} /\ Range(b) = {b[k] : k \in 1..n} BY RangeIs
<1>4. \A j \in 1..m, k \in 1..n : a[j] < b[k] BY <1>3, Zenon
<1> HIDE DEF c
<1> SUFFICES ASSUME NEW j \in 1..(m + n), NEW k \in 1..(m + n), j < k PROVE c[j] < c[k]
    BY <1>1 DEF Rising, c
<1> HIDE DEF m, n
<1>5. CASE k <= m
    <2>1. j \in 1..m /\ k \in 1..m /\ c[j] = a[j] /\ c[k] = a[k] BY <1>1, <1>2, <1>5
    <2> QED BY <2>1 DEF Rising, m
<1>6. CASE ~(k <= m) /\ j <= m
    <2>1. j \in 1..m /\ k - m \in 1..n BY <1>2, <1>6
    <2>2. c[j] = a[j] /\ c[k] = b[k - m] BY <1>1, <1>6
    <2> QED BY <1>4, <2>1, <2>2
<1>7. CASE ~(k <= m) /\ ~(j <= m)
    <2>1. j - m \in 1..n /\ k - m \in 1..n /\ j - m < k - m BY <1>2, <1>7
    <2>2. c[j] = b[j - m] /\ c[k] = b[k - m] BY <1>1, <1>7
    <2> QED BY <2>1, <2>2 DEF Rising, n
<1> QED BY <1>5, <1>6, <1>7

(* A filter keeps the order and loses nothing it should keep.              *)
LEMMA OnlyInOrder ==
    ASSUME NEW s \in Seq(Nat), NEW S
    PROVE  /\ Only(s, S) \in Seq(Nat)
           /\ Range(Only(s, S)) = Range(s) \cap S
           /\ Falling(s) => Falling(Only(s, S))
           /\ Rising(s) => Rising(Only(s, S))
<1> DEFINE r == Only(s, S)
           m == Len(r)
           n == Len(s)
<1>1. r \in Seq(Nat) /\ Keeps(r, s, S) BY OnlyKeeps
<1>2. Range(r) = {r[k] : k \in 1..m} /\ Range(s) = {s[k] : k \in 1..n} BY <1>1, RangeIs
<1> HIDE DEF r
<1>3. PICK f : KeptAt(f, r, s, S) BY <1>1, Zenon DEF Keeps
<1>4. /\ \A j \in 1..m : f[j] \in 1..n /\ s[f[j]] \in S /\ r[j] = s[f[j]]
      /\ \A k \in 1..n : s[k] \in S => \E j \in 1..m : f[j] = k
      /\ \A i, j \in 1..m : i < j => f[i] < f[j]
    <2>1. f \in [1..m -> {k \in 1..n : s[k] \in S}] BY <1>3, Zenon DEF KeptAt
    <2>2. \A j \in 1..m : f[j] \in {k \in 1..n : s[k] \in S} BY <2>1, Zenon
    <2>3. \A j \in 1..m : r[j] = s[f[j]] BY <1>3, Zenon DEF KeptAt
    <2>4. \A k \in 1..n : s[k] \in S => \E j \in 1..m : f[j] = k BY <1>3, Zenon DEF KeptAt
    <2>5. \A i, j \in 1..m : i < j => f[i] < f[j] BY <1>3, Zenon DEF KeptAt
    <2> QED BY <2>2, <2>3, <2>4, <2>5, Zenon
<1> HIDE DEF m, n
<1>5. Range(r) = Range(s) \cap S
    <2>1. ASSUME NEW j \in 1..m PROVE r[j] \in Range(s) \cap S BY <1>2, <1>4, Zenon
    <2>2. ASSUME NEW k \in 1..n, s[k] \in S PROVE s[k] \in Range(r)
        <3>1. PICK j \in 1..m : f[j] = k BY <1>4, <2>2
        <3>2. s[k] = r[j] BY <1>4, <3>1
        <3> QED BY <1>2, <3>2, Zenon
    <2>3. Range(r) \subseteq Range(s) \cap S BY <1>2, <2>1, Zenon
    <2>4. Range(s) \cap S \subseteq Range(r)
        <3> SUFFICES ASSUME NEW x \in Range(s) \cap S PROVE x \in Range(r) OBVIOUS
        <3>1. PICK k \in 1..n : x = s[k] BY <1>2
        <3> QED BY <2>2, <3>1
    <2> QED BY <2>3, <2>4
<1>6. ASSUME Falling(s) PROVE Falling(r)
    <2> SUFFICES ASSUME NEW j \in 1..m, NEW k \in 1..m, j < k PROVE r[j] > r[k] BY DEF Falling, m
    <2>1. f[j] \in 1..n /\ f[k] \in 1..n /\ f[j] < f[k] /\ r[j] = s[f[j]] /\ r[k] = s[f[k]] BY <1>4, Zenon
    <2> QED BY <1>6, <2>1 DEF Falling, n
<1>7. ASSUME Rising(s) PROVE Rising(r)
    <2> SUFFICES ASSUME NEW j \in 1..m, NEW k \in 1..m, j < k PROVE r[j] < r[k] BY DEF Rising, m
    <2>1. f[j] \in 1..n /\ f[k] \in 1..n /\ f[j] < f[k] /\ r[j] = s[f[j]] /\ r[k] = s[f[k]] BY <1>4, Zenon
    <2> QED BY <1>7, <2>1 DEF Rising, n
<1> QED BY <1>1, <1>5, <1>6, <1>7 DEF r

LEMMA ReverseRises ==
    ASSUME NEW s \in Seq(Nat), Falling(s)
    PROVE  Reverse(s) \in Seq(Nat) /\ Rising(Reverse(s)) /\ Range(Reverse(s)) = Range(s)
<1> DEFINE n == Len(s)
           r == [i \in 1..n |-> s[(n - i) + 1]]
<1>1. Reverse(s) = r BY DEF Reverse
<1>2. n \in Nat /\ \A i \in 1..n : s[i] \in Nat OBVIOUS
<1>3. Range(s) = {s[k] : k \in 1..n} BY RangeIs
<1>4. \A i \in 1..n : (n - i) + 1 \in 1..n /\ (n - ((n - i) + 1)) + 1 = i BY <1>2
<1> HIDE DEF n
<1>5. r \in Seq(Nat) /\ Len(r) = n
    <2>1. r \in [1..n -> Nat] BY <1>2, <1>4
    <2> HIDE DEF r
    <2> QED BY <1>2, <2>1
<1>6. Range(r) = {r[k] : k \in 1..n} BY <1>5, RangeIs
<1>7. Rising(r)
    <2> SUFFICES ASSUME NEW j \in 1..n, NEW k \in 1..n, j < k PROVE r[j] < r[k] BY <1>5 DEF Rising
    <2>1. (n - j) + 1 > (n - k) + 1 BY <1>2
    <2>2. s[(n - k) + 1] > s[(n - j) + 1] BY <1>4, <2>1 DEF Falling, n
    <2>3. s[(n - k) + 1] \in Nat /\ s[(n - j) + 1] \in Nat BY <1>2, <1>4
    <2> QED BY <2>2, <2>3
<1>8. \A i \in 1..n : r[i] = s[(n - i) + 1] OBVIOUS
<1> HIDE DEF r
<1>9. Range(r) \subseteq Range(s) BY <1>3, <1>4, <1>6, <1>8, Zenon
<1>10. Range(s) \subseteq Range(r)
    <2> SUFFICES ASSUME NEW i \in 1..n PROVE s[i] \in Range(r) BY <1>3, Zenon
    <2>1. r[(n - i) + 1] = s[i] BY <1>4, <1>8
    <2> QED BY <1>4, <1>6, <2>1, Zenon
<1> QED BY <1>1, <1>5, <1>7, <1>9, <1>10

LEMMA HeadIsLeast ==
    ASSUME NEW s \in Seq(Nat), Rising(s), s # <<>>
    PROVE  /\ Head(s) \in Nat /\ Tail(s) \in Seq(Nat) /\ Rising(Tail(s))
           /\ Range(s) = {Head(s)} \union Range(Tail(s))
           /\ \A x \in Range(Tail(s)) : Head(s) < x
<1> DEFINE n == Len(s)
           t == Tail(s)
<1>1. n \in Nat \ {0} /\ \A i \in 1..n : s[i] \in Nat OBVIOUS
<1>2. Head(s) = s[1] /\ t \in Seq(Nat) /\ Len(t) = n - 1 /\ \A i \in 1..(n - 1) : t[i] = s[i + 1] OBVIOUS
<1>3. Range(s) = {s[k] : k \in 1..n} /\ Range(t) = {t[k] : k \in 1..(n - 1)} BY <1>2, RangeIs
<1> HIDE DEF t, n
<1>4. \A i \in 1..(n - 1) : i + 1 \in 1..n BY <1>1
<1>5. 1 \in 1..n BY <1>1
<1>6. Rising(t)
    <2> SUFFICES ASSUME NEW j \in 1..(n - 1), NEW k \in 1..(n - 1), j < k PROVE t[j] < t[k] BY <1>2 DEF Rising
    <2>1. j + 1 < k + 1 /\ j + 1 \in 1..n /\ k + 1 \in 1..n BY <1>4
    <2>2. s[j + 1] < s[k + 1] BY <2>1 DEF Rising, n
    <2> QED BY <1>2, <2>2
<1>7. \A x \in Range(t) : s[1] < x
    <2> SUFFICES ASSUME NEW i \in 1..(n - 1) PROVE s[1] < t[i] BY <1>3, Zenon
    <2>1. 1 < i + 1 OBVIOUS
    <2> QED BY <1>2, <1>4, <1>5, <2>1 DEF Rising, n
<1>8. Range(s) = {s[1]} \union Range(t)
    <2>1. ASSUME NEW i \in 1..n PROVE s[i] = s[1] \/ s[i] \in Range(t)
        <3>1. i = 1 \/ (i - 1 \in 1..(n - 1) /\ (i - 1) + 1 = i) BY <1>1
        <3>2. CASE i - 1 \in 1..(n - 1) /\ (i - 1) + 1 = i
            <4>1. t[i - 1] = s[i] BY <1>2, <3>2
            <4> QED BY <1>3, <3>2, <4>1, Zenon
        <3> QED BY <3>1, <3>2
    <2>2. Range(s) \subseteq {s[1]} \union Range(t) BY <1>3, <2>1, Zenon
    <2>3. s[1] \in Range(s) BY <1>3, <1>5, Zenon
    <2>4. Range(t) \subseteq Range(s) BY <1>2, <1>3, <1>4, Zenon
    <2> QED BY <2>2, <2>3, <2>4
<1> QED BY <1>1, <1>2, <1>5, <1>6, <1>7, <1>8 DEF t

LEMMA AppendRises ==
    ASSUME NEW s \in Seq(Nat), Rising(s), NEW x \in Nat, \A y \in Range(s) : y < x
    PROVE  /\ Append(s, x) \in Seq(Nat) /\ Rising(Append(s, x))
           /\ Range(Append(s, x)) = Range(s) \union {x}
<1> DEFINE y == <<x>>
<1>1. y \in Seq(Nat) /\ Len(y) = 1 /\ y[1] = x OBVIOUS
<1>4. Append(s, x) = s \o y /\ Append(s, x) \in Seq(Nat) OBVIOUS
<1> HIDE DEF y
<1>0. 1..1 = {1} OBVIOUS
<1>2. Range(y) = {x}
    <2>1. Range(y) = {y[k] : k \in 1..1} BY <1>1, RangeIs
    <2> QED BY <1>0, <1>1, <2>1
<1>3. Rising(y)
    <2>1. \A j, k \in {1} : ~(j < k) OBVIOUS
    <2> QED BY <1>0, <1>1, <2>1 DEF Rising
<1>6. \A v \in Range(s), w \in Range(y) : v < w BY <1>2
<1>7. Rising(s \o y) BY <1>1, <1>3, <1>6, JoinRises
<1>8. Range(s \o y) = Range(s) \union {x} BY <1>1, <1>2, RangeOfJoin
<1> QED BY <1>4, <1>7, <1>8

(* The first m of a falling list: what is above the last of them.          *)
LEMMA PrefixFalls ==
    ASSUME NEW s \in Seq(Nat), Falling(s), NEW m \in 1..Len(s)
    PROVE  LET p == SubSeq(s, 1, m) IN
           /\ p \in Seq(Nat) /\ Len(p) = m /\ Falling(p) /\ p[1] = s[1] /\ p[m] \in Range(s)
           /\ Range(p) \subseteq Range(s)
           /\ \A x \in Range(s) : x > p[m] => x \in Range(p)
<1> DEFINE n == Len(s)
           p == SubSeq(s, 1, m)
<1>1. n \in Nat /\ \A i \in 1..n : s[i] \in Nat OBVIOUS
<1>2. p \in Seq(Nat) /\ Len(p) = m - 1 + 1 /\ \A k \in 1..(m - 1 + 1) : p[k] = s[k + 1 - 1]
    <2>1. 1 \in 1..(n + 1) /\ m \in 0..n /\ 1 <= m + 1 BY <1>1
    <2> HIDE DEF p
    <2> QED BY <2>1, CutAt DEF p
<1> HIDE DEF p
<1>3. Len(p) = m /\ \A k \in 1..m : p[k] = s[k] /\ k \in 1..n
    <2>1. Len(p) = m BY <1>2
    <2>2. \A k \in 1..m : k \in 1..(m - 1 + 1) /\ k + 1 - 1 = k /\ k \in 1..n BY <1>1
    <2>3. \A k \in 1..m : p[k] = s[k]
        <3> TAKE k \in 1..m
        <3>1. p[k] = s[k + 1 - 1] BY <1>2, <2>2
        <3> QED BY <2>2, <3>1
    <2> QED BY <2>1, <2>2, <2>3
<1>4. Range(s) = {s[k] : k \in 1..n} /\ Range(p) = {p[k] : k \in 1..m}
    <2>1. Range(s) = {s[k] : k \in 1..n} BY RangeIs
    <2>2. Range(p) = {p[k] : k \in 1..Len(p)} BY <1>2, RangeIs
    <2> QED BY <1>3, <2>1, <2>2
<1> HIDE DEF n
<1>5. Falling(p) BY <1>3 DEF Falling, n
<1>6. m \in 1..m /\ 1 \in 1..m BY <1>1 DEF n
<1>7. Range(p) \subseteq Range(s) BY <1>3, <1>4, Zenon
<1>8. ASSUME NEW k \in 1..n, s[k] > p[m] PROVE s[k] \in Range(p)
    <2>1. p[m] = s[m] BY <1>3, <1>6
    <2>2. ~(m < k) BY <1>1, <1>3, <1>6, <1>8, <2>1 DEF Falling, n
    <2>3. k \in 1..m BY <1>1, <2>2 DEF n
    <2> QED BY <1>3, <1>4, <2>3, Zenon
<1>9. p[1] = s[1] /\ p[m] \in Range(s) BY <1>3, <1>4, <1>6, Zenon
<1>10. \A x \in Range(s) : x > p[m] => x \in Range(p) BY <1>4, <1>8, Zenon
<1> QED BY <1>2, <1>3, <1>5, <1>7, <1>9, <1>10 DEF p
-----------------------------------------------------------------------------
(* The readers of a growing history.                                       *)

Wanted == {i \in DOMAIN chain : InRange(i)}

WalkTyped ==
    /\ chain \in Seq(Tx) /\ reader \in Readers
    /\ wpc \in {"idle", "walk", "fetch", "done"}
    /\ from \in Nat /\ to \in Nat /\ maxEvents \in Nat /\ maxPages \in Nat
    /\ before \in Nat /\ pages \in Nat /\ landed \in Nat /\ balance \in Nat
    /\ kept \in Seq(Nat) /\ Range(kept) \subseteq DOMAIN chain
    /\ nulls \subseteq DOMAIN chain
    /\ reader # "rebuild" => out \in Seq(Nat)
    /\ landed <= Len(chain)
    /\ reader # "blocks" => before <= Len(chain)

(* The chain is in the order of its slots.                                 *)
SlotsGrow == \A i, j \in DOMAIN chain : i <= j => chain[i].slot <= chain[j].slot

BeforeBegin == wpc = "idle" => before = 0 /\ kept = <<>> /\ out = <<>>

(* A cursor at b has seen everything from b up that was there at the start.*)
Seen(s, b) ==
    /\ s \in Seq(Nat) /\ Falling(s) /\ Range(s) \subseteq Wanted
    /\ b = 0 => s = <<>>
    /\ \A i \in Range(s) : i >= b

SweepWalks ==
    reader = "sweep" /\ wpc = "walk" =>
        /\ out = <<>> /\ Seen(kept, before)
        /\ before # 0 => \A i \in Wanted : before <= i /\ i <= landed => i \in Range(kept)

SweepFetching ==
    reader = "sweep" /\ wpc = "fetch" =>
        /\ Rising(kept) /\ Rising(out)
        /\ Range(kept) \subseteq Wanted /\ Range(out) \subseteq Wanted
        /\ \A i \in Range(out), j \in Range(kept) : i < j
        /\ \A i \in Wanted : i <= landed =>
              \/ i \in nulls \/ chain[i].kind = "failed"
              \/ i \in Range(out) \/ i \in Range(kept)

(* What a catch-up yielded has no hole down to lo.                         *)
NoHole(s, lo) ==
    \A i \in Wanted : lo <= i /\ (i <= landed \/ (s # <<>> /\ i < s[1])) => i \in Range(s)

CatchupWalks ==
    reader = "catchup" /\ wpc = "walk" =>
        /\ Seen(out, before)
        /\ before # 0 => NoHole(out, before)
        /\ maxEvents > 0 => Len(out) < maxEvents

BlocksWalk ==
    reader = "blocks" /\ wpc = "walk" =>
        /\ Rising(out) /\ from <= before
        /\ \A s \in Range(out) : s < before
        /\ \A i \in Wanted : i <= landed /\ chain[i].slot < before => chain[i].slot \in Range(out)

WalkInv ==
    /\ WalkTyped /\ SlotsGrow /\ BeforeBegin
    /\ SweepWalks /\ SweepFetching /\ CatchupWalks /\ BlocksWalk
    /\ SweepIsExact /\ CatchupIsExact /\ BlocksAreExact

LEMMA WalkInvIsExact == WalkInv => HistoryIsExact
<1> SUFFICES ASSUME WalkInv PROVE WalkTypeOK BY DEF WalkInv, HistoryIsExact
<1>1. \A k \in DOMAIN kept : kept[k] \in DOMAIN chain BY DEF WalkInv, WalkTyped, Range
<1> QED BY <1>1 DEF WalkInv, WalkTyped, WalkTypeOK

LEMMA WalkStarts == WalkInit => WalkInv
<1> SUFFICES ASSUME WalkInit PROVE WalkInv OBVIOUS
<1>1. /\ chain = <<>> /\ reader \in Readers /\ wpc = "idle"
      /\ from = 0 /\ to = 0 /\ maxEvents = 0 /\ maxPages = 0
      /\ before = 0 /\ pages = 0 /\ kept = <<>> /\ nulls = {} /\ out = <<>>
      /\ landed = 0 /\ balance = 0
    BY DEF WalkInit
<1>2. <<>> \in Seq(Nat) /\ <<>> \in Seq(Tx) /\ Len(<<>>) = 0 /\ DOMAIN <<>> = {} OBVIOUS
<1>3. Range(<<>>) = {} BY <1>2 DEF Range
<1>4. WalkTyped BY <1>1, <1>2, <1>3 DEF WalkTyped
<1>5. SlotsGrow /\ BeforeBegin BY <1>1, <1>2 DEF SlotsGrow, BeforeBegin
<1>6. SweepWalks /\ SweepFetching /\ CatchupWalks /\ BlocksWalk
    BY <1>1 DEF SweepWalks, SweepFetching, CatchupWalks, BlocksWalk
<1>7. SweepIsExact /\ CatchupIsExact /\ BlocksAreExact
    BY <1>1 DEF SweepIsExact, CatchupIsExact, BlocksAreExact
<1> QED BY <1>4, <1>5, <1>6, <1>7 DEF WalkInv

(* The three promises, once a read is over.                                *)
LEMMA NotDone ==
    ASSUME wpc # "done" PROVE SweepIsExact /\ CatchupIsExact /\ BlocksAreExact
BY DEF SweepIsExact, CatchupIsExact, BlocksAreExact

LEMMA LandsKeepsWalk ==
    ASSUME WalkInv, WalkLands PROVE WalkInv'
<1>1. /\ wpc # "done" /\ UNCHANGED <<reader, wpc, from, to, maxEvents, maxPages, before, pages, kept,
                                     nulls, out, landed, balance>>
    BY DEF WalkLands
<1>2. chain \in Seq(Tx) BY DEF WalkInv, WalkTyped
<1>3. PICK tx \in Tx : /\ chain' = Append(chain, tx)
                       /\ chain # <<>> => tx.slot >= Last(chain).slot
    <2>1. PICK slot \in IF chain = <<>> THEN 0..1 ELSE {Last(chain).slot, Last(chain).slot + 1},
               n \in 0..(Held(chain) + 2), kind \in {"swap", "gift", "airdrop", "out", "other", "failed"} :
               chain' = Append(chain, [slot |-> slot, pre |-> Held(chain), post |-> n, kind |-> kind])
        BY DEF WalkLands
    <2>2. chain # <<>> => Last(chain) \in Tx BY <1>2 DEF Last
    <2>3. Held(chain) \in Nat BY <2>2 DEF Held, Tx
    <2>4. slot \in Nat /\ n \in Nat /\ (chain # <<>> => slot >= Last(chain).slot) BY <2>2, <2>3 DEF Tx
    <2> QED BY <2>1, <2>3, <2>4 DEF Tx
<1> DEFINE n == Len(chain)
<1>4. /\ n \in Nat /\ DOMAIN chain = 1..n /\ DOMAIN chain' = 1..(n + 1) /\ Len(chain') = n + 1
      /\ chain' \in Seq(Tx) /\ chain'[n + 1] = tx /\ \A i \in 1..n : chain'[i] = chain[i] /\ chain[i] \in Tx
    BY <1>2, <1>3
<1>5. landed <= n /\ landed \in Nat BY DEF WalkInv, WalkTyped
<1>6. n # 0 => tx.slot >= chain[n].slot BY <1>2, <1>3 DEF Last
<1> HIDE DEF n
<1>7. \A i \in 1..n : i \in 1..(n + 1) BY <1>4
<1>8. Wanted \subseteq Wanted' /\ \A i \in 1..n : i \in Wanted' => i \in Wanted
    BY <1>1, <1>4, <1>7 DEF Wanted, InRange
<1>9. \A i \in Wanted' : i \in 1..(n + 1) BY <1>4 DEF Wanted
<1>10. WalkTyped'
    <2>1. DOMAIN chain \subseteq DOMAIN chain' BY <1>4, <1>7
    <2>2. landed' <= Len(chain') BY <1>1, <1>4, <1>5
    <2>3. reader' # "blocks" => before' <= Len(chain')
        <3>1. reader # "blocks" => before <= n /\ before \in Nat BY DEF WalkInv, WalkTyped, n
        <3> QED BY <1>1, <1>4, <3>1
    <2> QED BY <1>1, <1>4, <2>1, <2>2, <2>3 DEF WalkInv, WalkTyped
<1>11. SlotsGrow'
    <2> SUFFICES ASSUME NEW i \in 1..(n + 1), NEW j \in 1..(n + 1), i <= j
                 PROVE  chain'[i].slot <= chain'[j].slot
        BY <1>4 DEF SlotsGrow
    <2>0. \A k \in 1..n : chain[k].slot \in Nat BY <1>4 DEF Tx
    <2>1. tx.slot \in Nat BY <1>3 DEF Tx
    <2>2. CASE j \in 1..n
        <3>1. i \in 1..n BY <1>4, <2>2
        <3> QED BY <1>4, <2>2, <3>1 DEF WalkInv, SlotsGrow
    <2>3. CASE j = n + 1 /\ i = n + 1 BY <1>4, <2>1, <2>3
    <2>4. CASE j = n + 1 /\ i \in 1..n
        <3>1. n \in 1..n /\ i <= n /\ n # 0 BY <1>4, <2>4
        <3>2. chain[i].slot <= chain[n].slot BY <1>4, <2>4, <3>1 DEF WalkInv, SlotsGrow
        <3>3. chain'[i].slot = chain[i].slot /\ chain'[j].slot = tx.slot BY <1>4, <2>4
        <3>4. chain[i].slot \in Nat /\ chain[n].slot \in Nat BY <2>0, <2>4, <3>1
        <3> QED BY <1>6, <2>1, <3>1, <3>2, <3>3, <3>4
    <2> QED BY <1>4, <2>2, <2>3, <2>4
<1>12. BeforeBegin' BY <1>1 DEF WalkInv, BeforeBegin
<1>13. \A i \in Wanted' : i <= landed => i \in Wanted BY <1>4, <1>5, <1>8, <1>9
<1>15. SweepWalks'
    <2>1. Seen(kept, before) => Seen(kept, before)' BY <1>1, <1>8 DEF Seen
    <2> QED BY <1>1, <1>13, <2>1 DEF WalkInv, SweepWalks
<1>16. SweepFetching'
    <2>1. \A i \in Wanted : chain'[i] = chain[i] BY <1>4 DEF Wanted
    <2> QED BY <1>1, <1>8, <1>13, <2>1 DEF WalkInv, SweepFetching
<1>17. CatchupWalks'
    <2> SUFFICES ASSUME reader = "catchup", wpc = "walk" PROVE CatchupWalks' BY <1>1 DEF CatchupWalks
    <2>1. Seen(out, before) => Seen(out, before)' BY <1>1, <1>8 DEF Seen
    <2>2. Seen(out, before) /\ (before # 0 => NoHole(out, before)) /\ (maxEvents > 0 => Len(out) < maxEvents)
        BY DEF WalkInv, CatchupWalks
    <2>3. out # <<>> => out[1] \in 1..n
        <3>1. out \in Seq(Nat) /\ Range(out) \subseteq Wanted BY <2>2 DEF Seen
        <3>2. out # <<>> => 1 \in DOMAIN out BY <3>1
        <3> QED BY <1>4, <3>1, <3>2 DEF Range, Wanted
    <2>4. ASSUME before # 0 PROVE NoHole(out, before)'
        <3> SUFFICES ASSUME NEW i \in Wanted', before <= i, i <= landed \/ (out # <<>> /\ i < out[1])
                     PROVE  i \in Range(out)
            BY <1>1 DEF NoHole
        <3>1. i \in Wanted
            <4>1. i \in 1..n BY <1>4, <1>5, <1>9, <2>3
            <4> QED BY <1>8, <4>1
        <3> QED BY <2>2, <2>4, <3>1 DEF NoHole
    <2> QED BY <1>1, <2>1, <2>2, <2>4 DEF CatchupWalks
<1>18. BlocksWalk'
    <2>1. \A i \in Wanted : chain'[i] = chain[i] BY <1>4 DEF Wanted
    <2> QED BY <1>1, <1>13, <2>1 DEF WalkInv, BlocksWalk
<1>19. SweepIsExact' /\ CatchupIsExact' /\ BlocksAreExact'
    BY <1>1 DEF SweepIsExact, CatchupIsExact, BlocksAreExact
<1> QED BY <1>10, <1>11, <1>12, <1>15, <1>16, <1>17, <1>18, <1>19 DEF WalkInv

LEMMA BeginsKeepsWalk ==
    ASSUME WalkAssumption, WalkInv, Begins PROVE WalkInv'
<1>1. /\ wpc = "idle" /\ landed' = Len(chain) /\ balance' = Held(chain)
      /\ wpc' = IF reader \in {"sweep", "blocks"} /\ to' < from' THEN "done" ELSE "walk"
      /\ before' = IF reader = "blocks" THEN from' ELSE 0
      /\ UNCHANGED <<chain, reader, pages, kept, nulls, out>>
    BY DEF Begins
<1>2. from' \in Nat /\ to' \in Nat /\ maxEvents' \in Nat /\ maxPages' \in Nat
    BY DEF Begins, WalkAssumption
<1>3. before = 0 /\ kept = <<>> /\ out = <<>> BY <1>1 DEF WalkInv, BeforeBegin
<1>4. <<>> \in Seq(Nat) /\ Len(<<>>) = 0 /\ Range(<<>>) = {}
    <2>1. <<>> \in Seq(Nat) /\ Len(<<>>) = 0 /\ DOMAIN <<>> = {} OBVIOUS
    <2> QED BY <2>1 DEF Range
<1>5. chain \in Seq(Tx) /\ Len(chain) \in Nat /\ Held(chain) \in Nat
    <2>1. chain \in Seq(Tx) BY DEF WalkInv, WalkTyped
    <2>2. chain # <<>> => Last(chain) \in Tx BY <2>1 DEF Last
    <2> QED BY <2>1, <2>2 DEF Held, Tx
<1>6. WalkTyped' BY <1>1, <1>2, <1>3, <1>4, <1>5 DEF WalkInv, WalkTyped
<1>7. SlotsGrow' BY <1>1 DEF WalkInv, SlotsGrow
<1>8. BeforeBegin' /\ SweepFetching' BY <1>1 DEF BeforeBegin, SweepFetching
<1>9. Falling(<<>>) /\ Rising(<<>>) BY <1>4 DEF Falling, Rising
<1>11. SweepWalks'
    <2>1. reader # "blocks" => before' = 0 /\ Seen(kept, before)'
        BY <1>1, <1>3, <1>4, <1>9 DEF Seen
    <2> QED BY <1>1, <1>3, <2>1 DEF SweepWalks
<1>12. CatchupWalks'
    <2>1. reader # "blocks" => before' = 0 /\ Seen(out, before)'
        BY <1>1, <1>3, <1>4, <1>9 DEF Seen
    <2>2. maxEvents' > 0 => Len(out') < maxEvents' BY <1>1, <1>2, <1>3, <1>4
    <2> QED BY <1>1, <2>1, <2>2 DEF CatchupWalks
<1>13. BlocksWalk'
    <2> SUFFICES ASSUME reader = "blocks" PROVE BlocksWalk' BY <1>1 DEF BlocksWalk
    <2>1. before' = from' /\ out' = <<>> BY <1>1, <1>3
    <2>2. \A i \in Wanted' : ~(chain'[i].slot < from')
        <3> SUFFICES ASSUME NEW i \in DOMAIN chain, InRange(i)' PROVE ~(chain'[i].slot < from')
            BY <1>1 DEF Wanted
        <3>0. chain[i] \in Tx BY <1>5
        <3>1. chain[i].slot \in Nat BY <3>0 DEF Tx
        <3> QED BY <1>1, <1>2, <3>1 DEF InRange
    <2> QED BY <1>2, <1>4, <1>9, <2>1, <2>2 DEF BlocksWalk
<1>14. SweepIsExact'
    BY <1>1, <1>2 DEF SweepIsExact
<1>15. CatchupIsExact' BY <1>1 DEF CatchupIsExact
<1>16. BlocksAreExact'
    <2> SUFFICES ASSUME wpc' = "done" PROVE BlocksAreExact' BY DEF BlocksAreExact
    <2>1. to' < from' /\ out' = <<>> BY <1>1, <1>3
    <2>2. \A i \in 1..landed' : ~InRange(i)'
        <3> SUFFICES ASSUME NEW i \in 1..Len(chain) PROVE ~InRange(i)' BY <1>1
        <3>0. chain[i] \in Tx BY <1>5
        <3>1. chain[i].slot \in Nat BY <3>0 DEF Tx
        <3> QED BY <1>1, <1>2, <2>1, <3>1 DEF InRange
    <2>3. Asked(landed)' = {} BY <2>2 DEF Asked
    <2>4. DOMAIN <<>> = {} OBVIOUS
    <2> QED BY <2>1, <2>3, <2>4 DEF BlocksAreExact
<1> QED BY <1>6, <1>7, <1>8, <1>11, <1>12, <1>13, <1>14, <1>15, <1>16 DEF WalkInv
(* A page: the signatures from Newest down to Lo.                          *)
Newest == IF before = 0 THEN Len(chain) ELSE before - 1
Lo == Newest - Len(Page) + 1

LEMMA PageIs ==
    ASSUME WalkAssumption, WalkTyped, reader # "blocks"
    PROVE  /\ Page \in Seq(Nat) /\ Newest \in Nat /\ Newest <= Len(chain) /\ Lo \in Nat \ {0}
           /\ Lo <= Newest + 1 /\ DOMAIN chain = 1..Len(chain) /\ Len(chain) \in Nat
           /\ Falling(Page) /\ Range(Page) = Lo..Newest
           /\ Page # <<>> => Last(Page) = Lo /\ Lo <= Newest
           /\ Len(Page) < PageSize => Lo = 1
           /\ Page = <<>> => Newest = 0
<1> DEFINE l == IF Newest < PageSize THEN Newest ELSE PageSize
           p == [k \in 1..l |-> Newest - k + 1]
<1>1. Page = p BY DEF Page, Newest
<1>2. chain \in Seq(Tx) /\ before \in Nat /\ before <= Len(chain) BY DEF WalkTyped
<1>3. Len(chain) \in Nat /\ DOMAIN chain = 1..Len(chain) BY <1>2
<1>4. Newest \in Nat /\ Newest <= Len(chain) BY <1>2, <1>3 DEF Newest
<1>5. PageSize \in Nat \ {0} BY DEF WalkAssumption
<1> HIDE DEF Newest
<1>6. l \in Nat /\ l <= Newest /\ (l < PageSize => l = Newest) /\ (l = 0 => Newest = 0) BY <1>4, <1>5
<1> HIDE DEF l
<1>7. \A k \in 1..l : Newest - k + 1 \in Nat BY <1>4, <1>6
<1>8. p \in Seq(Nat) /\ Len(p) = l /\ \A k \in 1..l : p[k] = Newest - k + 1
    <2>1. p \in [1..l -> Nat] BY <1>7
    <2>2. \A k \in 1..l : p[k] = Newest - k + 1 OBVIOUS
    <2> HIDE DEF p
    <2> QED BY <1>6, <2>1, <2>2
<1> HIDE DEF p
<1>9. Lo = Newest - l + 1 BY <1>1, <1>8 DEF Lo
<1>10. Lo \in Nat \ {0} /\ Lo <= Newest + 1 BY <1>4, <1>6, <1>9
<1>11. Falling(p) BY <1>4, <1>6, <1>8 DEF Falling
<1>12. Range(p) = Lo..Newest
    <2>1. Range(p) = {p[k] : k \in 1..l} BY <1>8, RangeIs
    <2>2. \A k \in 1..l : p[k] \in Lo..Newest BY <1>4, <1>6, <1>8, <1>9
    <2>3. \A i \in Lo..Newest : Newest - i + 1 \in 1..l /\ p[Newest - i + 1] = i
        <3> TAKE i \in Lo..Newest
        <3>1. Newest - i + 1 \in 1..l BY <1>4, <1>6, <1>9
        <3>2. p[Newest - i + 1] = Newest - (Newest - i + 1) + 1 BY <1>8, <3>1
        <3> QED BY <1>4, <1>10, <3>1, <3>2
    <2>4. Range(p) \subseteq Lo..Newest BY <2>1, <2>2, Zenon
    <2>5. Lo..Newest \subseteq Range(p) BY <2>1, <2>3, Zenon
    <2> QED BY <2>4, <2>5, Zenon
<1>13. p # <<>> => l \in 1..l BY <1>6, <1>8
<1>14. p # <<>> => Last(p) = Lo /\ Lo <= Newest
    <2> SUFFICES ASSUME p # <<>> PROVE Last(p) = Lo /\ Lo <= Newest OBVIOUS
    <2>1. p[l] = Newest - l + 1 /\ l \in 1..l BY <1>8, <1>13
    <2> QED BY <1>4, <1>6, <1>8, <1>9, <2>1 DEF Last
<1>15. Len(p) < PageSize => Lo = 1 BY <1>4, <1>6, <1>8, <1>9
<1>16. p = <<>> => Newest = 0 BY <1>6, <1>8
<1> QED BY <1>1, <1>3, <1>4, <1>8, <1>10, <1>11, <1>12, <1>14, <1>15, <1>16

LEMMA KeptIs ==
    ASSUME WalkAssumption, WalkTyped, reader # "blocks"
    PROVE  /\ Kept(Page) \in Seq(Nat) /\ Falling(Kept(Page))
           /\ Range(Kept(Page)) = {i \in Wanted : Lo <= i /\ i <= Newest}
<1> DEFINE S == {i \in Range(Page) : InRange(i)}
<1>1. /\ Page \in Seq(Nat) /\ Falling(Page) /\ Range(Page) = Lo..Newest
      /\ Newest \in Nat /\ Newest <= Len(chain) /\ Lo \in Nat \ {0}
      /\ DOMAIN chain = 1..Len(chain) /\ Len(chain) \in Nat
    BY PageIs
<1>2. Kept(Page) = Only(Page, S) BY DEF Kept
<1>3. Lo..Newest \subseteq DOMAIN chain BY <1>1
<1>4. Range(Page) \cap S = {i \in Wanted : Lo <= i /\ i <= Newest}
    BY <1>1, <1>3 DEF Wanted
<1> HIDE DEF S
<1> QED BY <1>1, <1>2, <1>4, OnlyInOrder

(* Reading one more page after what was seen down to the cursor.           *)
LEMMA SeenGoesOn ==
    ASSUME WalkAssumption, WalkTyped, reader # "blocks", NEW s, Seen(s, before)
    PROVE  /\ s \o Kept(Page) \in Seq(Nat) /\ Falling(s \o Kept(Page))
           /\ Range(s \o Kept(Page)) = Range(s) \union {i \in Wanted : Lo <= i /\ i <= Newest}
           /\ \A i \in Range(s \o Kept(Page)) : i \in Wanted /\ i >= Lo
           /\ \A i \in Wanted : i <= Newest \/ (before # 0 /\ before <= i)
<1>1. /\ Newest \in Nat /\ Lo \in Nat \ {0} /\ Lo <= Newest + 1
      /\ DOMAIN chain = 1..Len(chain) /\ Len(chain) \in Nat
    BY PageIs
<1>2. /\ Kept(Page) \in Seq(Nat) /\ Falling(Kept(Page))
      /\ Range(Kept(Page)) = {i \in Wanted : Lo <= i /\ i <= Newest}
    BY KeptIs
<1>3. s \in Seq(Nat) /\ Falling(s) /\ Range(s) \subseteq Wanted /\ \A i \in Range(s) : i >= before
    BY DEF Seen
<1>4. before \in Nat BY DEF WalkTyped
<1>5. \A i \in Wanted : i \in 1..Len(chain) BY <1>1 DEF Wanted
<1>6. \A i \in Range(s) : i > Newest
    <2>1. CASE before = 0
        <3>1. s = <<>> BY <2>1 DEF Seen
        <3>2. DOMAIN <<>> = {} OBVIOUS
        <3> QED BY <3>1, <3>2 DEF Range
    <2>2. CASE before # 0
        <3>1. Newest = before - 1 BY <2>2 DEF Newest
        <3> QED BY <1>3, <1>4, <1>5, <3>1
    <2> QED BY <2>1, <2>2
<1> DEFINE q == Kept(Page)
<1> HIDE DEF q
<1>7. \A x \in Range(s), y \in Range(q) : x > y BY <1>1, <1>2, <1>3, <1>5, <1>6 DEF q
<1>8. s \o q \in Seq(Nat) /\ Falling(s \o q) BY <1>2, <1>3, <1>7, JoinFalls DEF q
<1>9. Range(s \o q) = Range(s) \union Range(q) BY <1>2, <1>3, RangeOfJoin DEF q
<1>10. \A i \in Range(s \o q) : i \in Wanted /\ i >= Lo BY <1>1, <1>2, <1>3, <1>5, <1>6, <1>9 DEF q
<1>11. \A i \in Wanted : i <= Newest \/ (before # 0 /\ before <= i) BY <1>4, <1>5 DEF Newest
<1> QED BY <1>2, <1>8, <1>9, <1>10, <1>11 DEF q

(* Slots only grow along the chain: below a slot under the range there is  *)
(* nothing in it.                                                          *)
LEMMA NothingBelow ==
    ASSUME WalkAssumption, WalkInv, reader # "blocks", LastPage(Page) \/ BelowRange(Page)
    PROVE  \A i \in Wanted : i >= Lo
<1>1. /\ Page \in Seq(Nat) /\ Range(Page) = Lo..Newest /\ Lo \in Nat \ {0} /\ Newest \in Nat
      /\ Newest <= Len(chain) /\ Len(chain) \in Nat /\ DOMAIN chain = 1..Len(chain)
      /\ Len(Page) < PageSize => Lo = 1
    BY PageIs DEF WalkInv
<1> SUFFICES ASSUME NEW i \in Wanted, ~(i >= Lo) PROVE FALSE OBVIOUS
<1>2. i \in 1..Len(chain) /\ from <= chain[i].slot BY <1>1 DEF Wanted, InRange
<1>3. ~(Len(Page) < PageSize) BY <1>1, <1>2
<1>4. PICK k \in DOMAIN Page : chain[Page[k]].slot < from BY <1>3 DEF LastPage, BelowRange
<1>5. Page[k] \in Lo..Newest BY <1>1, <1>4 DEF Range
<1>6. Page[k] \in 1..Len(chain) /\ i <= Page[k] BY <1>1, <1>2, <1>5
<1>7. chain[i].slot <= chain[Page[k]].slot BY <1>1, <1>2, <1>6 DEF WalkInv, SlotsGrow
<1>8. chain[i] \in Tx /\ chain[Page[k]] \in Tx /\ from \in Nat BY <1>2, <1>6 DEF WalkInv, WalkTyped
<1> QED BY <1>2, <1>4, <1>7, <1>8 DEF Tx

LEMMA SweepPageKeepsWalk ==
    ASSUME WalkAssumption, WalkInv, SweepPage PROVE WalkInv'
<1> DEFINE t == kept \o Kept(Page)
<1>1. /\ reader = "sweep" /\ wpc = "walk"
      /\ UNCHANGED <<chain, reader, from, to, maxEvents, maxPages, pages, nulls, out, landed, balance>>
    BY DEF SweepPage
<1>2. IF LastPage(Page) THEN kept' = OldestFirst(t) /\ wpc' = "fetch" /\ before' = before
      ELSE kept' = t /\ wpc' = wpc /\ NextPage(Page)
    BY DEF SweepPage
<1>3. /\ out = <<>> /\ Seen(kept, before)
      /\ before # 0 => \A i \in Wanted : before <= i /\ i <= landed => i \in Range(kept)
    BY <1>1 DEF WalkInv, SweepWalks
<1>4. WalkTyped /\ reader # "blocks" BY <1>1 DEF WalkInv
<1>5. /\ t \in Seq(Nat) /\ Falling(t)
      /\ Range(t) = Range(kept) \union {i \in Wanted : Lo <= i /\ i <= Newest}
      /\ \A i \in Range(t) : i \in Wanted /\ i >= Lo
      /\ \A i \in Wanted : i <= Newest \/ (before # 0 /\ before <= i)
    BY <1>3, <1>4, SeenGoesOn
<1> HIDE DEF t
<1>6. \A i \in Wanted : Lo <= i /\ i <= landed => i \in Range(t) BY <1>3, <1>5
<1>7. Wanted' = Wanted /\ Wanted \subseteq DOMAIN chain BY <1>1 DEF Wanted, InRange
<1>8. /\ Page # <<>> => Last(Page) = Lo /\ Lo <= Newest
      /\ Newest \in Nat /\ Newest <= Len(chain) /\ Lo \in Nat \ {0} /\ Len(chain) \in Nat
      /\ Len(Page) < PageSize \/ Page # <<>>
    <2>1. Page = <<>> => Len(Page) = 0 OBVIOUS
    <2>2. PageSize > 0 BY DEF WalkAssumption
    <2> QED BY <1>4, <2>1, <2>2, PageIs
<1>9. CASE LastPage(Page)
    <2>1. kept' = Reverse(t) /\ wpc' = "fetch" /\ before' = before BY <1>2, <1>9 DEF OldestFirst
    <2>2. kept' \in Seq(Nat) /\ Rising(kept') /\ Range(kept') = Range(t) BY <1>5, <2>1, ReverseRises
    <2>3. Range(kept') \subseteq Wanted /\ Range(kept') \subseteq DOMAIN chain BY <1>5, <1>7, <2>2
    <2>4. \A i \in Wanted : i <= landed => i \in Range(kept')
        <3>1. \A i \in Wanted : i >= Lo BY <1>1, <1>9, NothingBelow
        <3>2. \A i \in Wanted : i \in Nat BY <1>4, <1>7, PageIs
        <3> QED BY <1>6, <1>8, <2>2, <3>1, <3>2
    <2>5. <<>> \in Seq(Nat) /\ Len(<<>>) = 0 /\ DOMAIN <<>> = {} OBVIOUS
    <2>6. Rising(<<>>) /\ Range(<<>>) = {} BY <2>5 DEF Rising, Range
    <2>7. SweepFetching' BY <1>1, <1>3, <1>7, <2>2, <2>3, <2>4, <2>6 DEF SweepFetching
    <2>8. WalkTyped' BY <1>1, <1>4, <2>1, <2>2, <2>3 DEF WalkTyped
    <2>9. SlotsGrow' BY <1>1 DEF WalkInv, SlotsGrow
    <2>10. BeforeBegin' /\ SweepWalks' /\ CatchupWalks' /\ BlocksWalk'
        BY <1>1, <2>1 DEF BeforeBegin, SweepWalks, CatchupWalks, BlocksWalk
    <2>11. SweepIsExact' /\ CatchupIsExact' /\ BlocksAreExact'
        BY <2>1 DEF SweepIsExact, CatchupIsExact, BlocksAreExact
    <2> QED BY <2>7, <2>8, <2>9, <2>10, <2>11 DEF WalkInv
<1>10. CASE ~LastPage(Page)
    <2>1. kept' = t /\ wpc' = "walk" /\ before' = Last(Page) BY <1>1, <1>2, <1>10 DEF NextPage
    <2>2. Page # <<>> BY <1>8, <1>10 DEF LastPage
    <2>3. before' = Lo /\ Lo \in Nat \ {0} /\ Lo <= Len(chain) BY <1>8, <2>1, <2>2
    <2>4. Range(t) \subseteq Wanted /\ Range(t) \subseteq DOMAIN chain BY <1>5, <1>7
    <2>5. SweepWalks' BY <1>1, <1>3, <1>5, <1>6, <1>7, <2>1, <2>3, <2>4 DEF SweepWalks, Seen
    <2>8. WalkTyped' BY <1>1, <1>4, <1>5, <2>1, <2>3, <2>4 DEF WalkTyped
    <2>9. SlotsGrow' BY <1>1 DEF WalkInv, SlotsGrow
    <2>10. BeforeBegin' /\ SweepFetching' /\ CatchupWalks' /\ BlocksWalk'
        BY <1>1, <2>1 DEF BeforeBegin, SweepFetching, CatchupWalks, BlocksWalk
    <2>11. SweepIsExact' /\ CatchupIsExact' /\ BlocksAreExact'
        BY <2>1 DEF SweepIsExact, CatchupIsExact, BlocksAreExact
    <2> QED BY <2>5, <2>8, <2>9, <2>10, <2>11 DEF WalkInv
<1> QED BY <1>9, <1>10

LEMMA SweepFetchesKeepsWalk ==
    ASSUME WalkInv, SweepFetches PROVE WalkInv'
<1>1. /\ reader = "sweep" /\ wpc = "fetch"
      /\ UNCHANGED <<chain, reader, from, to, maxEvents, maxPages, before, pages, landed, balance>>
    BY DEF SweepFetches
<1>2. /\ Rising(kept) /\ Rising(out)
      /\ Range(kept) \subseteq Wanted /\ Range(out) \subseteq Wanted
      /\ \A i \in Range(out), j \in Range(kept) : i < j
      /\ \A i \in Wanted : i <= landed =>
            i \in nulls \/ chain[i].kind = "failed" \/ i \in Range(out) \/ i \in Range(kept)
    BY <1>1 DEF WalkInv, SweepFetching
<1>3. WalkTyped /\ kept \in Seq(Nat) /\ out \in Seq(Nat) BY <1>1 DEF WalkInv, WalkTyped
<1>4. Wanted' = Wanted /\ Wanted \subseteq DOMAIN chain BY <1>1 DEF Wanted, InRange
<1>5. SlotsGrow' BY <1>1 DEF WalkInv, SlotsGrow
<1>6. CatchupIsExact' /\ BlocksAreExact' /\ SweepWalks' /\ CatchupWalks' /\ BlocksWalk'
    <2>1. wpc' # "walk" /\ wpc' # "idle" BY <1>1 DEF SweepFetches
    <2> QED BY <1>1, <2>1 DEF CatchupIsExact, BlocksAreExact, SweepWalks, CatchupWalks, BlocksWalk
<1>7. CASE kept = <<>>
    <2>1. wpc' = "done" /\ UNCHANGED <<kept, out, nulls>> BY <1>7 DEF SweepFetches
    <2>2. DOMAIN <<>> = {} OBVIOUS
    <2>3. Range(kept) = {} BY <1>7, <2>2 DEF Range
    <2>4. WalkTyped' BY <1>1, <1>3, <2>1 DEF WalkTyped
    <2>5. BeforeBegin' /\ SweepFetching' BY <2>1 DEF BeforeBegin, SweepFetching
    <2>6. SweepIsExact'
        <3>1. \A i \in Asked(landed) \ nulls : chain[i].kind # "failed" => i \in Range(out)
            <4>1. landed <= Len(chain) /\ landed \in Nat /\ chain \in Seq(Tx) BY <1>3 DEF WalkTyped
            <4>2. \A i \in 1..landed : i \in DOMAIN chain /\ i <= landed BY <4>1
            <4>3. \A i \in Asked(landed) : i \in Wanted /\ i <= landed BY <4>2 DEF Asked, Wanted
            <4> QED BY <1>2, <2>3, <4>3
        <3>2. \A i \in Range(out) : InRange(i) BY <1>2 DEF Wanted
        <3>3. DOMAIN out = 1..Len(out) BY <1>3
        <3>4. \A j, k \in DOMAIN out : j < k => out[j] < out[k] BY <1>2, <3>3 DEF Rising
        <3> QED BY <1>1, <2>1, <3>1, <3>2, <3>4 DEF SweepIsExact, Asked, InRange
    <2> QED BY <1>5, <1>6, <2>4, <2>5, <2>6 DEF WalkInv
<1>8. CASE kept # <<>>
    <2> DEFINE i == Head(kept)
    <2>1. /\ kept' = Tail(kept) /\ wpc' = wpc
          /\ \/ chain[i].kind = "failed" /\ UNCHANGED <<out, nulls>>
             \/ chain[i].kind # "failed" /\ nulls' = nulls \union {i} /\ out' = out
             \/ chain[i].kind # "failed" /\ out' = Append(out, i) /\ nulls' = nulls
        BY <1>8 DEF SweepFetches
    <2>2. /\ i \in Nat /\ Tail(kept) \in Seq(Nat) /\ Rising(Tail(kept))
          /\ Range(kept) = {i} \union Range(Tail(kept))
          /\ \A x \in Range(Tail(kept)) : i < x
        BY <1>2, <1>3, <1>8, HeadIsLeast
    <2> HIDE DEF i
    <2>3. i \in Wanted /\ \A x \in Range(out) : x < i BY <1>2, <2>2
    <2>4. /\ out' \in Seq(Nat) /\ Rising(out')
          /\ Range(out') \subseteq Range(out) \union {i} /\ Range(out) \subseteq Range(out')
          /\ nulls' \subseteq nulls \union {i} /\ nulls \subseteq nulls'
          /\ i \in nulls' \/ chain[i].kind = "failed" \/ i \in Range(out')
        <3>1. CASE out' = out BY <1>2, <1>3, <2>1, <3>1
        <3>2. CASE out' = Append(out, i) /\ nulls' = nulls
            <4>1. /\ Append(out, i) \in Seq(Nat) /\ Rising(Append(out, i))
                  /\ Range(Append(out, i)) = Range(out) \union {i}
                BY <1>2, <1>3, <2>2, <2>3, AppendRises
            <4> QED BY <3>2, <4>1
        <3> QED BY <2>1, <3>1, <3>2
    <2>5. \A x \in Range(out'), y \in Range(kept') : x < y BY <1>2, <2>1, <2>2, <2>4
    <2>6. Range(kept') \subseteq Wanted /\ Range(out') \subseteq Wanted BY <1>2, <2>1, <2>2, <2>3, <2>4
    <2>7. \A j \in Wanted : j <= landed =>
            j \in nulls' \/ chain[j].kind = "failed" \/ j \in Range(out') \/ j \in Range(kept')
        BY <1>2, <2>1, <2>2, <2>4
    <2>8. SweepFetching' BY <1>1, <1>4, <2>1, <2>2, <2>4, <2>5, <2>6, <2>7 DEF SweepFetching
    <2>9. WalkTyped'
        <3>1. Range(kept') \subseteq DOMAIN chain /\ nulls' \subseteq DOMAIN chain
            BY <1>3, <1>4, <2>3, <2>4, <2>6 DEF WalkTyped
        <3> QED BY <1>1, <1>3, <2>1, <2>2, <2>4, <3>1 DEF WalkTyped
    <2>10. BeforeBegin' /\ SweepIsExact' BY <1>1, <2>1 DEF BeforeBegin, SweepIsExact
    <2> QED BY <1>5, <1>6, <2>8, <2>9, <2>10 DEF WalkInv
<1> QED BY <1>7, <1>8
(* What a catch-up has after a page, before it is cut at its limit.        *)
LEMMA YieldHasNoHole ==
    ASSUME WalkAssumption, WalkTyped, reader # "blocks", Seen(out, before),
           before # 0 => NoHole(out, before)
    PROVE  NoHole(out \o Kept(Page), Lo)
<1> DEFINE q == Kept(Page)
           es == out \o q
<1>1. /\ q \in Seq(Nat) /\ Range(q) = {i \in Wanted : Lo <= i /\ i <= Newest} BY KeptIs
<1>2. /\ es \in Seq(Nat) /\ Range(es) = Range(out) \union {i \in Wanted : Lo <= i /\ i <= Newest}
      /\ \A i \in Wanted : i <= Newest \/ (before # 0 /\ before <= i)
    BY SeenGoesOn
<1>3. out \in Seq(Nat) BY DEF Seen
<1>4. Newest \in Nat /\ Lo \in Nat \ {0} /\ DOMAIN chain = 1..Len(chain) BY PageIs
<1>5. out # <<>> => es[1] = out[1] BY <1>1, <1>3
<1>6. out = <<>> => es = q BY <1>1
<1> HIDE DEF q
<1>7. q # <<>> => q[1] \in Range(q)
    <2>1. q # <<>> => 1 \in DOMAIN q BY <1>1
    <2> QED BY <2>1 DEF Range
<1> HIDE DEF es
<1> SUFFICES ASSUME NEW i \in Wanted, Lo <= i, i <= landed \/ (es # <<>> /\ i < es[1])
             PROVE  i \in Range(es)
    BY DEF NoHole, es, q
<1>8. CASE i <= Newest BY <1>2, <1>8
<1>9. CASE ~(i <= Newest)
    <2>1. before # 0 /\ before <= i BY <1>2, <1>9
    <2>2. i \in Nat BY <1>4 DEF Wanted
    <2>3. i <= landed \/ (out # <<>> /\ i < out[1])
        <3> SUFFICES ASSUME out = <<>>, es # <<>>, i < es[1] PROVE FALSE BY <1>5
        <3>1. q # <<>> /\ es[1] = q[1] BY <1>6
        <3>2. q[1] \in Nat /\ q[1] <= Newest BY <1>1, <1>4, <1>7, <3>1 DEF Wanted
        <3> QED BY <1>4, <1>9, <2>2, <3>1, <3>2
    <2>4. i \in Range(out) BY <2>1, <2>3 DEF NoHole
    <2> QED BY <1>2, <2>4
<1> QED BY <1>8, <1>9

(* The promise of a catch-up that ends: nothing between its ends is        *)
(* missing, and nothing at all unless it was limited.                      *)
LEMMA CatchupEnds ==
    ASSUME WalkTyped, NEW lo \in Nat, NEW s \in Seq(Nat), Falling(s),
           \A i \in Range(s) : i \in Wanted /\ i >= lo,
           NoHole(s, lo),
           \/ \A i \in Wanted : i >= lo
           \/ maxPages > 0
           \/ maxEvents > 0 /\ Len(s) = maxEvents,
           reader' = reader, chain' = chain, from' = from, to' = to, landed' = landed,
           maxPages' = maxPages, maxEvents' = maxEvents, out' = s
    PROVE  CatchupIsExact'
<1>1. DOMAIN s = 1..Len(s) /\ Range(s) = {s[k] : k \in 1..Len(s)} BY RangeIs
<1>2. \A j, k \in DOMAIN s : j < k => s[j] > s[k] BY <1>1 DEF Falling
<1>3. \A k \in DOMAIN s : InRange(s[k]) /\ s[k] >= lo /\ s[k] \in Nat BY <1>1 DEF Wanted
<1>4. \A i \in Asked(landed) : i \in Wanted /\ i <= landed
    <2>1. landed <= Len(chain) /\ landed \in Nat /\ chain \in Seq(Tx) BY DEF WalkTyped
    <2>2. \A i \in 1..landed : i \in DOMAIN chain /\ i <= landed BY <2>1
    <2> QED BY <2>2 DEF Asked, Wanted
<1>5. \A i \in Asked(landed) : i \in Range(s) \/ maxPages > 0 \/ (maxEvents > 0 /\ Len(s) = maxEvents)
    BY <1>4 DEF NoHole
<1>6. ASSUME NEW i \in DOMAIN chain, s # <<>>, InRange(i), Last(s) < i, i < s[1] PROVE i \in Range(s)
    <2>1. Len(s) \in DOMAIN s BY <1>6
    <2>2. Last(s) >= lo /\ Last(s) \in Nat BY <1>3, <2>1 DEF Last
    <2>3. i \in Nat /\ i \in Wanted
        <3>1. chain \in Seq(Tx) BY DEF WalkTyped
        <3>2. DOMAIN chain = 1..Len(chain) BY <3>1
        <3> QED BY <1>6, <3>2 DEF Wanted
    <2>4. lo <= i BY <1>6, <2>2, <2>3
    <2> QED BY <1>6, <2>3, <2>4 DEF NoHole
<1> QED BY <1>2, <1>3, <1>5, <1>6 DEF CatchupIsExact, Asked, InRange

LEMMA CatchupPageKeepsWalk ==
    ASSUME WalkAssumption, WalkInv, CatchupPage PROVE WalkInv'
<1> DEFINE es == out \o Kept(Page)
           cut == maxEvents > 0 /\ Len(es) > maxEvents
<1>1. /\ reader = "catchup" /\ wpc = "walk"
      /\ UNCHANGED <<chain, reader, from, to, maxEvents, maxPages, kept, nulls, landed, balance>>
    BY DEF CatchupPage
<1>2. \/ /\ (maxPages > 0 /\ pages >= maxPages) \/ Page = <<>>
         /\ wpc' = "done" /\ out' = out /\ before' = before /\ pages' = pages
      \/ /\ Page # <<>>
         /\ out' = Yielded(Page) /\ pages' = pages + 1
         /\ \/ /\ BelowRange(Page) \/ (maxEvents > 0 /\ Len(out') >= maxEvents)
               /\ wpc' = "done" /\ before' = before
            \/ /\ ~(maxEvents > 0 /\ Len(out') >= maxEvents)
               /\ wpc' = wpc /\ before' = Last(Page)
    BY DEF CatchupPage, NextPage
<1>3. /\ Seen(out, before) /\ (before # 0 => NoHole(out, before))
      /\ maxEvents > 0 => Len(out) < maxEvents
    BY <1>1 DEF WalkInv, CatchupWalks
<1>4. WalkTyped /\ reader # "blocks" BY <1>1 DEF WalkInv
<1>5. /\ es \in Seq(Nat) /\ Falling(es)
      /\ \A i \in Range(es) : i \in Wanted /\ i >= Lo
      /\ NoHole(es, Lo)
    BY <1>3, <1>4, SeenGoesOn, YieldHasNoHole
<1>6. Yielded(Page) = IF cut THEN SubSeq(es, 1, maxEvents) ELSE es BY DEF Yielded
<1>7. Wanted' = Wanted /\ Wanted \subseteq DOMAIN chain BY <1>1 DEF Wanted, InRange
<1>8. /\ Page # <<>> => Last(Page) = Lo /\ Lo <= Newest
      /\ Newest \in Nat /\ Newest <= Len(chain) /\ Lo \in Nat \ {0} /\ Len(chain) \in Nat
      /\ Page = <<>> => Newest = 0
      /\ DOMAIN chain = 1..Len(chain)
    BY <1>4, PageIs
<1>9. maxEvents \in Nat /\ pages \in Nat /\ before \in Nat BY <1>4 DEF WalkTyped
<1>10. SlotsGrow' BY <1>1 DEF WalkInv, SlotsGrow
<1>11. SweepWalks' /\ SweepFetching' /\ BlocksWalk' /\ SweepIsExact' /\ BlocksAreExact'
    BY <1>1 DEF SweepWalks, SweepFetching, BlocksWalk, SweepIsExact, BlocksAreExact
<1> HIDE DEF es
<1>12. CASE /\ (maxPages > 0 /\ pages >= maxPages) \/ Page = <<>>
            /\ wpc' = "done" /\ out' = out /\ before' = before /\ pages' = pages
    <2>1. WalkTyped' BY <1>1, <1>4, <1>12 DEF WalkTyped
    <2>2. BeforeBegin' /\ CatchupWalks' BY <1>12 DEF BeforeBegin, CatchupWalks
    <2>3. out \in Seq(Nat) /\ Falling(out) /\ \A i \in Range(out) : i \in Wanted /\ i >= before
        BY <1>3 DEF Seen
    <2>4. ASSUME Page = <<>> PROVE \A i \in Wanted : i >= before
        <3>1. Newest = 0 BY <1>8, <2>4
        <3>2. before = 0 \/ before = 1 BY <1>9, <3>1 DEF Newest
        <3> QED BY <1>7, <1>8, <3>2
    <2>5. maxPages > 0 \/ Page = <<>> BY <1>12
    <2>6. CatchupIsExact'
        <3>1. CASE before # 0
            <4>1. NoHole(out, before) BY <1>3, <3>1
            <4>2. maxPages > 0 \/ \A i \in Wanted : i >= before BY <2>4, <2>5
            <4> QED BY <1>1, <1>4, <1>9, <1>12, <2>3, <4>1, <4>2, CatchupEnds
        <3>2. CASE before = 0
            <4> DEFINE lo == Len(chain) + 1
            <4>1. lo \in Nat /\ \A i \in Wanted : i \in Nat /\ i < lo BY <1>7, <1>8
            <4>2. out = <<>> /\ Range(out) = {}
                <5>1. out = <<>> BY <1>3, <3>2 DEF Seen
                <5>2. DOMAIN out = {} BY <5>1
                <5> QED BY <5>1, <5>2 DEF Range
            <4>3. maxPages > 0 \/ \A i \in Wanted : i >= lo
                <5>1. Page = <<>> => Len(chain) = 0 BY <1>8, <3>2 DEF Newest
                <5>2. Page = <<>> => Wanted = {} BY <1>7, <1>8, <5>1
                <5> QED BY <2>5, <5>2
            <4> HIDE DEF lo
            <4>4. NoHole(out, lo)
                <5> SUFFICES ASSUME NEW i \in Wanted, lo <= i PROVE FALSE BY DEF NoHole
                <5> QED BY <4>1
            <4>5. \A i \in Range(out) : i \in Wanted /\ i >= lo BY <4>2
            <4> QED BY <1>1, <1>4, <1>12, <2>3, <4>1, <4>3, <4>4, <4>5, CatchupEnds
        <3> QED BY <3>1, <3>2
    <2> QED BY <1>10, <1>11, <2>1, <2>2, <2>6 DEF WalkInv
<1>13. ASSUME Page # <<>>, out' = Yielded(Page), pages' = pages + 1, cut PROVE WalkInv'
    <2> DEFINE p == SubSeq(es, 1, maxEvents)
    <2>1. maxEvents \in 1..Len(es) BY <1>5, <1>9, <1>13
    <2>2. /\ p \in Seq(Nat) /\ Len(p) = maxEvents /\ Falling(p) /\ p[1] = es[1] /\ p[maxEvents] \in Range(es)
          /\ Range(p) \subseteq Range(es)
          /\ \A x \in Range(es) : x > p[maxEvents] => x \in Range(p)
        BY <1>5, <2>1, PrefixFalls
    <2>3. out' = p BY <1>6, <1>13
    <2> HIDE DEF p
    <2>4. wpc' = "done" /\ before' = before
        <3>1. maxEvents > 0 /\ Len(out') >= maxEvents BY <1>9, <1>13, <2>2, <2>3
        <3>2. pages' # pages BY <1>9, <1>13
        <3> QED BY <1>2, <3>1, <3>2
    <2>5. WalkTyped' BY <1>1, <1>4, <1>9, <1>13, <2>2, <2>3, <2>4 DEF WalkTyped
    <2>6. BeforeBegin' /\ CatchupWalks' BY <2>4 DEF BeforeBegin, CatchupWalks
    <2>7. p[maxEvents] \in Nat /\ p[maxEvents] \in Wanted /\ p[maxEvents] >= Lo BY <1>5, <1>7, <1>8, <2>2
    <2>8. \A i \in Range(p) : i \in Wanted /\ i >= p[maxEvents]
        <3>1. \A i \in Range(p) : i \in Wanted BY <1>5, <2>2
        <3>2. Range(p) = {p[k] : k \in 1..maxEvents} BY <2>2, RangeIs
        <3>3. \A k \in 1..maxEvents : p[k] >= p[maxEvents]
            <4> TAKE k \in 1..maxEvents
            <4>0. k = maxEvents \/ k < maxEvents BY <1>9
            <4>1. maxEvents \in 1..maxEvents BY <2>1
            <4>2. k < maxEvents => p[k] > p[maxEvents] BY <2>2, <4>1 DEF Falling
            <4>3. p[k] \in Nat BY <2>2
            <4> QED BY <2>7, <4>0, <4>2, <4>3
        <3> QED BY <3>1, <3>2, <3>3, Zenon
    <2>9. NoHole(p, p[maxEvents] + 1)
        <3> SUFFICES ASSUME NEW i \in Wanted, p[maxEvents] + 1 <= i,
                            i <= landed \/ (p # <<>> /\ i < p[1])
                     PROVE  i \in Range(p)
            BY DEF NoHole
        <3>1. i \in Nat BY <1>7, <1>8
        <3>2. Lo <= i /\ i > p[maxEvents] BY <1>8, <2>7, <3>1
        <3>3. es # <<>> BY <1>5, <2>1
        <3>4. i \in Range(es) BY <1>5, <2>2, <3>2, <3>3 DEF NoHole
        <3> QED BY <2>2, <3>2, <3>4
    <2>10. NoHole(p, p[maxEvents])
        <3> SUFFICES ASSUME NEW i \in Wanted, p[maxEvents] <= i,
                            i <= landed \/ (p # <<>> /\ i < p[1])
                     PROVE  i \in Range(p)
            BY DEF NoHole
        <3>1. i \in Nat BY <1>7, <1>8
        <3>2. CASE i = p[maxEvents]
            <4>1. Range(p) = {p[k] : k \in 1..maxEvents} /\ maxEvents \in 1..maxEvents
                BY <2>1, <2>2, RangeIs
            <4> QED BY <3>2, <4>1
        <3>3. CASE i # p[maxEvents]
            <4>1. p[maxEvents] + 1 <= i BY <2>7, <3>1, <3>3
            <4> QED BY <2>9, <4>1 DEF NoHole
        <3> QED BY <3>2, <3>3
    <2>11. maxEvents > 0 /\ Len(p) = maxEvents BY <1>13, <2>2
    <2> DEFINE lo == p[maxEvents]
    <2>12. lo \in Nat /\ NoHole(p, lo) /\ \A i \in Range(p) : i \in Wanted /\ i >= lo BY <2>7, <2>8, <2>10
    <2> HIDE DEF lo
    <2>13. CatchupIsExact'
        BY <1>1, <1>4, <2>2, <2>3, <2>11, <2>12, CatchupEnds
    <2> QED BY <1>10, <1>11, <2>5, <2>6, <2>13 DEF WalkInv
<1>14. ASSUME Page # <<>>, out' = Yielded(Page), pages' = pages + 1, ~cut,
              BelowRange(Page) \/ (maxEvents > 0 /\ Len(out') >= maxEvents),
              wpc' = "done", before' = before
       PROVE  WalkInv'
    <2>1. out' = es BY <1>6, <1>14
    <2>2. WalkTyped' BY <1>1, <1>4, <1>5, <1>9, <1>14, <2>1 DEF WalkTyped
    <2>3. BeforeBegin' /\ CatchupWalks' BY <1>14 DEF BeforeBegin, CatchupWalks
    <2>4. (\A i \in Wanted : i >= Lo) \/ (maxEvents > 0 /\ Len(es) = maxEvents)
        <3>1. CASE BelowRange(Page) BY <1>4, <3>1, NothingBelow
        <3>2. CASE maxEvents > 0 /\ Len(out') >= maxEvents
            <4>1. Len(es) \in Nat BY <1>5
            <4> QED BY <1>9, <1>14, <2>1, <3>2, <4>1
        <3> QED BY <1>14, <3>1, <3>2
    <2>5. CatchupIsExact' BY <1>1, <1>4, <1>5, <1>8, <2>1, <2>4, CatchupEnds
    <2> QED BY <1>10, <1>11, <2>2, <2>3, <2>5 DEF WalkInv
<1>15. ASSUME Page # <<>>, out' = Yielded(Page), pages' = pages + 1, ~cut,
              ~(maxEvents > 0 /\ Len(out') >= maxEvents), wpc' = wpc, before' = Last(Page)
       PROVE  WalkInv'
    <2>1. out' = es BY <1>6, <1>15
    <2>2. before' = Lo /\ Lo \in Nat \ {0} /\ Lo <= Len(chain) BY <1>8, <1>15
    <2>3. WalkTyped' BY <1>1, <1>4, <1>5, <1>9, <1>15, <2>1, <2>2 DEF WalkTyped
    <2>4. BeforeBegin' /\ CatchupIsExact' BY <1>1, <1>15 DEF BeforeBegin, CatchupIsExact
    <2>5. NoHole(out, before)' BY <1>1, <1>5, <1>7, <2>1, <2>2 DEF NoHole
    <2>6. Seen(out, before)'
        <3>1. Range(es) \subseteq Wanted BY <1>5
        <3> QED BY <1>5, <1>7, <2>1, <2>2, <3>1 DEF Seen
    <2>7. maxEvents' > 0 => Len(out') < maxEvents'
        <3>1. Len(es) \in Nat BY <1>5
        <3> QED BY <1>1, <1>9, <1>15, <2>1, <3>1
    <2>8. CatchupWalks' BY <2>5, <2>6, <2>7 DEF CatchupWalks
    <2> QED BY <1>10, <1>11, <2>3, <2>4, <2>8 DEF WalkInv
<1> QED BY <1>2, <1>12, <1>13, <1>14, <1>15

LEMMA BlocksChunkKeepsWalk ==
    ASSUME WalkAssumption, WalkInv, BlocksChunk PROVE WalkInv'
<1>1. /\ reader = "blocks" /\ wpc = "walk"
      /\ UNCHANGED <<chain, reader, from, to, maxEvents, maxPages, pages, kept, nulls, landed, balance>>
    BY DEF BlocksChunk
<1>2. /\ Rising(out) /\ from <= before
      /\ \A s \in Range(out) : s < before
      /\ \A i \in Wanted : i <= landed /\ chain[i].slot < before => chain[i].slot \in Range(out)
    BY <1>1 DEF WalkInv, BlocksWalk
<1>3. /\ WalkTyped /\ out \in Seq(Nat) /\ before \in Nat /\ from \in Nat /\ to \in Nat
      /\ chain \in Seq(Tx) /\ landed <= Len(chain) /\ landed \in Nat
    BY <1>1 DEF WalkInv, WalkTyped
<1>4. Wanted' = Wanted BY <1>1 DEF Wanted, InRange
<1>5. SlotsGrow' BY <1>1 DEF WalkInv, SlotsGrow
<1>6. SweepWalks' /\ SweepFetching' /\ CatchupWalks' /\ SweepIsExact' /\ CatchupIsExact'
    BY <1>1 DEF SweepWalks, SweepFetching, CatchupWalks, SweepIsExact, CatchupIsExact
<1>7. \A i \in Wanted : i \in DOMAIN chain /\ chain[i].slot \in Nat /\ chain[i].slot <= to
    <2> TAKE i \in Wanted
    <2>1. i \in DOMAIN chain /\ chain[i] \in Tx BY <1>3 DEF Wanted
    <2> QED BY <2>1 DEF Wanted, InRange, Tx
<1>8. CASE before > to
    <2>1. wpc' = "done" /\ UNCHANGED <<out, before>> BY <1>8 DEF BlocksChunk
    <2>2. WalkTyped' BY <1>1, <1>3, <2>1 DEF WalkTyped
    <2>3. BeforeBegin' /\ BlocksWalk' BY <2>1 DEF BeforeBegin, BlocksWalk
    <2>4. \A i \in Asked(landed) : chain[i].slot \in Range(out)
        <3>1. \A i \in 1..landed : i \in DOMAIN chain /\ i <= landed BY <1>3
        <3>2. \A i \in Asked(landed) : i \in Wanted /\ i <= landed BY <3>1 DEF Asked, Wanted
        <3> QED BY <1>2, <1>3, <1>7, <1>8, <3>2
    <2>5. DOMAIN out = 1..Len(out) BY <1>3
    <2>6. BlocksAreExact' BY <1>1, <1>2, <2>1, <2>4, <2>5 DEF BlocksAreExact, Asked, InRange, Rising
    <2> QED BY <1>5, <1>6, <2>2, <2>3, <2>6 DEF WalkInv
<1>9. CASE ~(before > to)
    <2> DEFINE end == chunkEnd(before)
               n == end - before + 1
               w == [k \in 1..n |-> before + k - 1]
               S == {chain[i].slot : i \in DOMAIN chain}
               q == Only(w, S)
    <2>1. wpc' = wpc /\ out' = out \o q /\ before' = before + Chunk
        BY <1>9 DEF BlocksChunk, SlotsWithBlock
    <2>2. Chunk \in Nat \ {0} BY DEF WalkAssumption
    <2>3. end \in Nat /\ before <= end /\ end < before + Chunk /\ (end = to \/ end = before + Chunk - 1)
        BY <1>3, <1>9, <2>2 DEF chunkEnd
    <2> HIDE DEF end
    <2>4. n \in Nat BY <1>3, <2>3
    <2>5. w \in Seq(Nat) /\ Len(w) = n /\ \A k \in 1..n : w[k] = before + k - 1
        <3>1. \A k \in 1..n : before + k - 1 \in Nat BY <1>3, <2>4
        <3>2. w \in [1..n -> Nat] BY <3>1
        <3>3. \A k \in 1..n : w[k] = before + k - 1 OBVIOUS
        <3> HIDE DEF w, n
        <3> QED BY <2>4, <3>2, <3>3
    <2>6. Range(w) = before..end
        <3>1. Range(w) = {w[k] : k \in 1..n} BY <2>5, RangeIs
        <3>2. \A k \in 1..n : w[k] \in before..end BY <1>3, <2>3, <2>5
        <3>3. \A s \in before..end : s - before + 1 \in 1..n /\ w[s - before + 1] = s
            <4> TAKE s \in before..end
            <4>1. s - before + 1 \in 1..n BY <1>3, <2>3
            <4>2. w[s - before + 1] = before + (s - before + 1) - 1 BY <2>5, <4>1
            <4> QED BY <1>3, <2>3, <4>1, <4>2
        <3> HIDE DEF w, n
        <3>4. Range(w) \subseteq before..end BY <3>1, <3>2, Zenon
        <3>5. before..end \subseteq Range(w) BY <3>1, <3>3, Zenon
        <3> QED BY <3>4, <3>5, Zenon
    <2>7. Rising(w)
        <3>1. \A j, k \in 1..n : j < k => before + j - 1 < before + k - 1 BY <1>3, <2>4
        <3> HIDE DEF w, n
        <3> QED BY <2>5, <3>1 DEF Rising
    <2> HIDE DEF w, n, S
    <2>8. q \in Seq(Nat) /\ Range(q) = (before..end) \cap S /\ Rising(q) BY <2>5, <2>6, <2>7, OnlyInOrder
    <2> HIDE DEF q
    <2>9. \A x \in Range(out), y \in Range(q) : x < y
        <3>0. \A x \in Range(out) : x \in Nat
            <4>1. Range(out) = {out[k] : k \in 1..Len(out)} BY <1>3, RangeIs
            <4> QED BY <1>3, <4>1
        <3> QED BY <1>2, <1>3, <2>3, <2>8, <3>0
    <2>10. /\ out \o q \in Seq(Nat) /\ Rising(out \o q) /\ Range(out \o q) = Range(out) \union Range(q)
        <3>1. out \o q \in Seq(Nat) BY <1>3, <2>8
        <3> QED BY <1>2, <1>3, <2>8, <2>9, <3>1, JoinRises, RangeOfJoin
    <2>11. before' \in Nat /\ from <= before' BY <1>2, <1>3, <2>1, <2>2
    <2>12. \A s \in Range(out \o q) : s < before'
        <3>1. ASSUME NEW s \in Range(out) PROVE s < before'
            <4>1. s < before BY <1>2
            <4>2. s \in Nat
                <5>1. Range(out) = {out[k] : k \in 1..Len(out)} BY <1>3, RangeIs
                <5> QED BY <1>3, <5>1
            <4> QED BY <1>3, <2>1, <2>2, <4>1, <4>2
        <3>2. ASSUME NEW s \in Range(q) PROVE s < before' BY <1>3, <2>1, <2>2, <2>3, <2>8
        <3> QED BY <2>10, <3>1, <3>2
    <2>13. ASSUME NEW i \in Wanted, i <= landed, chain[i].slot < before'
           PROVE  chain[i].slot \in Range(out \o q)
        <3>1. chain[i].slot \in S /\ chain[i].slot \in Nat /\ chain[i].slot <= to BY <1>7 DEF S
        <3>2. CASE chain[i].slot < before BY <1>2, <2>10, <2>13, <3>2
        <3>3. CASE ~(chain[i].slot < before)
            <4>1. chain[i].slot \in before..end BY <1>3, <2>1, <2>2, <2>3, <2>13, <3>1, <3>3
            <4> QED BY <2>8, <2>10, <3>1, <4>1
        <3> QED BY <3>2, <3>3
    <2>14. BlocksWalk' BY <1>1, <1>4, <2>1, <2>10, <2>11, <2>12, <2>13 DEF BlocksWalk
    <2>15. WalkTyped' BY <1>1, <1>3, <2>1, <2>10, <2>11 DEF WalkTyped
    <2>16. BeforeBegin' /\ BlocksAreExact' BY <1>1, <2>1 DEF BeforeBegin, BlocksAreExact
    <2> QED BY <1>5, <1>6, <2>14, <2>15, <2>16 DEF WalkInv
<1> QED BY <1>8, <1>9

(* Of a rebuild: what it keeps are signatures of the chain.                *)
LEMMA RebuildKeepsWalk ==
    ASSUME WalkAssumption, WalkInv, RebuildPage PROVE WalkInv'
<1>1. /\ reader = "rebuild" /\ wpc = "walk"
      /\ UNCHANGED <<chain, reader, from, to, maxEvents, maxPages, pages, out, landed, balance>>
    BY DEF RebuildPage
<1>2. PICK missing \in {{}} \union {{i} : i \in {j \in Range(Page) : chain[j].kind # "failed"}} :
        LET ending == Ending(Page, missing)
        IN  /\ nulls' = nulls \union missing
            /\ kept' = kept \o Changes(Page, Walked(Page, ending), missing)
            /\ \/ wpc' = "fetch" /\ before' = before
               \/ /\ ~(Len(Page) < PageSize)
                  /\ wpc' = wpc /\ before' = Last(Page)
    BY DEF RebuildPage, NextPage
<1>3. WalkTyped /\ reader # "blocks" BY <1>1 DEF WalkInv
<1>4. /\ Page \in Seq(Nat) /\ Range(Page) = Lo..Newest /\ Newest \in Nat /\ Newest <= Len(chain)
      /\ Lo \in Nat \ {0} /\ DOMAIN chain = 1..Len(chain) /\ Len(chain) \in Nat
      /\ Page # <<>> => Last(Page) = Lo /\ Lo <= Newest
    BY <1>3, PageIs
<1>5. Range(Page) \subseteq DOMAIN chain BY <1>4
<1> DEFINE W == {Page[k] : k \in {j \in Walked(Page, Ending(Page, missing)) : Changed(Page[j], missing)}}
           q == Only(Page, W)
<1>6. kept' = kept \o q BY <1>2 DEF Changes
<1> HIDE DEF W
<1>7. q \in Seq(Nat) /\ Range(q) \subseteq DOMAIN chain BY <1>4, <1>5, OnlyInOrder
<1> HIDE DEF q
<1>8. kept' \in Seq(Nat) /\ Range(kept') \subseteq DOMAIN chain
    <2>1. kept \in Seq(Nat) /\ Range(kept) \subseteq DOMAIN chain BY <1>3 DEF WalkTyped
    <2>2. Range(kept \o q) = Range(kept) \union Range(q) /\ kept \o q \in Seq(Nat)
        BY <1>7, <2>1, RangeOfJoin
    <2> QED BY <1>6, <1>7, <2>1, <2>2
<1>9. nulls' \subseteq DOMAIN chain
    <2>1. missing \subseteq Range(Page) OBVIOUS
    <2> QED BY <1>2, <1>3, <1>5, <2>1 DEF WalkTyped
<1>10. before' \in Nat /\ before' <= Len(chain) /\ wpc' \in {"fetch", "walk"}
    <2>1. CASE before' = before BY <1>1, <1>2, <1>3, <2>1 DEF WalkTyped
    <2>2. CASE ~(Len(Page) < PageSize) /\ wpc' = wpc /\ before' = Last(Page)
        <3>1. Page = <<>> => Len(Page) = 0 OBVIOUS
        <3>2. Page # <<>> BY <2>2, <3>1 DEF WalkAssumption
        <3> QED BY <1>1, <1>4, <2>2, <3>2
    <2> QED BY <1>2, <2>1, <2>2
<1>11. WalkTyped' BY <1>1, <1>3, <1>8, <1>9, <1>10 DEF WalkTyped
<1>12. SlotsGrow' BY <1>1 DEF WalkInv, SlotsGrow
<1>13. BeforeBegin' BY <1>10 DEF BeforeBegin
<1>14. SweepWalks' /\ SweepFetching' /\ CatchupWalks' /\ BlocksWalk'
    BY <1>1 DEF SweepWalks, SweepFetching, CatchupWalks, BlocksWalk
<1>15. SweepIsExact' /\ CatchupIsExact' /\ BlocksAreExact'
    BY <1>1 DEF SweepIsExact, CatchupIsExact, BlocksAreExact
<1> QED BY <1>11, <1>12, <1>13, <1>14, <1>15 DEF WalkInv

LEMMA WalkStep == WalkAssumption /\ WalkInv /\ [WalkNext]_walkVars => WalkInv'
<1> SUFFICES ASSUME WalkAssumption, WalkInv, [WalkNext]_walkVars PROVE WalkInv' OBVIOUS
<1>1. CASE Replays
    <2>1. /\ reader = "rebuild" /\ wpc' = "done"
          /\ UNCHANGED <<chain, reader, from, to, maxEvents, maxPages, before, pages, kept, nulls,
                         landed, balance>>
        BY <1>1 DEF Replays
    <2>2. WalkTyped' BY <2>1 DEF WalkInv, WalkTyped
    <2>3. SlotsGrow' /\ BeforeBegin' BY <2>1 DEF WalkInv, SlotsGrow, BeforeBegin
    <2>4. SweepWalks' /\ SweepFetching' /\ CatchupWalks' /\ BlocksWalk'
        BY <2>1 DEF SweepWalks, SweepFetching, CatchupWalks, BlocksWalk
    <2>5. SweepIsExact' /\ CatchupIsExact' /\ BlocksAreExact'
        BY <2>1 DEF SweepIsExact, CatchupIsExact, BlocksAreExact
    <2> QED BY <2>2, <2>3, <2>4, <2>5 DEF WalkInv
<1>2. CASE UNCHANGED walkVars
    <2>1. UNCHANGED <<chain, reader, wpc, from, to, maxEvents, maxPages, before, pages, kept, nulls,
                      out, landed, balance>>
        BY <1>2 DEF walkVars
    <2>2. Wanted' = Wanted BY <2>1 DEF Wanted, InRange
    <2>3. WalkTyped' /\ SlotsGrow' /\ BeforeBegin' BY <2>1 DEF WalkInv, WalkTyped, SlotsGrow, BeforeBegin
    <2>4. SweepWalks' /\ SweepFetching' BY <2>1, <2>2 DEF WalkInv, SweepWalks, SweepFetching, Seen
    <2>5. CatchupWalks' /\ BlocksWalk' BY <2>1, <2>2 DEF WalkInv, CatchupWalks, BlocksWalk, Seen, NoHole
    <2>6. SweepIsExact' /\ CatchupIsExact' /\ BlocksAreExact'
        BY <2>1 DEF WalkInv, SweepIsExact, CatchupIsExact, BlocksAreExact, Asked, InRange
    <2> QED BY <2>3, <2>4, <2>5, <2>6 DEF WalkInv
<1> QED BY <1>1, <1>2, LandsKeepsWalk, BeginsKeepsWalk, SweepPageKeepsWalk, SweepFetchesKeepsWalk,
        CatchupPageKeepsWalk, BlocksChunkKeepsWalk, RebuildKeepsWalk DEF WalkNext

(* The readers of a history that grows while they page                     *)
(* (historical-backfill.ts, catchup.ts): for any page size, chunk, chain   *)
(* and range, a sweep delivers what was in the range, oldest first, a      *)
(* catch-up yields the newest without a hole, and a walk over blocks misses*)
(* none.                                                                   *)
THEOREM HistoryIsRead == WalkSpec => []HistoryIsExact
<1>1. WalkAssumption BY WalkAssumption DEF WalkAssumption
<1>2. WalkInit => WalkInv BY WalkStarts
<1>3. WalkInv /\ [WalkNext]_walkVars => WalkInv' BY <1>1, WalkStep
<1>4. WalkInv => HistoryIsExact BY WalkInvIsExact
<1> QED BY <1>2, <1>3, <1>4, PTL DEF WalkSpec
=============================================================================
