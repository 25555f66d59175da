---------------------------- MODULE SignalProofs ----------------------------
(***************************************************************************)
(* The signal queue, for any capacity, window and time to live, any names  *)
(* and any number of pushes: a subscriber that stays is handed every       *)
(* accepted signal once and in order, but for those lost to an overflow;   *)
(* no repetition passes within the memory; and nothing that is buffered    *)
(* waits for a dispatch nobody will make.  The signal bus, for any         *)
(* producers, consumers and number of emissions: who is called, how often, *)
(* and who may emit.  Then what has been stopped, and the three sources:   *)
(* what the live one loses is reported, and the walk over history tells    *)
(* its range in order.                                                     *)
(***************************************************************************)
EXTENDS MCSignalQueue, SequenceLemmas, SequenceTheorems, WellFoundedInduction, TLAPS

(* In these, b is the buffer, c the signal being dispatched, r the names   *)
(* the loop has yet to visit, H what each name was handed, N the names     *)
(* subscribed, P the number of pushes, X the pushes lost, J the last push  *)
(* before each name's first signal and L the names that ever left.         *)

(* The buffer holds the last pushes; those up to Taken left it.            *)
Taken(b, P) == P - Len(b)

Contiguous(b, P) ==
    /\ Len(b) <= P
    /\ \A i \in 1..Len(b) : b[i].push = Taken(b, P) + i

WalkSound(c, r, N) ==
    /\ IsInjective(N) /\ IsInjective(r)
    /\ ToSet(r) \subseteq ToSet(N)
    /\ c = <<>> => r = <<>>

(* Whatever left the buffer after the signal being dispatched is lost.     *)
OvertakenIsLost(b, c, P, X) ==
    c # <<>> =>
        /\ c.push <= Taken(b, P)
        /\ \A k \in (c.push + 1)..Taken(b, P) : k \in X

Ascending(h) == \A i, j \in 1..Len(h) : i < j => h[i].push < h[j].push

HandedSound(b, c, r, H, N, P, L) ==
    \A n \in Names \ L :
        /\ Ascending(H[n])
        /\ \A i \in 1..Len(H[n]) : H[n][i].push <= Taken(b, P)
        /\ c # <<>> => \A i \in 1..Len(H[n]) :
              /\ H[n][i].push <= c.push
              /\ n \in ToSet(r) => H[n][i].push < c.push
        /\ n \notin ToSet(N) => H[n] = <<>>

Handed(h, k) == \E i \in 1..Len(h) : h[i].push = k

Complete(b, c, r, H, N, P, X, J, L) ==
    \A n \in ToSet(N) \ L : \A k \in (J[n] + 1)..Taken(b, P) :
        \/ k \in X
        \/ Handed(H[n], k)
        \/ c # <<>> /\ c.push = k /\ n \in ToSet(r)

Delivery(b, c, r, H, N, P, X, J, L) ==
    /\ Contiguous(b, P)
    /\ WalkSound(c, r, N)
    /\ OvertakenIsLost(b, c, P, X)
    /\ HandedSound(b, c, r, H, N, P, L)
    /\ Complete(b, c, r, H, N, P, X, J, L)

(* The signals that are buffered or were handed to somebody.               *)
Delivered(H) == UNION {ToSet(H[n]) : n \in Names}
Kept(b, H) == ToSet(b) \cup Delivered(H)

(* Deduplication with time to live l and window w: a signal is in the map  *)
(* d with no more entries after it than pushes, unless its time or its     *)
(* window is over at time t.                                               *)
Recalled(x, d, P, t, l, w) ==
    \/ t - x.at >= l
    \/ P - x.push >= w
    \/ \E k \in 1..Len(d) :
          d[k].id = x.id /\ d[k].expires = x.at + l /\ Len(d) - k <= P - x.push

Memory(K, d, P, t, l, w) ==
    \A x \in K : x.push <= P /\ x.at <= t /\ Recalled(x, d, P, t, l, w)

NoRepetition(K, l, w) ==
    \A x, y \in K : x.id = y.id /\ x.push < y.push
        => y.at - x.at >= l \/ y.push - x.push > w

QueueInv ==
    /\ TypeOK
    /\ current # <<>> => \E n \in Names : current \in ToSet(received[n])
    /\ Delivery(buffer, current, rest, received, subscribers, pushes, dropped, joined, left)
    /\ Memory(Kept(buffer, received), dedup, pushes, now, DedupTtl, DedupWindow)
    /\ NoRepetition(Kept(buffer, received), DedupTtl, DedupWindow)
    /\ NoLostWakeup

-----------------------------------------------------------------------------
(* Sequences.                                                              *)

LEMMA LeastNatural ==
    ASSUME NEW S \in SUBSET Nat, S # {}
    PROVE  Min(S) \in S /\ \A n \in S : Min(S) <= n
<1> DEFINE R == OpToRel(<, Nat)
<1>1. IsWellFoundedOn(R, Nat)
  BY NatLessThanWellFounded, Zenon
<1>2. \A m, n \in Nat : m < n => <<m, n>> \in R
  BY Zenon DEF OpToRel
<1> HIDE DEF R
<1>3. PICK n \in S : \A m \in S : ~(<<m, n>> \in R)
  BY <1>1, WFMin, Zenon
<1>4. \A m \in S : ~(m < n)
  BY <1>2, <1>3
<1>5. \A m \in S : n <= m
  BY <1>4
<1> QED
  BY <1>3, <1>5, Zenon DEF Min

LEMMA SignalIsNotEmpty == \A x \in Signal : x # <<>>
  BY DEF Signal

(* Deleting a key of a Map.                                                *)
OneFewer(S, s, n, q) ==
    q \in Seq(S) /\ IsInjective(q) /\ ToSet(q) = ToSet(s) \ {n}

LEMMA RemovedOne ==
    ASSUME NEW S, NEW s \in Seq(S), IsInjective(s), NEW n \in S
    PROVE  OneFewer(S, s, n, RemoveFirst(s, n))
<1> USE DEF OneFewer
<1> DEFINE I == {i \in 1..Len(s) : s[i] = n}
           t == RemoveFirst(s, n)
<1>1. CASE I = {}
  <2>1. t = s
    BY <1>1 DEF RemoveFirst
  <2> QED
    BY <1>1, <2>1 DEF ToSet
<1>2. CASE I # {}
  <2> I \in SUBSET Nat
    OBVIOUS
  <2>0. Min(I) \in I
    BY <1>2, LeastNatural
  <2>1. PICK k \in 1..Len(s) : s[k] = n /\ Min(I) = k
    BY <2>0
  <2>2. SelectInSeq(s, LAMBDA v : v = n) = k
    BY <1>2, <2>1 DEF SelectInSeq
  <2>3. t = RemoveAt(s, k)
    BY <1>2, <2>1, <2>2 DEF RemoveFirst, SelectInSeq
  <2>4. t = SubSeq(s, 1, k - 1) \o SubSeq(s, k + 1, Len(s))
    BY <2>3 DEF RemoveAt
  <2> HIDE DEF t
  <2>5. /\ SubSeq(s, 1, k - 1) \in Seq(S) /\ Len(SubSeq(s, 1, k - 1)) = k - 1
        /\ \A i \in 1..(k - 1) : SubSeq(s, 1, k - 1)[i] = s[i]
    BY <2>1
  <2>6. /\ SubSeq(s, k + 1, Len(s)) \in Seq(S) /\ Len(SubSeq(s, k + 1, Len(s))) = Len(s) - k
        /\ \A i \in 1..(Len(s) - k) : SubSeq(s, k + 1, Len(s))[i] = s[k + i]
    BY <2>1
  <2>7. /\ t \in Seq(S) /\ Len(t) = Len(s) - 1
        /\ \A i \in 1..(Len(s) - 1) : t[i] = IF i < k THEN s[i] ELSE s[i + 1]
    <3> DEFINE u == SubSeq(s, 1, k - 1)
               v == SubSeq(s, k + 1, Len(s))
    <3> HIDE DEF u, v
    <3>1. t = u \o v /\ u \in Seq(S) /\ v \in Seq(S)
      BY <2>4, <2>5, <2>6 DEF u, v
    <3>2. /\ t \in Seq(S) /\ Len(t) = Len(u) + Len(v)
          /\ \A i \in 1..Len(u) : t[i] = u[i]
          /\ \A i \in (Len(u) + 1)..(Len(u) + Len(v)) : t[i] = v[i - Len(u)]
      BY <3>1, ConcatProperties
    <3>3. Len(u) = k - 1 /\ \A i \in 1..(k - 1) : u[i] = s[i]
      BY <2>5 DEF u
    <3>4. Len(v) = Len(s) - k /\ \A i \in 1..(Len(s) - k) : v[i] = s[k + i]
      BY <2>6 DEF v
    <3>5. \A i \in k..(Len(s) - 1) : t[i] = s[i + 1]
      <4> SUFFICES ASSUME NEW i \in k..(Len(s) - 1)
                   PROVE  t[i] = s[i + 1]
        OBVIOUS
      <4>1. i - (k - 1) \in 1..(Len(s) - k) /\ k + (i - (k - 1)) = i + 1
        BY <2>1
      <4>2. i \in (Len(u) + 1)..(Len(u) + Len(v))
        BY <2>1, <3>3, <3>4
      <4>3. t[i] = v[i - (k - 1)]
        BY <3>2, <3>3, <4>2
      <4> QED
        BY <3>4, <4>1, <4>3
    <3> QED
      BY <2>1, <3>2, <3>3, <3>4, <3>5
  <2>8. IsInjective(t)
    <3> SUFFICES ASSUME NEW i \in 1..Len(t), NEW j \in 1..Len(t), t[i] = t[j]
                 PROVE  i = j
      BY <2>7 DEF IsInjective
    <3> DEFINE f(x) == IF x < k THEN x ELSE x + 1
    <3>1. f(i) \in DOMAIN s /\ f(j) \in DOMAIN s /\ s[f(i)] = s[f(j)]
      BY <2>1, <2>7
    <3>2. f(i) = f(j)
      BY <3>1 DEF IsInjective
    <3> QED
      BY <3>2
  <2>9. \A i \in 1..Len(t) : t[i] \in ToSet(s) \ {n}
    <3> SUFFICES ASSUME NEW i \in 1..Len(t)
                 PROVE  t[i] \in ToSet(s) \ {n}
      OBVIOUS
    <3> DEFINE f == IF i < k THEN i ELSE i + 1
    <3>1. f \in DOMAIN s /\ t[i] = s[f] /\ f # k
      BY <2>1, <2>7
    <3>2. s[f] # s[k]
      BY <2>1, <3>1 DEF IsInjective
    <3> QED
      BY <2>1, <3>1, <3>2 DEF ToSet
  <2>10. \A i \in 1..Len(s) : s[i] # n => s[i] \in ToSet(t)
    <3> SUFFICES ASSUME NEW i \in 1..Len(s), s[i] # n
                 PROVE  s[i] \in ToSet(t)
      OBVIOUS
    <3> DEFINE f == IF i < k THEN i ELSE i - 1
    <3>1. f \in DOMAIN t /\ t[f] = s[i]
      BY <2>1, <2>7
    <3> QED
      BY <3>1 DEF ToSet
  <2>11. ToSet(t) = ToSet(s) \ {n}
    BY <2>7, <2>9, <2>10 DEF ToSet
  <2> QED
    BY <2>7, <2>8, <2>11 DEF t
<1> QED
  BY <1>1, <1>2

LEMMA AppendFacts ==
    ASSUME NEW S, NEW s \in Seq(S), NEW e \in S
    PROVE  /\ Append(s, e) \in Seq(S) /\ Len(Append(s, e)) = Len(s) + 1
           /\ Append(s, e)[Len(s) + 1] = e
           /\ \A i \in 1..Len(s) : Append(s, e)[i] = s[i]
           /\ ToSet(Append(s, e)) = ToSet(s) \cup {e}
           /\ IsInjective(s) /\ e \notin ToSet(s) => IsInjective(Append(s, e))
<1> DEFINE a == Append(s, e)
<1>1. /\ a \in Seq(S) /\ Len(a) = Len(s) + 1 /\ a[Len(s) + 1] = e
      /\ \A i \in 1..Len(s) : a[i] = s[i]
  OBVIOUS
<1> HIDE DEF a
<1>2. DOMAIN a = DOMAIN s \cup {Len(s) + 1} /\ Len(s) + 1 \in DOMAIN a
  BY <1>1
<1>3. DOMAIN s = 1..Len(s)
  OBVIOUS
<1>4. ToSet(a) = ToSet(s) \cup {e}
  BY <1>1, <1>2, <1>3 DEF ToSet
<1>5. IsInjective(s) /\ e \notin ToSet(s) => IsInjective(a)
  BY <1>1, <1>2, <1>3 DEF IsInjective, ToSet
<1> QED
  BY <1>1, <1>4, <1>5 DEF a

LEMMA TailFacts ==
    ASSUME NEW S, NEW s \in Seq(S), s # <<>>
    PROVE  /\ Head(s) \in S /\ Head(s) = s[1]
           /\ Tail(s) \in Seq(S) /\ Len(Tail(s)) = Len(s) - 1 /\ Len(s) \in Nat \ {0}
           /\ \A i \in 1..Len(Tail(s)) : Tail(s)[i] = s[i + 1] /\ i + 1 \in 1..Len(s)
           /\ ToSet(s) = ToSet(Tail(s)) \cup {Head(s)}
           /\ IsInjective(s) => IsInjective(Tail(s)) /\ Head(s) \notin ToSet(Tail(s))
<1> DEFINE t == Tail(s)
           h == Head(s)
<1>1. /\ h \in S /\ h = s[1] /\ t \in Seq(S) /\ Len(t) = Len(s) - 1 /\ Len(s) \in Nat \ {0}
      /\ \A i \in 1..Len(t) : t[i] = s[i + 1]
  OBVIOUS
<1> HIDE DEF t, h
<1>2. /\ DOMAIN s = 1..Len(s) /\ DOMAIN t = 1..Len(t) /\ 1 \in DOMAIN s
      /\ \A i \in DOMAIN t : i + 1 \in DOMAIN s /\ i + 1 # 1
      /\ \A i \in DOMAIN s : i # 1 => i - 1 \in DOMAIN t /\ (i - 1) + 1 = i
  BY <1>1
<1>3. \A i \in DOMAIN s : i # 1 => t[i - 1] = s[i]
  BY <1>1, <1>2
<1>4. \A i \in DOMAIN t : t[i] = s[i + 1]
  BY <1>1, <1>2
<1>5. ToSet(s) = ToSet(t) \cup {h}
  <2>1. \A i \in DOMAIN s : s[i] \in ToSet(t) \cup {h}
    BY <1>1, <1>2, <1>3 DEF ToSet
  <2>2. h \in ToSet(s)
    BY <1>1, <1>2 DEF ToSet
  <2>3. \A i \in DOMAIN t : t[i] \in ToSet(s)
    BY <1>2, <1>4 DEF ToSet
  <2> QED
    BY <2>1, <2>2, <2>3 DEF ToSet
<1>6. ASSUME IsInjective(s) PROVE IsInjective(t) /\ h \notin ToSet(t)
  <2>1. \A i, j \in DOMAIN t : t[i] = t[j] => i + 1 = j + 1
    BY <1>2, <1>4, <1>6, Zenon DEF IsInjective
  <2>2. \A i \in DOMAIN t : t[i] # s[1]
    BY <1>2, <1>4, <1>6, Zenon DEF IsInjective
  <2>3. \A i, j \in DOMAIN t : i + 1 = j + 1 => i = j
    BY <1>2
  <2>4. h \notin ToSet(t)
    BY <1>1, <2>2, Zenon DEF ToSet
  <2> QED
    BY <2>1, <2>3, <2>4, Zenon DEF IsInjective
<1>7. \A i \in 1..Len(t) : t[i] = s[i + 1] /\ i + 1 \in 1..Len(s)
  BY <1>1
<1> QED
  BY <1>1, <1>5, <1>6, <1>7 DEF t, h

LEMMA NumbersOfSignals ==
    /\ \A x \in Signal : x # <<>> /\ x.push \in Nat /\ x.push > 0 /\ x.push <= MaxPushes
    /\ \A x \in Signal : x.at \in Nat /\ x.id \in Signals
    /\ \A h \in Seq(Signal) : \A i \in 1..Len(h) :
          h[i] \in Signal /\ h[i].push \in Nat /\ h[i].at \in Nat
<1>1. \A x \in Signal : /\ x.push \in Nat /\ x.push > 0 /\ x.push <= MaxPushes
                        /\ x.at \in Nat /\ x.id \in Signals
  BY QueueAssumption DEF Signal
<1>2. \A h \in Seq(Signal) : \A i \in 1..Len(h) : h[i] \in Signal
  OBVIOUS
<1> QED
  BY <1>1, <1>2, SignalIsNotEmpty

-----------------------------------------------------------------------------
(* Delivery.                                                               *)

Histories == [Names -> Seq(Signal)]

(* One more signal for one name.                                           *)
HandedTo(H, m, c) == [H EXCEPT ![m] = Append(@, c)]

OneLonger(H, m, c, G) ==
    /\ G \in Histories
    /\ \A n \in Names : n # m => G[n] = H[n]
    /\ Len(G[m]) = Len(H[m]) + 1 /\ G[m][Len(H[m]) + 1] = c
    /\ \A i \in 1..Len(H[m]) : G[m][i] = H[m][i]
    /\ \A n \in Names : ToSet(H[n]) \subseteq ToSet(G[n])
    /\ Delivered(G) = Delivered(H) \cup {c}

LEMMA HandOver ==
    ASSUME NEW H \in Histories, NEW m \in Names, NEW c \in Signal,
           NEW G, G = HandedTo(H, m, c)
    PROVE  OneLonger(H, m, c, G)
<1>0. H[m] \in Seq(Signal) /\ G[m] = Append(H[m], c)
  BY DEF Histories, HandedTo
<1>1. G \in Histories
  BY <1>0 DEF Histories, HandedTo
<1>2. \A n \in Names : n # m => G[n] = H[n]
  BY DEF Histories, HandedTo
<1>3. /\ Len(G[m]) = Len(H[m]) + 1 /\ G[m][Len(H[m]) + 1] = c
      /\ \A i \in 1..Len(H[m]) : G[m][i] = H[m][i]
      /\ ToSet(G[m]) = ToSet(H[m]) \cup {c}
  BY <1>0, AppendFacts
<1>4. \A n \in Names : n # m => ToSet(G[n]) = ToSet(H[n])
  BY <1>2, Zenon
<1>5. \A n \in Names : ToSet(H[n]) \subseteq ToSet(G[n])
  BY <1>3, <1>4, Zenon
<1>6. \A n \in Names : ToSet(G[n]) \subseteq ToSet(H[n]) \cup {c}
  BY <1>3, <1>4, Zenon
<1>7. \A x : (\E n \in Names : x \in ToSet(G[n])) <=> (x = c \/ \E n \in Names : x \in ToSet(H[n]))
  BY <1>3, <1>5, <1>6, Zenon
<1>8. \A F, x : x \in Delivered(F) <=> \E n \in Names : x \in ToSet(F[n])
  BY Zenon DEF Delivered
<1>9. \A x : x \in Delivered(G) <=> x = c \/ x \in Delivered(H)
  BY <1>7, <1>8, Zenon
<1>10. Delivered(G) = Delivered(H) \cup {c}
  BY <1>9
<1> QED
  BY <1>1, <1>2, <1>3, <1>5, <1>10 DEF OneLonger

(* The loop takes the first signal and has every name to visit.            *)
LEMMA TakeKeeps ==
    ASSUME NEW b \in Seq(Signal), b # <<>>, NEW H \in Histories, NEW N \in Seq(Names),
           NEW P \in Nat, NEW X, NEW J \in [Names -> Nat], NEW L,
           Delivery(b, <<>>, <<>>, H, N, P, X, J, L)
    PROVE  Delivery(Tail(b), Head(b), N, H, N, P, X, J, L)
<1> DEFINE c == Head(b)
           t == Tail(b)
<1>1. /\ c \in Signal /\ c = b[1] /\ c # <<>>
      /\ t \in Seq(Signal) /\ Len(t) = Len(b) - 1 /\ Len(b) \in Nat \ {0}
      /\ \A i \in 1..Len(t) : t[i] = b[i + 1] /\ i + 1 \in 1..Len(b)
  BY SignalIsNotEmpty, TailFacts
<1> HIDE DEF c, t
<1>2. Contiguous(b, P) /\ c.push = Taken(b, P) + 1 /\ Taken(t, P) = Taken(b, P) + 1
  <2>1. Contiguous(b, P)
    BY DEF Delivery
  <2>2. b[1].push = Taken(b, P) + 1
    BY <1>1, <2>1 DEF Contiguous
  <2>3. Taken(t, P) = Taken(b, P) + 1
    BY <1>1 DEF Taken
  <2> QED
    BY <1>1, <2>1, <2>2, <2>3
<1>3. Contiguous(t, P)
  <2> SUFFICES ASSUME NEW i \in 1..Len(t)
               PROVE  t[i].push = Taken(t, P) + i
    BY <1>1, <1>2 DEF Contiguous
  <2>1. t[i].push = Taken(b, P) + (i + 1)
    BY <1>1, <1>2 DEF Contiguous
  <2> QED
    BY <1>1, <1>2, <2>1 DEF Taken
<1>4. WalkSound(c, N, N)
  BY <1>1 DEF Delivery, WalkSound
<1>5. OvertakenIsLost(t, c, P, X)
  BY <1>1, <1>2 DEF OvertakenIsLost, Taken
<1>6. HandedSound(t, c, N, H, N, P, L)
  <2> SUFFICES ASSUME NEW n \in Names \ L
               PROVE  /\ Ascending(H[n])
                      /\ \A i \in 1..Len(H[n]) :
                            H[n][i].push <= Taken(t, P) /\ H[n][i].push < c.push
                      /\ n \notin ToSet(N) => H[n] = <<>>
    BY <1>1, <1>2 DEF HandedSound, Taken, Signal, Histories
  <2>1. /\ Ascending(H[n])
        /\ \A i \in 1..Len(H[n]) : H[n][i].push <= Taken(b, P)
        /\ n \notin ToSet(N) => H[n] = <<>>
    BY DEF Delivery, HandedSound
  <2>2. \A i \in 1..Len(H[n]) : H[n][i].push \in Nat
    BY NumbersOfSignals DEF Histories
  <2>3. Taken(b, P) \in Int
    BY <1>1 DEF Taken
  <2> QED
    BY <1>2, <2>1, <2>2, <2>3
<1>7. Complete(t, c, N, H, N, P, X, J, L)
  <2> SUFFICES ASSUME NEW n \in ToSet(N) \ L, NEW k \in (J[n] + 1)..Taken(t, P)
               PROVE  k \in X \/ Handed(H[n], k) \/ (c.push = k /\ n \in ToSet(N))
    BY <1>1 DEF Complete
  <2>0. n \in Names /\ J[n] \in Nat /\ k \in Int /\ k <= Taken(t, P)
    BY DEF ToSet, Taken
  <2>1. CASE k = Taken(t, P)
    BY <1>2, <2>1
  <2>2. CASE k # Taken(t, P)
    <3>1. k \in (J[n] + 1)..Taken(b, P)
      BY <1>1, <1>2, <2>0, <2>2 DEF Taken
    <3> QED
      BY <3>1 DEF Delivery, Complete
  <2> QED
    BY <2>1, <2>2
<1> QED
  BY <1>3, <1>4, <1>5, <1>6, <1>7 DEF Delivery, c, t

(* The loop hands the signal to the next name it has to visit.             *)
LEMMA VisitKeeps ==
    ASSUME NEW b \in Seq(Signal), NEW c \in Signal, NEW r \in Seq(Names), r # <<>>,
           NEW H \in Histories, NEW N \in Seq(Names),
           NEW P \in Nat, NEW X, NEW J \in [Names -> Nat], NEW L,
           Delivery(b, c, r, H, N, P, X, J, L),
           NEW G, G = HandedTo(H, Head(r), c)
    PROVE  Delivery(b, c, Tail(r), G, N, P, X, J, L)
<1> DEFINE m == Head(r)
           t == Tail(r)
<1>1. /\ m \in Names /\ m \in ToSet(r)
      /\ t \in Seq(Names) /\ ToSet(r) = ToSet(t) \cup {m}
      /\ IsInjective(r) => IsInjective(t) /\ m \notin ToSet(t)
  BY TailFacts
<1> HIDE DEF m, t
<1>0. c # <<>> /\ c.push \in Nat
  BY NumbersOfSignals
<1>2. /\ G \in Histories
      /\ \A n \in Names : n # m => G[n] = H[n]
      /\ Len(G[m]) = Len(H[m]) + 1 /\ G[m][Len(H[m]) + 1] = c
      /\ \A i \in 1..Len(H[m]) : G[m][i] = H[m][i]
  <2>1. m \in Names /\ G = HandedTo(H, m, c)
    BY <1>1 DEF m
  <2>2. OneLonger(H, m, c, G)
    BY <2>1, HandOver
  <2> QED
    BY <2>2 DEF OneLonger
<1>3. ToSet(r) = ToSet(t) \cup {m} /\ m \notin ToSet(t) /\ IsInjective(t)
  BY <1>1 DEF Delivery, WalkSound
<1>4. Contiguous(b, P) /\ OvertakenIsLost(b, c, P, X)
  BY DEF Delivery
<1>5. WalkSound(c, t, N)
  BY <1>0, <1>3 DEF Delivery, WalkSound
<1>6. HandedSound(b, c, t, G, N, P, L)
  <2> SUFFICES ASSUME NEW n \in Names \ L
               PROVE  /\ Ascending(G[n])
                      /\ \A i \in 1..Len(G[n]) : G[n][i].push <= Taken(b, P)
                      /\ \A i \in 1..Len(G[n]) :
                            /\ G[n][i].push <= c.push
                            /\ n \in ToSet(t) => G[n][i].push < c.push
                      /\ n \notin ToSet(N) => G[n] = <<>>
    BY DEF HandedSound
  <2>1. /\ Ascending(H[n])
        /\ \A i \in 1..Len(H[n]) : H[n][i].push <= Taken(b, P)
        /\ \A i \in 1..Len(H[n]) :
              /\ H[n][i].push <= c.push
              /\ n \in ToSet(r) => H[n][i].push < c.push
        /\ n \notin ToSet(N) => H[n] = <<>>
    BY <1>0 DEF Delivery, HandedSound
  <2>2. CASE n # m
    BY <1>2, <1>3, <2>1, <2>2
  <2>3. CASE n = m
    <3>1. m \in ToSet(N)
      BY <1>1 DEF Delivery, WalkSound
    <3>2. c.push <= Taken(b, P)
      BY <1>0 DEF Delivery, OvertakenIsLost
    <3>3. H[m] \in Seq(Signal) /\ \A i \in 1..Len(H[m]) : H[m][i].push \in Nat
      BY <1>1, NumbersOfSignals DEF Histories
    <3>4. \A i \in 1..Len(G[m]) : i \in 1..Len(H[m]) \/ i = Len(H[m]) + 1
      BY <1>2, <3>3
    <3>5. Ascending(G[m])
      <4> SUFFICES ASSUME NEW i \in 1..Len(G[m]), NEW j \in 1..Len(G[m]), i < j
                   PROVE  G[m][i].push < G[m][j].push
        BY DEF Ascending
      <4>1. i \in 1..Len(H[m]) /\ G[m][i] = H[m][i] /\ Len(H[m]) \in Nat
        BY <1>2, <3>3, <3>4, SMTT(30)
      <4>2. CASE j \in 1..Len(H[m])
        BY <1>2, <2>1, <2>3, <4>1, <4>2 DEF Ascending
      <4>3. CASE j = Len(H[m]) + 1
        BY <1>1, <1>2, <2>1, <2>3, <4>1, <4>3
      <4> QED
        BY <3>4, <4>2, <4>3
    <3>6. \A i \in 1..Len(G[m]) : G[m][i].push <= c.push /\ G[m][i].push <= Taken(b, P)
      <4> SUFFICES ASSUME NEW i \in 1..Len(G[m])
                   PROVE  G[m][i].push <= c.push /\ G[m][i].push <= Taken(b, P)
        OBVIOUS
      <4>1. CASE i \in 1..Len(H[m])
        BY <1>2, <2>1, <2>3, <4>1
      <4>2. CASE i = Len(H[m]) + 1
        BY <1>0, <1>2, <3>2, <4>2, SMTT(30)
      <4> QED
        BY <3>4, <4>1, <4>2
    <3> QED
      BY <1>3, <2>3, <3>1, <3>5, <3>6
  <2> QED
    BY <2>2, <2>3
<1>7. Complete(b, c, t, G, N, P, X, J, L)
  <2> SUFFICES ASSUME NEW n \in ToSet(N) \ L, NEW k \in (J[n] + 1)..Taken(b, P)
               PROVE  k \in X \/ Handed(G[n], k) \/ (c.push = k /\ n \in ToSet(t))
    BY <1>0 DEF Complete
  <2>0. n \in Names
    BY DEF ToSet
  <2>1. k \in X \/ Handed(H[n], k) \/ (c.push = k /\ n \in ToSet(r))
    BY DEF Delivery, Complete
  <2>2. Handed(H[n], k) => Handed(G[n], k)
    <3>1. H[m] \in Seq(Signal) /\ 1..Len(H[m]) \subseteq 1..Len(G[m])
      BY <1>1, <1>2 DEF Histories
    <3>2. CASE n = m
      BY <1>2, <3>1, <3>2 DEF Handed
    <3>3. CASE n # m
      BY <1>2, <2>0, <3>3
    <3> QED
      BY <3>2, <3>3
  <2>3. Handed(G[m], c.push)
    <3>1. Len(H[m]) + 1 \in 1..Len(G[m])
      <4>1. H[m] \in Seq(Signal)
        BY <1>1 DEF Histories
      <4> QED
        BY <1>2, <4>1
    <3> QED
      BY <1>2, <3>1 DEF Handed
  <2> QED
    BY <1>3, <2>1, <2>2, <2>3
<1> QED
  BY <1>4, <1>5, <1>6, <1>7 DEF Delivery, t

(* A signal that arrives is the last of the buffer.                        *)
LEMMA ArrivalKeeps ==
    ASSUME NEW b \in Seq(Signal), NEW c \in Signal \cup {<<>>}, NEW r \in Seq(Names),
           NEW H \in Histories, NEW N \in Seq(Names),
           NEW P \in Nat, NEW X, NEW J \in [Names -> Nat], NEW L,
           Delivery(b, c, r, H, N, P, X, J, L),
           NEW x \in Signal, x.push = P + 1
    PROVE  Delivery(Append(b, x), c, r, H, N, P + 1, X, J, L)
<1> DEFINE a == Append(b, x)
<1>1. /\ a \in Seq(Signal) /\ Len(a) = Len(b) + 1 /\ a[Len(b) + 1] = x
      /\ \A i \in 1..Len(b) : a[i] = b[i]
  BY AppendFacts
<1> HIDE DEF a
<1>2. Taken(a, P + 1) = Taken(b, P)
  BY <1>1 DEF Taken
<1>3. Contiguous(a, P + 1)
  <2>1. Contiguous(b, P)
    BY DEF Delivery
  <2> SUFFICES ASSUME NEW i \in 1..Len(a)
               PROVE  a[i].push = Taken(b, P) + i
    BY <1>1, <1>2, <2>1 DEF Contiguous
  <2>2. CASE i = Len(b) + 1
    BY <1>1, <2>2 DEF Taken
  <2>3. CASE i \in 1..Len(b)
    BY <1>1, <2>1, <2>3 DEF Contiguous
  <2> QED
    BY <1>1, <2>2, <2>3
<1>4. WalkSound(c, r, N)
  BY DEF Delivery
<1>5. OvertakenIsLost(a, c, P + 1, X)
  BY <1>2, Zenon DEF Delivery, OvertakenIsLost
<1>6. HandedSound(a, c, r, H, N, P + 1, L)
  BY <1>2, Zenon DEF Delivery, HandedSound
<1>7. Complete(a, c, r, H, N, P + 1, X, J, L)
  BY <1>2, Zenon DEF Delivery, Complete
<1> QED
  BY <1>3, <1>4, <1>5, <1>6, <1>7 DEF Delivery, a

(* The oldest signal goes when the buffer is full: it is lost.             *)
LEMMA OverflowKeeps ==
    ASSUME NEW b \in Seq(Signal), b # <<>>, NEW c \in Signal \cup {<<>>}, NEW r \in Seq(Names),
           NEW H \in Histories, NEW N \in Seq(Names),
           NEW P \in Nat, NEW X, NEW J \in [Names -> Nat], NEW L,
           Delivery(b, c, r, H, N, P, X, J, L)
    PROVE  Delivery(Tail(b), c, r, H, N, P, X \cup {Head(b).push}, J, L)
<1> DEFINE t == Tail(b)
           o == Head(b).push
<1>1. /\ t \in Seq(Signal) /\ Len(t) = Len(b) - 1 /\ Len(b) \in Nat \ {0}
      /\ \A i \in 1..Len(t) : t[i] = b[i + 1] /\ i + 1 \in 1..Len(b)
      /\ Head(b) = b[1]
  BY TailFacts
<1>2. /\ Contiguous(b, P) /\ Taken(t, P) = Taken(b, P) + 1 /\ o = Taken(b, P) + 1
      /\ Taken(b, P) \in Nat
  BY <1>1 DEF Delivery, Contiguous, Taken
<1> HIDE DEF t, o
<1>3. Contiguous(t, P)
  <2> SUFFICES ASSUME NEW i \in 1..Len(t)
               PROVE  t[i].push = Taken(t, P) + i
    BY <1>1, <1>2 DEF Contiguous
  <2>1. t[i].push = Taken(b, P) + (i + 1)
    BY <1>1, <1>2 DEF Contiguous
  <2> QED
    BY <1>2, <2>1
<1>4. WalkSound(c, r, N)
  BY DEF Delivery
<1>5. OvertakenIsLost(t, c, P, X \cup {o})
  <2> SUFFICES ASSUME c # <<>>
               PROVE  /\ c.push <= Taken(t, P)
                      /\ \A k \in (c.push + 1)..Taken(t, P) : k \in X \cup {o}
    BY DEF OvertakenIsLost
  <2>1. c.push \in Nat
    BY NumbersOfSignals
  <2>2. c.push <= Taken(b, P) /\ \A k \in (c.push + 1)..Taken(b, P) : k \in X
    BY DEF Delivery, OvertakenIsLost
  <2> QED
    BY <1>2, <2>1, <2>2
<1>6. HandedSound(t, c, r, H, N, P, L)
  <2> SUFFICES ASSUME NEW n \in Names \ L
               PROVE  \A i \in 1..Len(H[n]) : H[n][i].push <= Taken(t, P)
    BY DEF Delivery, HandedSound
  <2>1. \A i \in 1..Len(H[n]) : H[n][i].push <= Taken(b, P)
    BY DEF Delivery, HandedSound
  <2>2. \A i \in 1..Len(H[n]) : H[n][i].push \in Nat
    BY NumbersOfSignals DEF Histories
  <2> QED
    BY <1>2, <2>1, <2>2
<1>7. Complete(t, c, r, H, N, P, X \cup {o}, J, L)
  <2> SUFFICES ASSUME NEW n \in ToSet(N) \ L, NEW k \in (J[n] + 1)..Taken(t, P), k # o
               PROVE  k \in X \/ Handed(H[n], k) \/ (c # <<>> /\ c.push = k /\ n \in ToSet(r))
    BY DEF Complete
  <2>1. n \in Names /\ J[n] \in Nat
    BY DEF ToSet
  <2>2. k \in (J[n] + 1)..Taken(b, P)
    BY <1>2, <2>1
  <2> QED
    BY <2>2 DEF Delivery, Complete
<1> QED
  BY <1>3, <1>4, <1>5, <1>6, <1>7 DEF Delivery, t, o

(* A name that joins: it is too late for what left the buffer before, and  *)
(* a walk under way still reaches it.                                      *)
LEMMA JoiningKeeps ==
    ASSUME NEW b \in Seq(Signal), NEW c \in Signal \cup {<<>>}, NEW r \in Seq(Names),
           NEW H \in Histories, NEW N \in Seq(Names),
           NEW P \in Nat, NEW X, NEW J \in [Names -> Nat], NEW L,
           Delivery(b, c, r, H, N, P, X, J, L),
           NEW m \in Names, m \notin ToSet(N),
           NEW q, q = IF c # <<>> THEN Append(r, m) ELSE <<>>,
           NEW K, K = [J EXCEPT ![m] = IF c # <<>> THEN c.push - 1 ELSE Taken(b, P)]
    PROVE  Delivery(b, c, q, H, Append(N, m), P, X, K, L)
<1> DEFINE M == Append(N, m)
<1>0. /\ WalkSound(c, r, N) /\ Contiguous(b, P) /\ OvertakenIsLost(b, c, P, X)
      /\ HandedSound(b, c, r, H, N, P, L) /\ Complete(b, c, r, H, N, P, X, J, L)
  BY DEF Delivery
<1>1. M \in Seq(Names) /\ ToSet(M) = ToSet(N) \cup {m} /\ IsInjective(M)
  BY <1>0, AppendFacts DEF WalkSound
<1>2. IsInjective(q) /\ ToSet(q) \subseteq ToSet(M) /\ ToSet(q) \subseteq ToSet(r) \cup {m}
      /\ ToSet(r) \subseteq ToSet(q)
  <2>1. CASE c # <<>>
    <3>1. m \notin ToSet(r)
      BY <1>0 DEF WalkSound
    <3> QED
      BY <1>0, <1>1, <2>1, <3>1, AppendFacts DEF WalkSound
  <2>2. CASE c = <<>>
    BY <1>0, <2>2 DEF WalkSound, ToSet, IsInjective
  <2> QED
    BY <2>1, <2>2
<1>3. WalkSound(c, q, M)
  BY <1>1, <1>2 DEF WalkSound
<1> HIDE DEF M
<1>4. HandedSound(b, c, q, H, M, P, L)
  <2> SUFFICES ASSUME NEW n \in Names \ L
               PROVE  /\ Ascending(H[n])
                      /\ \A i \in 1..Len(H[n]) : H[n][i].push <= Taken(b, P)
                      /\ c # <<>> => \A i \in 1..Len(H[n]) :
                            /\ H[n][i].push <= c.push
                            /\ n \in ToSet(q) => H[n][i].push < c.push
                      /\ n \notin ToSet(M) => H[n] = <<>>
    BY DEF HandedSound
  <2>1. /\ Ascending(H[n])
        /\ \A i \in 1..Len(H[n]) : H[n][i].push <= Taken(b, P)
        /\ c # <<>> => \A i \in 1..Len(H[n]) :
              /\ H[n][i].push <= c.push
              /\ n \in ToSet(r) => H[n][i].push < c.push
        /\ n \notin ToSet(N) => H[n] = <<>>
    BY <1>0 DEF HandedSound
  <2>2. CASE n = m
    <3>1. H[n] = <<>> /\ 1..Len(H[n]) = {}
      BY <2>1, <2>2
    <3> QED
      BY <2>1, <3>1
  <2>3. CASE n # m
    BY <1>1, <1>2, <2>1, <2>3
  <2> QED
    BY <2>2, <2>3
<1>5. Complete(b, c, q, H, M, P, X, K, L)
  <2> SUFFICES ASSUME NEW n \in ToSet(M) \ L, NEW k \in (K[n] + 1)..Taken(b, P)
               PROVE  k \in X \/ Handed(H[n], k) \/ (c # <<>> /\ c.push = k /\ n \in ToSet(q))
    BY DEF Complete
  <2>1. CASE n # m
    <3>0. ToSet(N) \subseteq Names
      BY DEF ToSet
    <3>1. n \in ToSet(N) \ L /\ n \in Names
      BY <1>1, <2>1, <3>0
    <3>2. K[n] = J[n]
      BY <2>1, <3>1
    <3> QED
      BY <1>0, <1>2, <3>1, <3>2 DEF Complete
  <2>2. CASE n = m
    <3>1. K[m] = IF c # <<>> THEN c.push - 1 ELSE Taken(b, P)
      OBVIOUS
    <3>2. Taken(b, P) \in Int
      BY DEF Taken
    <3>3. c # <<>>
      BY <2>2, <3>1, <3>2
    <3>4. c.push \in Nat /\ m \in ToSet(q)
      BY <3>3, NumbersOfSignals, AppendFacts
    <3>5. k = c.push \/ k \in (c.push + 1)..Taken(b, P)
      BY <2>2, <3>1, <3>2, <3>3, <3>4
    <3> QED
      BY <1>0, <2>2, <3>3, <3>4, <3>5 DEF OvertakenIsLost
  <2> QED
    BY <2>1, <2>2
<1> QED
  BY <1>0, <1>3, <1>4, <1>5 DEF Delivery, M

(* A name that leaves is visited no more, and promised nothing more.       *)
LEMMA LeavingKeeps ==
    ASSUME NEW b \in Seq(Signal), NEW c \in Signal \cup {<<>>}, NEW r \in Seq(Names),
           NEW H \in Histories, NEW N \in Seq(Names),
           NEW P \in Nat, NEW X, NEW J \in [Names -> Nat], NEW L,
           Delivery(b, c, r, H, N, P, X, J, L),
           NEW m \in Names
    PROVE  Delivery(b, c, RemoveFirst(r, m), H, RemoveFirst(N, m), P, X, J, L \cup {m})
<1> DEFINE q == RemoveFirst(r, m)
           M == RemoveFirst(N, m)
<1>0. /\ WalkSound(c, r, N) /\ Contiguous(b, P) /\ OvertakenIsLost(b, c, P, X)
      /\ HandedSound(b, c, r, H, N, P, L) /\ Complete(b, c, r, H, N, P, X, J, L)
  BY DEF Delivery
<1>1. /\ IsInjective(M) /\ ToSet(M) = ToSet(N) \ {m}
      /\ q \in Seq(Names) /\ IsInjective(q) /\ ToSet(q) = ToSet(r) \ {m}
  <2>1. IsInjective(r) /\ IsInjective(N)
    BY <1>0 DEF WalkSound
  <2>2. /\ q \in Seq(Names) /\ IsInjective(q) /\ ToSet(q) = ToSet(r) \ {m}
    BY <2>1, RemovedOne DEF OneFewer
  <2>3. IsInjective(M) /\ ToSet(M) = ToSet(N) \ {m}
    BY <2>1, RemovedOne DEF OneFewer
  <2> QED
    BY <2>2, <2>3
<1>2. c = <<>> => q = <<>>
  BY <1>0 DEF WalkSound, RemoveFirst
<1> HIDE DEF q, M
<1>3. WalkSound(c, q, M)
  BY <1>0, <1>1, <1>2 DEF WalkSound
<1>4. HandedSound(b, c, q, H, M, P, L \cup {m})
  BY <1>0, <1>1 DEF HandedSound
<1>5. Complete(b, c, q, H, M, P, X, J, L \cup {m})
  BY <1>0, <1>1 DEF Complete
<1> QED
  BY <1>0, <1>3, <1>4, <1>5 DEF Delivery, q, M

(* The loop, from the head of its while to its next await.                 *)
LEMMA LoopKeeps ==
    ASSUME NEW b \in Seq(Signal), received \in Histories, NEW N \in Seq(Names),
           NEW P \in Nat, NEW X, NEW J \in [Names -> Nat], NEW L,
           Delivery(b, <<>>, <<>>, received, N, P, X, J, L),
           Loop(b, N)
    PROVE  /\ Delivery(buffer', current', rest', received', N, P, X, J, L)
           /\ buffer' \in Seq(Signal) /\ Len(buffer') <= Len(b)
           /\ current' \in Signal \cup {<<>>} /\ handling' \in Names \cup {None}
           /\ rest' \in Seq(Names) /\ received' \in Histories
           /\ current' # <<>> => \E n \in Names : current' \in ToSet(received'[n])
           /\ Kept(buffer', received') = Kept(b, received)
           /\ current' = <<>> => buffer' = <<>> \/ N = <<>>
<1>1. CASE b # <<>> /\ N # <<>>
  <2>1. /\ buffer' = Tail(b) /\ current' = Head(b) /\ handling' = Head(N) /\ rest' = Tail(N)
        /\ received' = HandedTo(received, Head(N), Head(b))
    BY <1>1, Zenon DEF Loop, HandedTo
  <2>2. /\ Head(b) \in Signal /\ Head(b) # <<>>
        /\ Tail(b) \in Seq(Signal) /\ Len(Tail(b)) <= Len(b)
        /\ ToSet(b) = ToSet(Tail(b)) \cup {Head(b)}
    BY <1>1, TailFacts, SignalIsNotEmpty
  <2>3. Head(N) \in Names /\ Tail(N) \in Seq(Names)
    BY <1>1
  <2>4. Delivery(Tail(b), Head(b), N, received, N, P, X, J, L)
    BY <1>1, TakeKeeps
  <2>5. Delivery(Tail(b), Head(b), Tail(N), received', N, P, X, J, L)
    BY <1>1, <2>1, <2>2, <2>4, VisitKeeps
  <2>6. /\ received' \in Histories
        /\ Delivered(received') = Delivered(received) \cup {Head(b)}
        /\ Len(received'[Head(N)]) = Len(received[Head(N)]) + 1
        /\ received'[Head(N)][Len(received[Head(N)]) + 1] = Head(b)
    <3> DEFINE G == received'
    <3>1. G = HandedTo(received, Head(N), Head(b))
      BY <2>1
    <3> HIDE DEF G
    <3>2. /\ G \in Histories /\ Delivered(G) = Delivered(received) \cup {Head(b)}
          /\ Len(G[Head(N)]) = Len(received[Head(N)]) + 1
          /\ G[Head(N)][Len(received[Head(N)]) + 1] = Head(b)
      <4>1. OneLonger(received, Head(N), Head(b), G)
        BY <2>2, <2>3, <3>1, HandOver
      <4> QED
        BY <4>1 DEF OneLonger
    <3> QED
      BY <3>2 DEF G
  <2>7. Head(b) \in ToSet(received'[Head(N)])
    <3>1. received[Head(N)] \in Seq(Signal) /\ received'[Head(N)] \in Seq(Signal)
      BY <2>3, <2>6 DEF Histories
    <3> QED
      BY <2>6, <3>1 DEF ToSet
  <2>8. Kept(buffer', received') = Kept(b, received)
    BY <2>1, <2>2, <2>6 DEF Kept
  <2> QED
    BY <2>1, <2>2, <2>3, <2>5, <2>6, <2>7, <2>8
<1>2. CASE ~(b # <<>> /\ N # <<>>)
  <2>1. /\ buffer' = b /\ current' = <<>> /\ handling' = None /\ rest' = <<>>
        /\ received' = received
    BY <1>2, Zenon DEF Loop
  <2> QED
    BY <1>2, <2>1
<1> QED
  BY <1>1, <1>2

-----------------------------------------------------------------------------
(* Deduplication.                                                          *)

Entry(S) == [id : S, expires : Nat]
Sighting(S) == [id : S, push : Nat, at : Nat]

(* The map d at time t without the expired entries at its front, and       *)
(* without its oldest entry if it has outgrown the window w.               *)
Unexpired(d, t) ==
    LET k == SelectInSeq(d, LAMBDA e : e.expires > t)
    IN  IF k = 0 THEN <<>> ELSE SubSeq(d, k, Len(d))
Within(d, w) == IF Len(d) > w THEN Tail(d) ELSE d

(* An entry that has not expired stays, with as many after it.             *)
LEMMA EvictionKeeps ==
    ASSUME NEW S, NEW d \in Seq(Entry(S)), NEW t \in Nat
    PROVE  /\ Unexpired(d, t) \in Seq(Entry(S))
           /\ Len(Unexpired(d, t)) <= Len(d)
           /\ \A k \in 1..Len(d) : d[k].expires > t =>
                 \E j \in 1..Len(Unexpired(d, t)) :
                     /\ Unexpired(d, t)[j] = d[k]
                     /\ Len(Unexpired(d, t)) - j = Len(d) - k
<1> DEFINE I == {i \in 1..Len(d) : d[i].expires > t}
           e == Unexpired(d, t)
<1>1. CASE I = {}
  <2>1. e = <<>>
    BY <1>1 DEF Unexpired, SelectInSeq
  <2> HIDE DEF e
  <2>2. e \in Seq(Entry(S)) /\ Len(e) <= Len(d)
    BY <2>1
  <2> QED
    BY <1>1, <2>2 DEF e
<1>2. CASE I # {}
  <2> I \in SUBSET Nat
    OBVIOUS
  <2>0. Min(I) \in I /\ \A i \in I : Min(I) <= i
    BY <1>2, LeastNatural
  <2>1. PICK m \in 1..Len(d) : Min(I) = m
    BY <2>0
  <2>2. e = SubSeq(d, m, Len(d))
    <3>1. e = LET k == IF I # {} THEN Min(I) ELSE 0
              IN  IF k = 0 THEN <<>> ELSE SubSeq(d, k, Len(d))
      BY Zenon DEF Unexpired, SelectInSeq
    <3> HIDE DEF e
    <3>2. (IF I # {} THEN Min(I) ELSE 0) = m /\ m # 0
      BY <1>2, <2>1
    <3> DEFINE k0 == IF I # {} THEN Min(I) ELSE 0
    <3>3. e = IF k0 = 0 THEN <<>> ELSE SubSeq(d, k0, Len(d))
      BY <3>1
    <3> HIDE DEF k0
    <3> QED
      BY <3>2, <3>3 DEF k0
  <2> HIDE DEF e
  <2>3. /\ e \in Seq(Entry(S)) /\ Len(e) = Len(d) - m + 1
        /\ \A j \in 1..Len(e) : e[j] = d[m + j - 1]
    BY <2>1, <2>2
  <2>4. ASSUME NEW k \in 1..Len(d), d[k].expires > t
        PROVE  \E j \in 1..Len(e) : e[j] = d[k] /\ Len(e) - j = Len(d) - k
    <3>1. m <= k
      BY <2>0, <2>1, <2>4
    <3> DEFINE j == k - m + 1
    <3>2. j \in 1..Len(e) /\ m + j - 1 = k /\ Len(e) - j = Len(d) - k
      BY <2>1, <2>3, <3>1
    <3>3. e[j] = d[m + j - 1]
      BY <2>3, <3>2
    <3>4. e[j] = d[k]
      BY <3>2, <3>3
    <3> HIDE DEF j
    <3> QED
      BY <3>2, <3>4
  <2> QED
    BY <2>1, <2>3, <2>4 DEF e
<1> QED
  BY <1>1, <1>2

LEMMA NumbersOfSightings ==
    \A S : \A x \in Sighting(S) : x.push \in Nat /\ x.at \in Nat /\ x.id \in S
  BY DEF Sighting

LEMMA MemoryOutlivesEviction ==
    ASSUME NEW S, NEW l \in Nat, NEW w \in Nat \ {0},
           NEW d \in Seq(Entry(S)), NEW t \in Nat, NEW P \in Nat, NEW K \in SUBSET Sighting(S),
           Memory(K, d, P, t, l, w)
    PROVE  Memory(K, Unexpired(d, t), P, t, l, w)
<1> DEFINE e == Unexpired(d, t)
<1>0. /\ e \in Seq(Entry(S))
      /\ \A k \in 1..Len(d) : d[k].expires > t =>
            \E j \in 1..Len(e) : e[j] = d[k] /\ Len(e) - j = Len(d) - k
  BY EvictionKeeps
<1> HIDE DEF e
<1> SUFFICES ASSUME NEW x \in K, t - x.at < l, P - x.push < w
             PROVE  \E j \in 1..Len(e) : /\ e[j].id = x.id /\ e[j].expires = x.at + l
                                        /\ Len(e) - j <= P - x.push
  <2> SUFFICES ASSUME NEW x \in K
               PROVE  x.push <= P /\ x.at <= t /\ Recalled(x, e, P, t, l, w)
    BY DEF Memory, e
  <2>1. /\ x.at \in Nat /\ x.push \in Nat /\ l \in Nat /\ w \in Nat
        /\ x.push <= P /\ x.at <= t
    BY NumbersOfSightings DEF Memory
  <2>2. CASE t - x.at < l /\ P - x.push < w
    BY <2>1, <2>2 DEF Recalled
  <2>3. CASE ~(t - x.at < l /\ P - x.push < w)
    <3>1. t - x.at >= l \/ P - x.push >= w
      BY <2>1, <2>3
    <3> QED
      BY <2>1, <3>1, Zenon DEF Recalled
  <2> QED
    BY <2>2, <2>3
<1>1. x.at \in Nat /\ x.push \in Nat /\ l \in Nat /\ w \in Nat
  BY NumbersOfSightings
<1>2. PICK k \in 1..Len(d) :
        d[k].id = x.id /\ d[k].expires = x.at + l /\ Len(d) - k <= P - x.push
  BY <1>1, SMTT(30) DEF Memory, Recalled
<1>3. d[k].expires > t
  BY <1>1, <1>2
<1>4. PICK j \in 1..Len(e) : e[j] = d[k] /\ Len(e) - j = Len(d) - k
  BY <1>0, <1>3
<1> QED
  BY <1>2, <1>4

(* The signal that arrives is remembered, and forgotten at the earliest    *)
(* when a window of others has come.                                       *)
LEMMA RememberingKeeps ==
    ASSUME NEW S, NEW l \in Nat, NEW w \in Nat \ {0},
           NEW d \in Seq(Entry(S)), Len(d) <= w, NEW P \in Nat, NEW t \in Nat,
           NEW K \in SUBSET Sighting(S), Memory(K, d, P, t, l, w),
           NEW x \in Sighting(S), x.push = P + 1, x.at = t
    PROVE  /\ Memory(K \cup {x}, Within(Append(d, [id |-> x.id, expires |-> t + l]), w), P + 1, t, l, w)
           /\ Within(Append(d, [id |-> x.id, expires |-> t + l]), w) \in Seq(Entry(S))
           /\ Len(Within(Append(d, [id |-> x.id, expires |-> t + l]), w)) <= w
<1> DEFINE new == [id |-> x.id, expires |-> t + l]
           a == Append(d, new)
           z == Within(a, w)
<1>0. l \in Nat /\ w \in Nat \ {0}
  OBVIOUS
<1>1. new \in Entry(S) /\ new.id = x.id /\ new.expires = x.at + l
  BY <1>0, NumbersOfSightings DEF Entry
<1> HIDE DEF new
<1>2. /\ a \in Seq(Entry(S)) /\ Len(a) = Len(d) + 1 /\ a[Len(d) + 1] = new
      /\ \A k \in 1..Len(d) : a[k] = d[k]
  BY <1>1, AppendFacts
<1> HIDE DEF a
<1>3. z \in Seq(Entry(S)) /\ Len(z) <= w
  BY <1>0, <1>2 DEF Within
<1>4. ASSUME NEW k \in 1..Len(a), Len(a) - k < w
      PROVE  \E j \in 1..Len(z) : z[j] = a[k] /\ Len(z) - j = Len(a) - k
  <2>1. CASE Len(a) > w
    <3>1. /\ z = Tail(a) /\ a # <<>>
      BY <1>0, <1>2, <2>1 DEF Within
    <3>2. Len(z) = Len(a) - 1 /\ \A j \in 1..Len(z) : z[j] = a[j + 1]
      BY <1>2, <3>1, TailFacts
    <3>3. k - 1 \in 1..Len(z) /\ (k - 1) + 1 = k /\ Len(z) - (k - 1) = Len(a) - k
      BY <1>0, <1>2, <1>4, <2>1, <3>2
    <3>4. z[k - 1] = a[k]
      BY <3>2, <3>3
    <3> QED
      BY <3>3, <3>4
  <2>2. CASE ~(Len(a) > w)
    <3>1. z = a
      BY <2>2 DEF Within
    <3> QED
      BY <3>1
  <2> QED
    BY <2>1, <2>2
<1> HIDE DEF z
<1>5. ASSUME NEW y \in K
      PROVE  y.push <= P + 1 /\ y.at <= t /\ Recalled(y, z, P + 1, t, l, w)
  <2>1. y.push \in Nat /\ y.at \in Nat /\ y.push <= P /\ y.at <= t /\ Recalled(y, d, P, t, l, w)
    BY <1>5, NumbersOfSightings DEF Memory
  <2>2. CASE t - y.at >= l
    BY <2>1, <2>2 DEF Recalled
  <2>3. CASE (P + 1) - y.push >= w
    BY <2>1, <2>3 DEF Recalled
  <2>4. CASE t - y.at < l /\ (P + 1) - y.push < w
    <3>1. PICK k \in 1..Len(d) : d[k].id = y.id /\ d[k].expires = y.at + l
                                /\ Len(d) - k <= P - y.push
      <4>1. ~(t - y.at >= l) /\ ~(P - y.push >= w)
        BY <1>0, <2>1, <2>4
      <4> QED
        BY <2>1, <4>1, Zenon DEF Recalled
    <3>2. k \in 1..Len(a) /\ a[k] = d[k]
      BY <1>2, <3>1
    <3>4. Len(a) - k <= (P + 1) - y.push /\ Len(a) - k < w
      <4>1. Len(a) = Len(d) + 1 /\ Len(d) \in Nat /\ Len(d) - k <= P - y.push
        BY <1>2, <3>1
      <4>2. y.push \in Nat /\ (P + 1) - y.push < w /\ w \in Nat
        BY <1>0, <2>1, <2>4
      <4> QED
        BY ONLY <4>1, <4>2, P \in Nat, k \in 1..Len(d)
    <3>3. PICK j \in 1..Len(z) : z[j] = a[k] /\ Len(z) - j = Len(a) - k
      BY <1>4, <3>2, <3>4
    <3>5. /\ z[j].id = y.id /\ z[j].expires = y.at + l
          /\ Len(z) - j <= (P + 1) - y.push
      BY <3>1, <3>2, <3>3, <3>4
    <3>6. \E i \in 1..Len(z) :
            z[i].id = y.id /\ z[i].expires = y.at + l /\ Len(z) - i <= (P + 1) - y.push
      BY <3>5
    <3>7. Recalled(y, z, P + 1, t, l, w)
      BY <3>6, Zenon DEF Recalled
    <3> QED
      BY <2>1, <3>7
  <2> QED
    BY <1>0, <2>1, <2>2, <2>3, <2>4
<1>6. x.push <= P + 1 /\ x.at <= t /\ Recalled(x, z, P + 1, t, l, w)
  <2>1. Len(a) \in 1..Len(a) /\ Len(a) - Len(a) < w /\ a[Len(a)] = new
    BY <1>0, <1>2
  <2>2. PICK j \in 1..Len(z) : z[j] = a[Len(a)] /\ Len(z) - j = Len(a) - Len(a)
    BY <1>4, <2>1
  <2>3. z[j].id = x.id /\ z[j].expires = x.at + l /\ Len(z) - j <= (P + 1) - x.push
    BY <1>1, <1>2, <2>1, <2>2
  <2> QED
    BY <2>3 DEF Recalled
<1> QED
  BY <1>3, <1>5, <1>6 DEF Memory, z, a, new

(* A signal that is not remembered repeats nothing within the memory.      *)
Remembering(S, K, d, P, t, l, w) ==
    /\ l \in Nat /\ w \in Nat \ {0} /\ d \in Seq(Entry(S)) /\ t \in Nat /\ P \in Nat
    /\ K \in SUBSET Sighting(S)
    /\ Memory(K, d, P, t, l, w) /\ NoRepetition(K, l, w)

Arriving(S, x, d, P, t) ==
    /\ x \in Sighting(S) /\ x.push = P + 1 /\ x.at = t
    /\ ~\E k \in DOMAIN Unexpired(d, t) : Unexpired(d, t)[k].id = x.id

LEMMA ArrivalIsNew ==
    ASSUME NEW S, NEW K, NEW d, NEW P, NEW t, NEW l, NEW w, Remembering(S, K, d, P, t, l, w),
           NEW x, Arriving(S, x, d, P, t)
    PROVE  NoRepetition(K \cup {x}, l, w)
<1>r. /\ l \in Nat /\ w \in Nat \ {0} /\ d \in Seq(Entry(S)) /\ t \in Nat /\ P \in Nat
      /\ K \in SUBSET Sighting(S)
      /\ Memory(K, d, P, t, l, w) /\ NoRepetition(K, l, w)
  BY DEF Remembering
<1>a. /\ x \in Sighting(S) /\ x.push = P + 1 /\ x.at = t
      /\ ~\E k \in DOMAIN Unexpired(d, t) : Unexpired(d, t)[k].id = x.id
  BY DEF Arriving
<1> USE <1>r, <1>a
<1>1. ASSUME NEW y \in K, y.id = x.id
      PROVE  x.at - y.at >= l \/ x.push - y.push > w
  <2>0. /\ y.at \in Nat /\ y.push \in Nat /\ l \in Nat /\ w \in Nat
    BY <1>1, NumbersOfSightings
  <2>1. Recalled(y, d, P, t, l, w)
    BY <1>1 DEF Memory
  <2>2. CASE t - y.at >= l \/ P - y.push >= w
    BY <2>0, <2>2
  <2>3. CASE t - y.at < l /\ P - y.push < w
    <3>1. PICK k \in 1..Len(d) : d[k].id = y.id /\ d[k].expires = y.at + l
      BY <2>0, <2>1, <2>3 DEF Recalled
    <3>2. d[k].expires > t
      BY <2>0, <2>3, <3>1
    <3>3. PICK j \in 1..Len(Unexpired(d, t)) : Unexpired(d, t)[j] = d[k]
      BY <3>2, EvictionKeeps, SMTT(30)
    <3>4. Unexpired(d, t) \in Seq(Entry(S))
      BY EvictionKeeps
    <3> QED
      BY <1>1, <3>1, <3>3, <3>4
  <2> QED
    BY <2>0, <2>2, <2>3
<1>2. \A y \in K : y.push < x.push /\ y.push \in Nat
  BY NumbersOfSightings DEF Memory
<1> SUFFICES ASSUME NEW y \in K \cup {x}, NEW z \in K \cup {x}, y.id = z.id, y.push < z.push
             PROVE  z.at - y.at >= l \/ z.push - y.push > w
  BY DEF NoRepetition
<1>3. CASE z \in K
  BY <1>2, <1>3 DEF NoRepetition
<1>4. CASE z = x
  <2>1. y \in K
    BY <1>2, <1>4
  <2> QED
    BY <1>1, <1>4, <2>1
<1> QED
  BY <1>3, <1>4

LEMMA TimePasses ==
    ASSUME NEW S, NEW l \in Nat, NEW w \in Nat \ {0},
           NEW K \in SUBSET Sighting(S), NEW d, NEW P \in Nat, NEW t \in Nat,
           Memory(K, d, P, t, l, w)
    PROVE  Memory(K, d, P, t + 1, l, w)
<1> SUFFICES ASSUME NEW x \in K
             PROVE  x.push <= P /\ x.at <= t + 1 /\ Recalled(x, d, P, t + 1, l, w)
  BY DEF Memory
<1>1. x.push <= P /\ x.at <= t /\ Recalled(x, d, P, t, l, w) /\ x.at \in Nat /\ l \in Nat
  BY NumbersOfSightings DEF Memory
<1> QED
  BY <1>1 DEF Recalled

(* What the queue does to its map.                                         *)
LEMMA QueueRemembers ==
    /\ evictExpiredDedup = Unexpired(dedup, now)
    /\ \A d : Trim(d) = Within(d, DedupWindow)
    /\ \A s : Known(s) <=> \E k \in DOMAIN Unexpired(dedup, now) : Unexpired(dedup, now)[k].id = s
<1>1. evictExpiredDedup = Unexpired(dedup, now)
  BY DEF evictExpiredDedup, Unexpired, SelectInSeq
<1>2. \A s : Known(s) <=> \E k \in DOMAIN evictExpiredDedup : evictExpiredDedup[k].id = s
  BY DEF Known
<1>3. \A d : Trim(d) = Within(d, DedupWindow)
  BY DEF Trim, Within
<1> QED
  BY <1>1, <1>2, <1>3

LEMMA KeptAreSignals ==
    ASSUME NEW b \in Seq(Signal), NEW H \in Histories
    PROVE  Kept(b, H) \subseteq Signal
<1>1. ToSet(b) \subseteq Signal
  BY DEF ToSet
<1>2. \A n \in Names : ToSet(H[n]) \subseteq Signal
  BY DEF ToSet, Histories
<1>3. Delivered(H) \subseteq Signal
  BY <1>2 DEF Delivered
<1> QED
  BY <1>1, <1>3 DEF Kept

-----------------------------------------------------------------------------
(* The steps.                                                              *)

Deliver == Delivery(buffer, current, rest, received, subscribers, pushes, dropped, joined, left)

Remember ==
    /\ Memory(Kept(buffer, received), dedup, pushes, now, DedupTtl, DedupWindow)
    /\ NoRepetition(Kept(buffer, received), DedupTtl, DedupWindow)

CurrentIsKept == current # <<>> => \E n \in Names : current \in ToSet(received[n])

LEMMA QueueStarts == Init => QueueInv
<1> SUFFICES ASSUME Init
             PROVE  QueueInv
  OBVIOUS
<1> USE QueueAssumption DEF Init
<1>1. TypeOK
  BY DEF TypeOK
<1>2. Kept(buffer, received) = {}
  BY DEF Kept, Delivered, ToSet
<1>3. Remember
  BY <1>2 DEF Remember, Memory, NoRepetition
<1>4. Contiguous(buffer, pushes) /\ WalkSound(current, rest, subscribers)
  BY DEF Contiguous, Taken, WalkSound, IsInjective, ToSet
<1>5. HandedSound(buffer, current, rest, received, subscribers, pushes, left)
  BY DEF HandedSound, Ascending
<1>6. Deliver
  BY <1>4, <1>5 DEF Deliver, Delivery, OvertakenIsLost, Complete, ToSet
<1> QED
  BY <1>1, <1>3, <1>6 DEF QueueInv, Deliver, Remember, NoLostWakeup

(* The next name of the walk is handed the signal, or the loop goes on.    *)
LEMMA HandlerEndsKeeps == ASSUME QueueInv, HandlerEnds PROVE QueueInv'
<1> USE DEF HandlerEnds
<1>0. TypeOK /\ Deliver /\ Remember /\ CurrentIsKept /\ received \in Histories
  BY DEF QueueInv, Deliver, Remember, CurrentIsKept, TypeOK, Histories
<1>t. /\ buffer \in Seq(Signal) /\ Len(buffer) <= Capacity /\ subscribers \in Seq(Names)
      /\ rest \in Seq(Names) /\ current \in Signal /\ pushes \in Nat
      /\ joined \in [Names -> Nat]
  BY <1>0, QueueAssumption DEF TypeOK
<1> SUFFICES /\ buffer' \in Seq(Signal) /\ Len(buffer') <= Len(buffer)
             /\ current' \in Signal \cup {<<>>} /\ handling' \in Names \cup {None}
             /\ rest' \in Seq(Names) /\ received' \in Histories
             /\ Deliver' /\ CurrentIsKept' /\ NoLostWakeup'
             /\ Kept(buffer', received') = Kept(buffer, received)
  <2>1. TypeOK'
    <3>1. Len(buffer') <= Capacity
      BY <1>t, QueueAssumption
    <3> QED
      BY <1>0, <3>1 DEF TypeOK, Histories
  <2>2. Remember'
    BY <1>0 DEF Remember
  <2> QED
    BY <2>1, <2>2 DEF QueueInv, Deliver, Remember, CurrentIsKept
<1>1. CASE rest = <<>>
  <2>1. Loop(buffer, subscribers)
    BY <1>1
  <2>2. Delivery(buffer, <<>>, <<>>, received, subscribers, pushes, dropped, joined, left)
    BY <1>0, <1>1 DEF Deliver, Delivery, WalkSound, OvertakenIsLost, HandedSound, Complete, ToSet
  <2>3. /\ Delivery(buffer', current', rest', received', subscribers, pushes, dropped, joined, left)
        /\ buffer' \in Seq(Signal) /\ Len(buffer') <= Len(buffer)
        /\ current' \in Signal \cup {<<>>} /\ handling' \in Names \cup {None}
        /\ rest' \in Seq(Names) /\ received' \in Histories
        /\ current' # <<>> => \E n \in Names : current' \in ToSet(received'[n])
        /\ Kept(buffer', received') = Kept(buffer, received)
        /\ current' = <<>> => buffer' = <<>> \/ subscribers = <<>>
    BY <1>0, <1>t, <2>1, <2>2, LoopKeeps
  <2> QED
    BY <2>3 DEF Deliver, CurrentIsKept, NoLostWakeup
<1>2. CASE rest # <<>>
  <2>1. /\ handling' = Head(rest) /\ rest' = Tail(rest) /\ buffer' = buffer /\ current' = current
        /\ received' = HandedTo(received, Head(rest), current)
    BY <1>2, Zenon DEF HandedTo
  <2>2. Head(rest) \in Names /\ Tail(rest) \in Seq(Names)
    BY <1>t, <1>2
  <2> DEFINE G == received'
  <2>3. G = HandedTo(received, Head(rest), current)
    BY <2>1
  <2>4. Delivery(buffer, current, Tail(rest), G, subscribers, pushes, dropped, joined, left)
    <3> HIDE DEF G
    <3> QED
      BY <1>0, <1>t, <1>2, <2>3, VisitKeeps DEF Deliver
  <2>5. /\ G \in Histories /\ Delivered(G) = Delivered(received) \cup {current}
        /\ \A n \in Names : ToSet(received[n]) \subseteq ToSet(G[n])
    <3> HIDE DEF G
    <3>1. G \in Histories /\ Delivered(G) = Delivered(received) \cup {current}
      BY <1>0, <1>t, <2>2, <2>3, HandOver DEF OneLonger
    <3>2. ASSUME NEW n \in Names PROVE ToSet(received[n]) \subseteq ToSet(G[n])
      BY <1>0, <1>t, <2>2, <2>3, HandOver DEF OneLonger
    <3> QED
      BY <3>1, <3>2
  <2>6. PICK n \in Names : current \in ToSet(received[n])
    BY <1>0, <1>t, SignalIsNotEmpty DEF CurrentIsKept
  <2>7. current \in Delivered(received)
    BY <2>6 DEF Delivered
  <2>8. Kept(buffer', received') = Kept(buffer, received)
    BY <2>1, <2>5, <2>7 DEF Kept
  <2>9. CurrentIsKept'
    BY <2>1, <2>5, <2>6 DEF CurrentIsKept
  <2>10. NoLostWakeup'
    BY <1>t, <2>1, SignalIsNotEmpty DEF NoLostWakeup
  <2> QED
    BY <1>t, <2>1, <2>2, <2>4, <2>5, <2>8, <2>9, <2>10 DEF Deliver
<1> QED
  BY <1>1, <1>2

(* dispatch() runs the loop when nobody does.                              *)
LEMMA DispatchKeeps ==
    ASSUME NEW b \in Seq(Signal), received \in Histories, NEW N \in Seq(Names),
           current \in Signal \cup {<<>>}, rest \in Seq(Names), handling \in Names \cup {None},
           NEW P \in Nat, NEW X, NEW J \in [Names -> Nat], NEW L,
           Delivery(b, current, rest, received, N, P, X, J, L), CurrentIsKept,
           dispatch(b, N)
    PROVE  /\ Delivery(buffer', current', rest', received', N, P, X, J, L)
           /\ buffer' \in Seq(Signal) /\ Len(buffer') <= Len(b)
           /\ current' \in Signal \cup {<<>>} /\ handling' \in Names \cup {None}
           /\ rest' \in Seq(Names) /\ received' \in Histories
           /\ CurrentIsKept'
           /\ Kept(buffer', received') = Kept(b, received)
           /\ current' = <<>> => buffer' = <<>> \/ N = <<>>
<1>1. CASE current # <<>>
  <2>1. /\ buffer' = b /\ current' = current /\ handling' = handling /\ rest' = rest
        /\ received' = received
    BY <1>1 DEF dispatch, dispatchVars
  <2>2. Len(b) <= Len(b)
    OBVIOUS
  <2> QED
    BY <1>1, <2>1, <2>2 DEF CurrentIsKept
<1>2. CASE current = <<>>
  <2>1. Loop(b, N)
    BY <1>2 DEF dispatch
  <2>2. rest = <<>>
    BY <1>2 DEF Delivery, WalkSound
  <2>3. Delivery(b, <<>>, <<>>, received, N, P, X, J, L)
    BY <1>2, <2>2
  <2>4. /\ Delivery(buffer', current', rest', received', N, P, X, J, L)
        /\ buffer' \in Seq(Signal) /\ Len(buffer') <= Len(b)
        /\ current' \in Signal \cup {<<>>} /\ handling' \in Names \cup {None}
        /\ rest' \in Seq(Names) /\ received' \in Histories
        /\ current' # <<>> => \E n \in Names : current' \in ToSet(received'[n])
        /\ Kept(buffer', received') = Kept(b, received)
        /\ current' = <<>> => buffer' = <<>> \/ N = <<>>
    BY <2>1, <2>3, LoopKeeps
  <2> QED
    BY <2>4 DEF CurrentIsKept
<1> QED
  BY <1>1, <1>2

LEMMA FewerAreRemembered ==
    ASSUME NEW K, NEW M \in SUBSET K, NEW d, NEW P, NEW t, NEW l, NEW w
    PROVE  /\ Memory(K, d, P, t, l, w) => Memory(M, d, P, t, l, w)
           /\ NoRepetition(K, l, w) => NoRepetition(M, l, w)
  BY DEF Memory, NoRepetition

LEMMA QueueTypes ==
    ASSUME QueueInv
    PROVE  /\ buffer \in Seq(Signal) /\ Len(buffer) <= Capacity /\ subscribers \in Seq(Names)
           /\ current \in Signal \cup {<<>>} /\ rest \in Seq(Names)
           /\ handling \in Names \cup {None} /\ received \in Histories
           /\ dedup \in Seq(Entry(Signals)) /\ Len(dedup) <= DedupWindow
           /\ joined \in [Names -> Nat] /\ pushes \in Nat /\ now \in Nat
           /\ TypeOK /\ Deliver /\ Remember /\ CurrentIsKept /\ NoLostWakeup
           /\ Kept(buffer, received) \in SUBSET Sighting(Signals)
           /\ DedupTtl \in Nat /\ DedupWindow \in Nat \ {0}
<1>1. received \in Histories /\ buffer \in Seq(Signal)
  BY DEF QueueInv, TypeOK, Histories
<1>2. Kept(buffer, received) \in SUBSET Sighting(Signals) /\ DedupTtl \in Nat
      /\ DedupWindow \in Nat \ {0}
  <2>1. Signal \subseteq Sighting(Signals)
    BY QueueAssumption DEF Signal, Sighting
  <2> QED
    BY <1>1, <2>1, KeptAreSignals, QueueAssumption
<1>3. TypeOK /\ Deliver /\ Remember /\ CurrentIsKept /\ NoLostWakeup
  BY DEF QueueInv, Deliver, Remember, CurrentIsKept
<1>4. /\ Len(buffer) <= Capacity /\ subscribers \in Seq(Names)
      /\ current \in Signal \cup {<<>>} /\ rest \in Seq(Names)
      /\ handling \in Names \cup {None}
  BY <1>3 DEF TypeOK
<1>5. /\ dedup \in Seq(Entry(Signals)) /\ Len(dedup) <= DedupWindow
      /\ joined \in [Names -> Nat]
  BY <1>3 DEF TypeOK, Entry
<1>6. pushes \in Nat /\ now \in Nat
  BY <1>3, QueueAssumption DEF TypeOK
<1> QED
  BY <1>1, <1>2, <1>3, <1>4, <1>5, <1>6

LEMMA PushKeeps == ASSUME QueueInv, NEW s \in Signals, Push(s) PROVE QueueInv'
<1> DEFINE signal == [id |-> s, push |-> pushes + 1, at |-> now]
           room == IF Full THEN Tail(buffer) ELSE buffer
           b == Append(room, signal)
           new == [id |-> s, expires |-> now + DedupTtl]
<1>p. /\ pushes < MaxPushes /\ ~Known(s) /\ pushes' = pushes + 1
      /\ dedup' = Trim(Append(evictExpiredDedup, new))
      /\ dropped' = IF Full THEN dropped \cup {Head(buffer).push} ELSE dropped
      /\ dispatch(b, subscribers)
      /\ UNCHANGED <<now, subscribers, draining, subscribes, drains, joined, left>>
  BY DEF Push
<1>t. /\ buffer \in Seq(Signal) /\ Len(buffer) <= Capacity /\ subscribers \in Seq(Names)
      /\ current \in Signal \cup {<<>>} /\ rest \in Seq(Names)
      /\ handling \in Names \cup {None} /\ received \in Histories
      /\ dedup \in Seq(Entry(Signals)) /\ Len(dedup) <= DedupWindow
      /\ joined \in [Names -> Nat] /\ pushes \in Nat /\ now \in Nat
      /\ TypeOK /\ Deliver /\ Remember /\ CurrentIsKept
      /\ Kept(buffer, received) \in SUBSET Sighting(Signals)
      /\ DedupTtl \in Nat /\ DedupWindow \in Nat \ {0}
  BY QueueTypes
<1>s. /\ signal \in Signal /\ signal \in Sighting(Signals) /\ signal.id = s /\ signal.push = pushes + 1 /\ signal.at = now
      /\ new = [id |-> signal.id, expires |-> now + DedupTtl]
  <2>1. signal \in Signal
    BY <1>p, <1>t, QueueAssumption DEF Signal, TypeOK
  <2>2. signal \in Sighting(Signals)
    BY <1>t DEF Sighting
  <2> QED
    BY <2>1, <2>2
<1>c. Capacity \in Nat \ {0}
  BY QueueAssumption
<1> HIDE DEF signal, new
<1>f. Full => buffer # <<>>
  BY <1>c, <1>t DEF Full
<1>r. /\ room \in Seq(Signal) /\ Len(room) < Capacity /\ ToSet(room) \subseteq ToSet(buffer)
      /\ Delivery(room, current, rest, received, subscribers, pushes, dropped', joined, left)
  <2>1. CASE Full
    <3>1. /\ Tail(buffer) \in Seq(Signal) /\ Len(Tail(buffer)) = Len(buffer) - 1
          /\ ToSet(Tail(buffer)) \subseteq ToSet(buffer)
      BY <1>f, <1>t, <2>1, TailFacts
    <3>2. Delivery(Tail(buffer), current, rest, received, subscribers, pushes,
                   dropped \cup {Head(buffer).push}, joined, left)
      BY <1>f, <1>t, <2>1, OverflowKeeps DEF Deliver
    <3> QED
      BY <1>p, <1>t, <2>1, <3>1, <3>2, QueueAssumption
  <2>2. CASE ~Full
    <3>1. Len(buffer) < Capacity
      BY <1>c, <1>t, <2>2 DEF Full
    <3> QED
      BY <1>p, <1>t, <2>2, <3>1 DEF Deliver
  <2> QED
    BY <2>1, <2>2
<1> HIDE DEF room
<1>b. /\ b \in Seq(Signal) /\ Len(b) <= Capacity /\ ToSet(b) = ToSet(room) \cup {signal}
      /\ Delivery(b, current, rest, received, subscribers, pushes + 1, dropped', joined, left)
  <2>1. /\ b \in Seq(Signal) /\ Len(b) = Len(room) + 1 /\ ToSet(b) = ToSet(room) \cup {signal}
    BY <1>r, <1>s, AppendFacts
  <2>2. Delivery(b, current, rest, received, subscribers, pushes + 1, dropped', joined, left)
    BY <1>r, <1>s, <1>t, ArrivalKeeps
  <2> QED
    BY <1>r, <2>1, <2>2, QueueAssumption
<1> HIDE DEF b
<1>1. /\ Delivery(buffer', current', rest', received', subscribers, pushes + 1, dropped', joined, left)
      /\ buffer' \in Seq(Signal) /\ Len(buffer') <= Len(b)
      /\ current' \in Signal \cup {<<>>} /\ handling' \in Names \cup {None}
      /\ rest' \in Seq(Names) /\ received' \in Histories
      /\ CurrentIsKept'
      /\ Kept(buffer', received') = Kept(b, received)
      /\ current' = <<>> => buffer' = <<>> \/ subscribers = <<>>
  <2>1. pushes + 1 \in Nat
    BY <1>t
  <2> QED
    BY <1>b, <1>p, <1>t, <2>1, DispatchKeeps
<1> DEFINE K == Kept(buffer, received)
<1>2. Kept(b, received) \subseteq K \cup {signal}
  BY <1>b, <1>r DEF Kept
<1> HIDE DEF K
<1>3. /\ evictExpiredDedup \in Seq(Entry(Signals)) /\ Len(evictExpiredDedup) <= DedupWindow
      /\ Memory(K, evictExpiredDedup, pushes, now, DedupTtl, DedupWindow)
  <2>1. evictExpiredDedup \in Seq(Entry(Signals)) /\ Len(evictExpiredDedup) <= Len(dedup)
    BY <1>t, EvictionKeeps, QueueRemembers
  <2>2. Memory(K, evictExpiredDedup, pushes, now, DedupTtl, DedupWindow)
    BY <1>t, MemoryOutlivesEviction, QueueRemembers DEF Remember, K
  <2> QED
    BY <1>t, <2>1, <2>2, QueueAssumption
<1>4. /\ Memory(K \cup {signal}, dedup', pushes + 1, now, DedupTtl, DedupWindow)
      /\ dedup' \in Seq(Entry(Signals)) /\ Len(dedup') <= DedupWindow
  <2>1. K \in SUBSET Sighting(Signals)
    BY <1>t DEF K
  <2> DEFINE d == evictExpiredDedup
  <2>2. d \in Seq(Entry(Signals)) /\ Len(d) <= DedupWindow /\ Memory(K, d, pushes, now, DedupTtl, DedupWindow)
    BY <1>3
  <2>3. dedup' = Within(Append(d, [id |-> signal.id, expires |-> now + DedupTtl]), DedupWindow)
    BY <1>p, <1>s, QueueRemembers
  <2> HIDE DEF d
  <2> QED
    BY <1>s, <1>t, <2>1, <2>2, <2>3, RememberingKeeps
<1>5. NoRepetition(K \cup {signal}, DedupTtl, DedupWindow)
  <2>1. Remembering(Signals, K, dedup, pushes, now, DedupTtl, DedupWindow)
    BY <1>t, QueueAssumption DEF Remember, Remembering, K
  <2>2. Arriving(Signals, signal, dedup, pushes, now)
    BY <1>p, <1>s, QueueRemembers, Zenon DEF Arriving
  <2> QED
    BY <2>1, <2>2, ArrivalIsNew
<1>6. Remember'
  <2>1. /\ Memory(Kept(b, received), dedup', pushes + 1, now, DedupTtl, DedupWindow)
        /\ NoRepetition(Kept(b, received), DedupTtl, DedupWindow)
    BY <1>2, <1>4, <1>5, FewerAreRemembered
  <2> QED
    BY <1>1, <1>p, <2>1 DEF Remember
<1>7. Deliver'
  BY <1>1, <1>p DEF Deliver
<1>8. NoLostWakeup'
  BY <1>1, <1>p DEF NoLostWakeup
<1>9. TypeOK'
  <2>1. Len(buffer') <= Capacity
    BY <1>1, <1>b, QueueAssumption
  <2>2. pushes' \in 0..MaxPushes
    BY <1>p, <1>t, QueueAssumption
  <2>3. dropped' \subseteq 1..MaxPushes
    <3>1. CASE Full
      <4>1. Head(buffer) \in Signal
        BY <1>f, <1>t, <3>1
      <4>2. Head(buffer).push \in 1..MaxPushes
        BY <4>1 DEF Signal
      <4> QED
        BY <1>p, <1>t, <3>1, <4>2 DEF TypeOK
    <3> QED
      BY <1>p, <1>t, <3>1 DEF TypeOK
  <2> QED
    BY <1>1, <1>4, <1>p, <1>t, <2>1, <2>2, <2>3 DEF TypeOK, Histories, Entry
<1> QED
  BY <1>1, <1>6, <1>7, <1>8, <1>9 DEF QueueInv, Deliver, Remember, CurrentIsKept

LEMMA PushDuplicateKeeps == ASSUME QueueInv, NEW s \in Signals, PushDuplicate(s) PROVE QueueInv'
<1>t. /\ dedup \in Seq(Entry(Signals)) /\ Len(dedup) <= DedupWindow /\ pushes \in Nat /\ now \in Nat
      /\ TypeOK /\ Deliver /\ Remember /\ CurrentIsKept /\ NoLostWakeup
      /\ Kept(buffer, received) \in SUBSET Sighting(Signals)
      /\ DedupTtl \in Nat /\ DedupWindow \in Nat \ {0}
  BY QueueTypes
<1>p. /\ dedup' = evictExpiredDedup
      /\ UNCHANGED <<now, buffer, subscribers, current, handling, rest, received, draining, pushes,
                     subscribes, drains, dropped, joined, left>>
  BY Zenon DEF PushDuplicate, dispatchVars
<1>1. dedup' \in Seq(Entry(Signals)) /\ Len(dedup') <= DedupWindow
  <2>1. evictExpiredDedup \in Seq(Entry(Signals)) /\ Len(evictExpiredDedup) <= Len(dedup)
    BY <1>t, EvictionKeeps, QueueRemembers
  <2> QED
    BY <1>p, <1>t, <2>1, QueueAssumption
<1>2. Memory(Kept(buffer, received), dedup', pushes, now, DedupTtl, DedupWindow)
  BY <1>p, <1>t, MemoryOutlivesEviction, QueueRemembers DEF Remember
<1>3. Remember'
  BY <1>2, <1>p, <1>t DEF Remember
<1>4. Deliver' /\ CurrentIsKept' /\ NoLostWakeup'
  BY <1>p, <1>t DEF Deliver, CurrentIsKept, NoLostWakeup
<1>5. TypeOK'
  BY <1>1, <1>p, <1>t DEF TypeOK, Entry
<1> QED
  BY <1>3, <1>4, <1>5 DEF QueueInv, Deliver, Remember, CurrentIsKept

LEMMA SubscribeKeeps == ASSUME QueueInv, NEW n \in Names, Subscribe(n) PROVE QueueInv'
<1>t. /\ buffer \in Seq(Signal) /\ Len(buffer) <= Capacity /\ subscribers \in Seq(Names)
      /\ current \in Signal \cup {<<>>} /\ rest \in Seq(Names)
      /\ handling \in Names \cup {None} /\ received \in Histories
      /\ joined \in [Names -> Nat] /\ pushes \in Nat
      /\ TypeOK /\ Deliver /\ Remember /\ CurrentIsKept
  BY QueueTypes
<1> DEFINE M == Append(subscribers, n)
           q == IF current # <<>> THEN Append(rest, n) ELSE <<>>
           K == [joined EXCEPT ![n] = IF current # <<>> THEN current.push - 1
                                                     ELSE Taken(buffer, pushes)]
<1>p. /\ n \notin ToSet(subscribers) /\ subscribes < MaxSubscribes
      /\ subscribes' = subscribes + 1 /\ subscribers' = M
      /\ joined' = K
      /\ IF current # <<>>
           THEN rest' = Append(rest, n) /\ UNCHANGED <<buffer, current, handling, received>>
           ELSE Loop(buffer, M)
      /\ UNCHANGED <<now, dedup, draining, pushes, drains, dropped, left>>
  BY DEF Subscribe, Missed, Taken
<1>1. Delivery(buffer, current, q, received, M, pushes, dropped, K, left)
  <2> HIDE DEF M
  <2> QED
    BY <1>p, <1>t, JoiningKeeps DEF Deliver, M
<1>2. M \in Seq(Names)
  BY <1>t
<1>3. K \in [Names -> Nat]
  <2>1. Taken(buffer, pushes) \in Nat
    <3>1. Len(buffer) <= pushes
      BY <1>t DEF Deliver, Delivery, Contiguous
    <3> QED
      BY <1>t, <3>1 DEF Taken
  <2>2. current # <<>> => current.push - 1 \in Nat
    BY <1>t, NumbersOfSignals
  <2> QED
    BY <1>t, <2>1, <2>2
<1> HIDE DEF M, K
<1>4. /\ Delivery(buffer', current', rest', received', M, pushes, dropped, K, left)
      /\ buffer' \in Seq(Signal) /\ Len(buffer') <= Len(buffer)
      /\ current' \in Signal \cup {<<>>} /\ handling' \in Names \cup {None}
      /\ rest' \in Seq(Names) /\ received' \in Histories
      /\ CurrentIsKept'
      /\ Kept(buffer', received') = Kept(buffer, received)
      /\ current' = <<>> => buffer' = <<>> \/ M = <<>>
  <2>1. CASE current # <<>>
    <3>1. /\ buffer' = buffer /\ current' = current /\ handling' = handling
          /\ rest' = Append(rest, n) /\ received' = received
      BY <1>p, <2>1
    <3>2. rest' \in Seq(Names) /\ Len(buffer) <= Len(buffer)
      BY <1>t, <3>1
    <3>3. CurrentIsKept'
      BY <1>t, <3>1 DEF CurrentIsKept
    <3> QED
      BY <1>1, <1>t, <2>1, <3>1, <3>2, <3>3
  <2>2. CASE current = <<>>
    <3>1. Loop(buffer, M) /\ Delivery(buffer, <<>>, <<>>, received, M, pushes, dropped, K, left)
      BY <1>1, <1>p, <2>2
    <3>2. /\ Delivery(buffer', current', rest', received', M, pushes, dropped, K, left)
          /\ buffer' \in Seq(Signal) /\ Len(buffer') <= Len(buffer)
          /\ current' \in Signal \cup {<<>>} /\ handling' \in Names \cup {None}
          /\ rest' \in Seq(Names) /\ received' \in Histories
          /\ current' # <<>> => \E m \in Names : current' \in ToSet(received'[m])
          /\ Kept(buffer', received') = Kept(buffer, received)
          /\ current' = <<>> => buffer' = <<>> \/ M = <<>>
      BY <1>2, <1>3, <1>t, <3>1, LoopKeeps
    <3> QED
      BY <3>2 DEF CurrentIsKept
  <2> QED
    BY <2>1, <2>2
<1>5. Remember'
  BY <1>4, <1>p, <1>t DEF Remember
<1>6. Deliver' /\ NoLostWakeup'
  BY <1>4, <1>p DEF Deliver, NoLostWakeup
<1>7. TypeOK'
  <2>1. Len(buffer') <= Capacity
    BY <1>4, <1>t, QueueAssumption
  <2>2. subscribes' \in 0..MaxSubscribes
    BY <1>p, <1>t, QueueAssumption, SMTT(30) DEF TypeOK
  <2> QED
    BY <1>2, <1>3, <1>4, <1>p, <1>t, <2>1, <2>2 DEF TypeOK, Histories
<1> QED
  BY <1>4, <1>5, <1>6, <1>7 DEF QueueInv, Deliver, Remember, CurrentIsKept

LEMMA UnsubscribeKeeps == ASSUME QueueInv, NEW n \in Names, Unsubscribe(n) PROVE QueueInv'
<1>t. /\ buffer \in Seq(Signal) /\ subscribers \in Seq(Names)
      /\ current \in Signal \cup {<<>>} /\ rest \in Seq(Names)
      /\ received \in Histories
      /\ joined \in [Names -> Nat] /\ pushes \in Nat
      /\ TypeOK /\ Deliver /\ Remember /\ CurrentIsKept /\ NoLostWakeup
  BY QueueTypes
<1>p. /\ n \in ToSet(subscribers)
      /\ subscribers' = RemoveFirst(subscribers, n) /\ rest' = RemoveFirst(rest, n)
      /\ left' = left \cup {n}
      /\ UNCHANGED <<now, buffer, dedup, current, handling, received, draining, pushes, subscribes,
                     drains, dropped, joined>>
  BY DEF Unsubscribe
<1>1. Deliver'
  <2>1. Delivery(buffer, current, RemoveFirst(rest, n), received, RemoveFirst(subscribers, n),
                 pushes, dropped, joined, left \cup {n})
    BY <1>t, LeavingKeeps DEF Deliver
  <2> QED
    BY <1>p, <2>1 DEF Deliver
<1>2. subscribers' \in Seq(Names) /\ rest' \in Seq(Names)
  <2>1. IsInjective(subscribers) /\ IsInjective(rest)
    BY <1>t DEF Deliver, Delivery, WalkSound
  <2> QED
    BY <1>p, <1>t, <2>1, RemovedOne DEF OneFewer
<1>3. TypeOK'
  BY <1>2, <1>p, <1>t DEF TypeOK
<1>4. Remember' /\ CurrentIsKept'
  BY <1>p, <1>t DEF Remember, CurrentIsKept
<1>5. NoLostWakeup'
  <2>1. subscribers # <<>>
    BY <1>p DEF ToSet
  <2> QED
    BY <1>p, <1>t, <2>1 DEF NoLostWakeup
<1> QED
  BY <1>1, <1>3, <1>4, <1>5 DEF QueueInv, Deliver, Remember, CurrentIsKept

LEMMA DrainLooksKeeps == ASSUME QueueInv, DrainLooks PROVE QueueInv'
<1>t. /\ buffer \in Seq(Signal) /\ Len(buffer) <= Capacity /\ subscribers \in Seq(Names)
      /\ current \in Signal \cup {<<>>} /\ rest \in Seq(Names)
      /\ handling \in Names \cup {None} /\ received \in Histories
      /\ joined \in [Names -> Nat] /\ pushes \in Nat
      /\ TypeOK /\ Deliver /\ Remember /\ CurrentIsKept
  BY QueueTypes
<1>p. /\ draining > 0 /\ dispatch(buffer, subscribers)
      /\ draining' \in {draining, draining - 1}
      /\ UNCHANGED <<now, dedup, subscribers, pushes, subscribes, drains, dropped, joined, left>>
  BY DEF DrainLooks
<1>1. /\ Delivery(buffer', current', rest', received', subscribers, pushes, dropped, joined, left)
      /\ buffer' \in Seq(Signal) /\ Len(buffer') <= Len(buffer)
      /\ current' \in Signal \cup {<<>>} /\ handling' \in Names \cup {None}
      /\ rest' \in Seq(Names) /\ received' \in Histories
      /\ CurrentIsKept'
      /\ Kept(buffer', received') = Kept(buffer, received)
      /\ current' = <<>> => buffer' = <<>> \/ subscribers = <<>>
  BY <1>p, <1>t, DispatchKeeps DEF Deliver
<1>2. Remember' /\ Deliver' /\ NoLostWakeup'
  BY <1>1, <1>p, <1>t DEF Remember, Deliver, NoLostWakeup
<1>3. TypeOK'
  <2>1. Len(buffer') <= Capacity
    BY <1>1, <1>t, QueueAssumption
  <2>2. draining' \in 0..drains
    BY <1>p, <1>t, QueueAssumption, SMTT(30) DEF TypeOK
  <2> QED
    BY <1>1, <1>p, <1>t, <2>1, <2>2 DEF TypeOK, Histories
<1> QED
  BY <1>1, <1>2, <1>3 DEF QueueInv, Deliver, Remember, CurrentIsKept

LEMMA TickAndDrainKeep == ASSUME QueueInv, Tick \/ Drain PROVE QueueInv'
<1>t. /\ dedup \in Seq(Entry(Signals)) /\ pushes \in Nat /\ now \in Nat
      /\ TypeOK /\ Deliver /\ Remember /\ CurrentIsKept /\ NoLostWakeup
      /\ Kept(buffer, received) \in SUBSET Sighting(Signals)
      /\ DedupTtl \in Nat /\ DedupWindow \in Nat \ {0}
  BY QueueTypes
<1>p. /\ now' \in {now, now + 1} /\ now' \in 0..MaxTime
      /\ drains' \in 0..MaxDrains /\ draining' \in 0..drains'
      /\ UNCHANGED <<buffer, dedup, subscribers, current, handling, rest, received, pushes,
                     subscribes, dropped, joined, left>>
  <2>0. /\ now \in 0..MaxTime /\ drains \in 0..MaxDrains /\ draining \in 0..drains
        /\ MaxTime \in Nat /\ MaxDrains \in Nat
    BY <1>t, QueueAssumption DEF TypeOK
  <2>1. CASE Tick
    BY <2>0, <2>1 DEF Tick, dispatchVars
  <2>2. CASE Drain
    <3>1. draining' \in 0..(drains + 1) /\ drains' \in 0..MaxDrains /\ drains' = drains + 1
      BY <2>0, <2>2 DEF Drain
    <3> QED
      BY <2>0, <2>2, <3>1 DEF Drain, dispatchVars
  <2> QED
    BY <2>1, <2>2
<1>1. TypeOK'
  BY <1>p, <1>t DEF TypeOK
<1>2. Deliver' /\ CurrentIsKept' /\ NoLostWakeup'
  BY <1>p, <1>t DEF Deliver, CurrentIsKept, NoLostWakeup
<1>3. Remember'
  <2>1. Memory(Kept(buffer, received), dedup, pushes, now', DedupTtl, DedupWindow)
    BY <1>p, <1>t, TimePasses DEF Remember
  <2> QED
    BY <1>p, <1>t, <2>1 DEF Remember
<1> QED
  BY <1>1, <1>2, <1>3 DEF QueueInv, Deliver, Remember, CurrentIsKept

LEMMA QueueStep == QueueInv /\ [Next]_vars => QueueInv'
<1> SUFFICES ASSUME QueueInv, [Next]_vars
             PROVE  QueueInv'
  OBVIOUS
<1>1. CASE UNCHANGED vars
  BY <1>1 DEF vars, dispatchVars, QueueInv, TypeOK, NoLostWakeup
<1>2. ASSUME NEW s \in Signals, PushDuplicate(s) \/ Push(s)
      PROVE  QueueInv'
  BY <1>2, PushDuplicateKeeps, PushKeeps
<1>3. ASSUME NEW n \in Names, Subscribe(n) \/ Unsubscribe(n)
      PROVE  QueueInv'
  BY <1>3, SubscribeKeeps, UnsubscribeKeeps
<1>4. CASE HandlerEnds
  BY <1>4, HandlerEndsKeeps
<1>5. CASE DrainLooks
  BY <1>5, DrainLooksKeeps
<1>6. CASE Tick \/ Drain
  BY <1>6, TickAndDrainKeep
<1> QED
  BY <1>1, <1>2, <1>3, <1>4, <1>5, <1>6 DEF Next

LEMMA QueueInvIsSafe == QueueInv => QueueSafe
<1> SUFFICES ASSUME QueueInv
             PROVE  QueueSafe
  OBVIOUS
<1>t. /\ received \in Histories /\ buffer \in Seq(Signal) /\ joined \in [Names -> Nat]
      /\ pushes \in Nat /\ subscribers \in Seq(Names)
      /\ TypeOK /\ Deliver /\ Remember /\ NoLostWakeup
  BY QueueTypes
<1>d. \A n \in Names : received[n] \in Seq(Signal) /\ DOMAIN received[n] = 1..Len(received[n])
  BY <1>t DEF Histories
<1>1. NothingLost
  <2> SUFFICES ASSUME NEW n \in ToSet(subscribers) \ left, NEW k \in (joined[n] + 1)..pushes
               PROVE  \/ k \in dropped
                      \/ \E i \in DOMAIN received[n] : received[n][i].push = k
                      \/ \E i \in DOMAIN buffer : buffer[i].push = k
                      \/ current # <<>> /\ current.push = k /\ n \in ToSet(rest)
    BY DEF NothingLost
  <2>0. n \in Names /\ joined[n] \in Nat
    BY <1>t DEF ToSet
  <2>1. CASE k <= Taken(buffer, pushes)
    <3>1. k \in (joined[n] + 1)..Taken(buffer, pushes)
      BY <1>t, <2>0, <2>1 DEF Taken
    <3> QED
      BY <1>d, <1>t, <2>0, <3>1 DEF Deliver, Delivery, Complete, Handed
  <2>2. CASE k > Taken(buffer, pushes)
    <3> DEFINE i == k - Taken(buffer, pushes)
    <3>1. i \in 1..Len(buffer) /\ Taken(buffer, pushes) + i = k
      BY <1>t, <2>0, <2>2 DEF Taken
    <3>2. buffer[i].push = k
      BY <1>t, <3>1 DEF Deliver, Delivery, Contiguous
    <3> HIDE DEF i
    <3> QED
      BY <1>t, <3>1, <3>2
  <2> QED
    BY <1>t, <2>0, <2>1, <2>2 DEF Taken
<1>2. ReceivedInOrder
  BY <1>d, <1>t DEF ReceivedInOrder, Deliver, Delivery, HandedSound, Ascending
<1>3. DedupHolds
  <2>1. \A n \in Names : \A i \in DOMAIN received[n] : received[n][i] \in Kept(buffer, received)
    BY DEF Kept, Delivered, ToSet
  <2> QED
    BY <1>t, <2>1 DEF DedupHolds, Remember, NoRepetition
<1> QED
  BY <1>1, <1>2, <1>3, <1>t DEF QueueSafe

(* Whatever is pushed, subscribed and unsubscribed between two awaits of   *)
(* the dispatch loop: every accepted signal reaches each subscriber that   *)
(* stays, once and in order, or was lost to an overflow; a repetition gets *)
(* through only when its first push had left the memory; and a signal      *)
(* waits in the buffer only while a loop runs or nobody listens            *)
(* (signal-queue.ts push, subscribe, unsubscribe, dispatch, drain).        *)
THEOREM QueueIsSafe == Spec => []QueueSafe
<1>1. Init => QueueInv
  BY QueueStarts
<1>2. QueueInv /\ [Next]_vars => QueueInv'
  BY QueueStep
<1>3. QueueInv => QueueSafe
  BY QueueInvIsSafe
<1> QED
  BY <1>1, <1>2, <1>3, PTL DEF Spec

-----------------------------------------------------------------------------
(* The bus.                                                                *)

WalkType == [id : BusSignals, by : Producers, at : Consumers, rest : Seq(Consumers)]
Emission == [id : BusSignals, at : Nat, due : SUBSET Consumers]
CallCounts == [Consumers \X (1..MaxEmits) -> Nat]

(* What was emitted, as the memory sees it.                                *)
Emissions == {[id |-> log[e].id, push |-> e, at |-> log[e].at] : e \in 1..Len(log)}

ProducersTyped ==
    /\ producers \in [Ids -> Producers \cup {Absent}]
    /\ \A i \in Ids : producers[i] # Absent => IdOf[producers[i]] = i
    /\ wrapped \in [Producers -> [started : BOOLEAN, stopped : BOOLEAN, starting : Nat]]
    /\ disowned \subseteq Producers /\ usurped \subseteq Producers

WalksTyped ==
    /\ consumers \in Seq(Consumers) /\ IsInjective(consumers)
    /\ DOMAIN walks \subseteq 1..Len(log)
    /\ \A e \in DOMAIN walks :
          /\ walks[e] \in WalkType /\ IsInjective(walks[e].rest)
          /\ ToSet(walks[e].rest) \subseteq ToSet(consumers)
    /\ busDedup \in Seq(Entry(BusSignals)) /\ Len(busDedup) <= BusDedupWindow
    /\ bus \in {"open", "closing", "closed"} /\ busTime \in Nat
    /\ log \in Seq(Emission) /\ Len(log) <= MaxEmits
    /\ handled \in CallCounts /\ joins \in [Consumers -> Nat]

(* A call of a consumer uses up a registration of it.                      *)
CallsHaveCauses ==
    \A c \in Consumers :
        /\ c \in ToSet(consumers) => joins[c] > 0
        /\ \A e \in 1..MaxEmits :
              /\ handled[<<c, e>>] <= joins[c]
              /\ e \in DOMAIN walks /\ c \in ToSet(walks[e].rest) => handled[<<c, e>>] < joins[c]
              /\ e > Len(log) => handled[<<c, e>>] = 0

(* A consumer that is due was called, or the walk still comes to it.       *)
Reached(c, e) ==
    \/ handled[<<c, e>>] > 0
    \/ e \in DOMAIN walks /\ c \in ToSet(walks[e].rest) /\ walks[e].by \in Accepts[c]

DueIsOnTheWay ==
    \A e \in 1..Len(log) : \A c \in log[e].due : c \in ToSet(consumers) /\ Reached(c, e)

BusRemembers ==
    /\ NoRepetition(Emissions, BusDedupTtl, BusDedupWindow)
    /\ bus # "closed" => Memory(Emissions, busDedup, Len(log), busTime, BusDedupTtl, BusDedupWindow)

(* A disposed producer starts, or has started, only under a taken id.      *)
DisownedAreHeld ==
    \A p \in disowned :
        Emitting(p) \/ (wrapped[p].starting > 0 /\ producers[IdOf[p]] # Absent) => p \in usurped

ClosedIsEmpty ==
    bus = "closed" => consumers = <<>> /\ \A e \in DOMAIN walks : walks[e].rest = <<>>

(* Who may emit, and what is emitted, have nothing to do with each other.  *)
ProducersInv == ProducersTyped /\ DisownedAreHeld
WalksInv ==
    /\ WalksTyped /\ CallsHaveCauses /\ DueIsOnTheWay /\ BusRemembers /\ ClosedIsEmpty
BusInv == ProducersInv /\ WalksInv

Suffix(s, k) == SubSeq(s, k + 1, Len(s))

LEMMA SuffixFacts ==
    ASSUME NEW S, NEW s \in Seq(S), NEW k \in 1..Len(s)
    PROVE  /\ Suffix(s, k) \in Seq(S) /\ ToSet(Suffix(s, k)) \subseteq ToSet(s)
           /\ \A i \in 1..Len(s) : i > k => s[i] \in ToSet(Suffix(s, k))
           /\ IsInjective(s) => IsInjective(Suffix(s, k)) /\ s[k] \notin ToSet(Suffix(s, k))
<1> DEFINE t == Suffix(s, k)
<1>1. /\ t \in Seq(S) /\ Len(t) = Len(s) - k
      /\ \A i \in 1..Len(t) : t[i] = s[k + i]
  BY DEF Suffix
<1> HIDE DEF t
<1>2. /\ DOMAIN s = 1..Len(s) /\ DOMAIN t = 1..Len(t) /\ k \in DOMAIN s
      /\ \A i \in DOMAIN t : k + i \in DOMAIN s /\ k + i # k
      /\ \A i \in DOMAIN s : i > k => i - k \in DOMAIN t /\ k + (i - k) = i
      /\ \A i, j \in DOMAIN t : k + i = k + j => i = j
  BY <1>1
<1>3. \A i \in DOMAIN t : t[i] = s[k + i]
  BY <1>1, <1>2
<1>4. ToSet(t) \subseteq ToSet(s)
  BY <1>2, <1>3 DEF ToSet
<1>5. ASSUME NEW i \in DOMAIN s, i > k PROVE s[i] \in ToSet(t)
  <2>1. i - k \in DOMAIN t /\ t[i - k] = s[i]
    BY <1>2, <1>3, <1>5
  <2> QED
    BY <2>1 DEF ToSet
<1>6. ASSUME IsInjective(s) PROVE IsInjective(t) /\ s[k] \notin ToSet(t)
  <2>0. \A i, j \in DOMAIN t : t[i] = t[j] => k + i = k + j
    <3> SUFFICES ASSUME NEW i \in DOMAIN t, NEW j \in DOMAIN t, t[i] = t[j]
                 PROVE  k + i = k + j
      OBVIOUS
    <3>1. s[k + i] = s[k + j] /\ k + i \in DOMAIN s /\ k + j \in DOMAIN s
      BY <1>2, <1>3
    <3> QED
      BY <1>6, <3>1, Zenon DEF IsInjective
  <2>1. IsInjective(t)
    BY <1>2, <2>0, Zenon DEF IsInjective
  <2>2. \A i \in DOMAIN t : t[i] # s[k]
    BY <1>2, <1>3, <1>6, Zenon DEF IsInjective
  <2> QED
    BY <2>1, <2>2, Zenon DEF ToSet
<1> QED
  BY <1>1, <1>2, <1>4, <1>5, <1>6 DEF t

(* The next iteration of a walk over names: nobody takes the signal, or    *)
(* the first who does is called.                                           *)
NobodyTakes(e, p, names) ==
    /\ \A i \in 1..Len(names) : p \notin Accepts[names[i]]
    /\ walks' = Without(walks, e) /\ handled' = handled

FirstIsCalled(e, s, p, names, k) ==
    /\ p \in Accepts[names[k]]
    /\ \A i \in 1..Len(names) : i < k => p \notin Accepts[names[i]]
    /\ walks' = With(walks, e, [id |-> s, by |-> p, at |-> names[k],
                               rest |-> SubSeq(names, k + 1, Len(names))])
    /\ handled' = [handled EXCEPT ![<<names[k], e>>] = @ + 1]

LEMMA WalkCases ==
    ASSUME NEW e, NEW s, NEW p, NEW names \in Seq(Consumers), Walk(e, s, p, names)
    PROVE  \/ NobodyTakes(e, p, names)
           \/ \E k \in 1..Len(names) : FirstIsCalled(e, s, p, names, k)
<1> DEFINE I == {i \in 1..Len(names) : p \in Accepts[names[i]]}
           k == IF I # {} THEN Min(I) ELSE 0
<1>1. IF k = 0
      THEN walks' = Without(walks, e) /\ UNCHANGED handled
      ELSE /\ walks' = With(walks, e, [id |-> s, by |-> p, at |-> names[k],
                                       rest |-> SubSeq(names, k + 1, Len(names))])
           /\ handled' = [handled EXCEPT ![<<names[k], e>>] = @ + 1]
  BY Zenon DEF Walk, SelectInSeq
<1>2. CASE I = {}
  BY <1>1, <1>2 DEF NobodyTakes
<1>3. CASE I # {}
  <2> I \in SUBSET Nat
    OBVIOUS
  <2>1. Min(I) \in I /\ \A i \in I : Min(I) <= i
    BY <1>3, LeastNatural
  <2>2. k = Min(I)
    BY <1>3
  <2> HIDE DEF k
  <2>3. k \in 1..Len(names) /\ k # 0 /\ p \in Accepts[names[k]]
    BY <2>1, <2>2
  <2>4. \A i \in 1..Len(names) : i < k => p \notin Accepts[names[i]]
    BY <2>1, <2>2, <2>3
  <2> QED
    BY <1>1, <2>3, <2>4 DEF FirstIsCalled
<1> QED
  BY <1>2, <1>3

CalledOnceMore(H, c, e) == [H EXCEPT ![<<c, e>>] = @ + 1]

LEMMA OneMoreCall ==
    ASSUME NEW H \in CallCounts, NEW c \in Consumers, NEW e \in 1..MaxEmits,
           NEW G, G = CalledOnceMore(H, c, e)
    PROVE  /\ G \in CallCounts
           /\ G[<<c, e>>] = H[<<c, e>>] + 1
           /\ \A d \in Consumers, f \in 1..MaxEmits : d # c \/ f # e => G[<<d, f>>] = H[<<d, f>>]
  BY DEF CallCounts, CalledOnceMore

(* What the walk of emission e by producer p over names leaves behind.     *)
WalkKept(e, p, names) ==
    /\ DOMAIN walks' \subseteq DOMAIN walks \cup {e}
    /\ DOMAIN walks \subseteq DOMAIN walks' \cup {e}
    /\ \A f \in DOMAIN walks' : f # e => walks'[f] = walks[f]
    /\ e \in DOMAIN walks' =>
          /\ walks'[e] \in WalkType /\ walks'[e].by = p /\ IsInjective(walks'[e].rest)
          /\ ToSet(walks'[e].rest) \subseteq ToSet(names)
    /\ handled' \in CallCounts
    /\ \A c \in Consumers, f \in 1..MaxEmits :
          \/ handled'[<<c, f>>] = handled[<<c, f>>]
          \/ /\ f = e /\ c \in ToSet(names) /\ handled'[<<c, f>>] = handled[<<c, f>>] + 1
             /\ e \in DOMAIN walks' => c \notin ToSet(walks'[e].rest)
    /\ \A c \in ToSet(names) : p \in Accepts[c] =>
          handled'[<<c, e>>] > 0 \/ (e \in DOMAIN walks' /\ c \in ToSet(walks'[e].rest))

LEMMA WalkKeeps ==
    ASSUME NEW e \in 1..MaxEmits, NEW s \in BusSignals, NEW p \in Producers,
           NEW names \in Seq(Consumers), IsInjective(names), handled \in CallCounts,
           Walk(e, s, p, names)
    PROVE  WalkKept(e, p, names)
<1>d. ToSet(names) = {names[i] : i \in 1..Len(names)}
  BY DEF ToSet
<1>1. CASE NobodyTakes(e, p, names)
  <2>1. DOMAIN walks' = DOMAIN walks \ {e} /\ \A f \in DOMAIN walks' : walks'[f] = walks[f]
    BY <1>1 DEF Without, NobodyTakes
  <2> QED
    BY <1>1, <1>d, <2>1 DEF WalkKept, NobodyTakes
<1>2. ASSUME NEW k \in 1..Len(names), FirstIsCalled(e, s, p, names, k)
      PROVE  WalkKept(e, p, names)
  <2> DEFINE t == SubSeq(names, k + 1, Len(names))
             v == [id |-> s, by |-> p, at |-> names[k], rest |-> t]
  <2>1. /\ t \in Seq(Consumers) /\ ToSet(t) \subseteq ToSet(names)
        /\ \A i \in 1..Len(names) : i > k => names[i] \in ToSet(t)
        /\ IsInjective(t) /\ names[k] \notin ToSet(t)
    <3>1. t = Suffix(names, k)
      BY DEF Suffix
    <3> HIDE DEF t
    <3> QED
      BY <3>1, SuffixFacts
  <2> HIDE DEF t
  <2>2. names[k] \in Consumers /\ names[k] \in ToSet(names)
    BY <1>d
  <2>3. v \in WalkType /\ v.by = p /\ v.rest = t
    BY <2>1, <2>2 DEF WalkType
  <2> HIDE DEF v
  <2>4. /\ DOMAIN walks' = DOMAIN walks \cup {e} /\ walks'[e] = v
        /\ \A f \in DOMAIN walks' : f # e => walks'[f] = walks[f]
    <3>1. walks' = With(walks, e, v)
      BY <1>2 DEF v, t, FirstIsCalled
    <3> QED
      BY <3>1 DEF With
  <2>5. /\ handled' \in CallCounts
        /\ handled'[<<names[k], e>>] = handled[<<names[k], e>>] + 1
        /\ \A d \in Consumers, f \in 1..MaxEmits :
              d # names[k] \/ f # e => handled'[<<d, f>>] = handled[<<d, f>>]
    <3> DEFINE G == handled'
    <3>1. G = CalledOnceMore(handled, names[k], e)
      BY <1>2, Zenon DEF CalledOnceMore, FirstIsCalled
    <3> HIDE DEF G
    <3>2. /\ G \in CallCounts
          /\ G[<<names[k], e>>] = handled[<<names[k], e>>] + 1
          /\ \A d \in Consumers, f \in 1..MaxEmits :
              d # names[k] \/ f # e => G[<<d, f>>] = handled[<<d, f>>]
      BY <2>2, <3>1, OneMoreCall
    <3> QED
      BY <3>2 DEF G
  <2>6. ASSUME NEW c \in Consumers, NEW f \in 1..MaxEmits,
               handled'[<<c, f>>] # handled[<<c, f>>]
        PROVE  /\ f = e /\ c \in ToSet(names) /\ handled'[<<c, f>>] = handled[<<c, f>>] + 1
               /\ c \notin ToSet(walks'[e].rest)
    <3>1. c = names[k] /\ f = e
      BY <2>5, <2>6
    <3> QED
      BY <2>1, <2>2, <2>3, <2>4, <2>5, <3>1
  <2>7. ASSUME NEW c \in ToSet(names), p \in Accepts[c]
        PROVE  handled'[<<c, e>>] > 0 \/ c \in ToSet(walks'[e].rest)
    <3>1. PICK i \in 1..Len(names) : c = names[i]
      BY <1>d
    <3>2. i >= k
      BY <1>2, <2>7, <3>1 DEF FirstIsCalled
    <3>3. CASE i = k
      <4>1. handled[<<names[k], e>>] \in Nat
        BY <2>2 DEF CallCounts
      <4> QED
        BY <2>5, <3>1, <3>3, <4>1
    <3>4. CASE i > k
      BY <2>1, <2>3, <2>4, <3>1, <3>4
    <3> QED
      BY <3>2, <3>3, <3>4
  <2>8. /\ walks'[e] \in WalkType /\ walks'[e].by = p /\ IsInjective(walks'[e].rest)
        /\ ToSet(walks'[e].rest) \subseteq ToSet(names) /\ e \in DOMAIN walks'
    BY <2>1, <2>3, <2>4
  <2> QED
    BY <2>4, <2>5, <2>6, <2>7, <2>8 DEF WalkKept
<1> QED
  BY <1>1, <1>2, WalkCases

LEMMA BusStarts == BusInit => BusInv
<1> SUFFICES ASSUME BusInit
             PROVE  BusInv
  OBVIOUS
<1> USE BusAssumption DEF BusInit
<1>1. ProducersInv
  BY DEF ProducersInv, ProducersTyped, DisownedAreHeld
<1>2. DOMAIN walks = {} /\ Len(log) = 0 /\ ToSet(consumers) = {} /\ DOMAIN consumers = {}
  BY DEF ToSet
<1>3. WalksTyped
  BY <1>2 DEF WalksTyped, CallCounts, IsInjective
<1>4. Emissions = {}
  BY <1>2 DEF Emissions
<1>5. BusRemembers
  BY <1>4 DEF BusRemembers, Memory, NoRepetition
<1>6. CallsHaveCauses
  BY <1>2 DEF CallsHaveCauses
<1>7. DueIsOnTheWay /\ ClosedIsEmpty
  BY <1>2 DEF DueIsOnTheWay, ClosedIsEmpty
<1> QED
  BY <1>1, <1>3, <1>5, <1>6, <1>7 DEF BusInv, WalksInv

LEMMA ProducersStep == ProducersInv /\ [BusNext]_busVars => ProducersInv'
<1> SUFFICES ASSUME ProducersInv, [BusNext]_busVars
             PROVE  ProducersInv'
  OBVIOUS
<1>0. ProducersTyped /\ DisownedAreHeld
  BY DEF ProducersInv
<1>a. Absent \notin Producers
  BY BusAssumption
<1>1. CASE UNCHANGED ownerVars
  BY <1>0, <1>1 DEF ProducersInv, ProducersTyped, DisownedAreHeld, ownerVars, Emitting
<1>2. ASSUME NEW p \in Producers, RegisterProducer(p)
      PROVE  ProducersInv'
  <2>1. ProducersTyped'
    <3>1. IdOf[p] \in Ids
      BY DEF Ids
    <3> QED
      BY <1>0, <1>2, <3>1 DEF ProducersTyped, RegisterProducer
  <2>2. ASSUME NEW q \in disowned',
               Emitting(q)' \/ (wrapped'[q].starting > 0 /\ producers'[IdOf[q]] # Absent)
        PROVE  q \in usurped'
    <3>1. q \in disowned /\ q # p /\ q \in Producers
      BY <1>0, <1>2, <2>2 DEF RegisterProducer, ProducersTyped
    <3>2. wrapped'[q] = wrapped[q]
      BY <1>0, <1>2, <3>1 DEF RegisterProducer, ProducersTyped
    <3>3. q \in usurped => q \in usurped'
      BY <1>2, <3>1 DEF RegisterProducer
    <3>4. CASE Emitting(q)'
      BY <1>0, <3>1, <3>2, <3>3, <3>4 DEF DisownedAreHeld, Emitting
    <3>5. CASE wrapped'[q].starting > 0 /\ IdOf[q] = IdOf[p]
      BY <1>2, <3>1, <3>2, <3>5 DEF RegisterProducer
    <3>6. CASE wrapped'[q].starting > 0 /\ producers'[IdOf[q]] # Absent /\ IdOf[q] # IdOf[p]
      <4>1. IdOf[q] \in Ids
        BY <3>1 DEF Ids
      <4>2. producers'[IdOf[q]] = producers[IdOf[q]]
        BY <1>0, <1>2, <3>6, <4>1 DEF RegisterProducer, ProducersTyped
      <4> QED
        BY <1>0, <3>1, <3>2, <3>3, <3>6, <4>2 DEF DisownedAreHeld
    <3> QED
      BY <2>2, <3>4, <3>5, <3>6
  <2> QED
    BY <2>1, <2>2 DEF ProducersInv, DisownedAreHeld
<1>3. ASSUME NEW p \in Producers, StartProducer(p) \/ SkipStart(p)
      PROVE  ProducersInv'
  <2>0. /\ wrapped[p].starting > 0 /\ wrapped[p].starting \in Nat
        /\ UNCHANGED <<producers, disowned, usurped>>
        /\ wrapped[p].started \in BOOLEAN /\ wrapped[p].stopped \in BOOLEAN
    BY <1>0, <1>3 DEF StartProducer, Starts, SkipStart, ProducersTyped
  <2>1. PICK w \in [started : BOOLEAN, stopped : BOOLEAN, starting : Nat] :
          /\ wrapped' = [wrapped EXCEPT ![p] = w]
          /\ w.starting = wrapped[p].starting - 1
          /\ \/ w.started = wrapped[p].started /\ w.stopped = wrapped[p].stopped
             \/ producers[IdOf[p]] # Absent
    <3>1. CASE StartProducer(p)
      <4> DEFINE w == [started |-> TRUE, starting |-> wrapped[p].starting - 1,
                       stopped |-> wrapped[p].started /\ wrapped[p].stopped]
      <4>1. w \in [started : BOOLEAN, stopped : BOOLEAN, starting : Nat]
        BY <2>0
      <4>2. wrapped' = [wrapped EXCEPT ![p] = w] /\ producers[IdOf[p]] # Absent
        BY <3>1, Zenon DEF StartProducer, Starts
      <4>3. w.starting = wrapped[p].starting - 1
        OBVIOUS
      <4> HIDE DEF w
      <4> QED
        BY <4>1, <4>2, <4>3
    <3>2. CASE SkipStart(p)
      <4> DEFINE w == [wrapped[p] EXCEPT !.starting = wrapped[p].starting - 1]
      <4>1. /\ w \in [started : BOOLEAN, stopped : BOOLEAN, starting : Nat]
            /\ w.starting = wrapped[p].starting - 1
            /\ w.started = wrapped[p].started /\ w.stopped = wrapped[p].stopped
        BY <1>0, <2>0 DEF ProducersTyped
      <4>2. wrapped' = [wrapped EXCEPT ![p] = w]
        BY <3>2 DEF SkipStart
      <4> HIDE DEF w
      <4> QED
        BY <4>1, <4>2
    <3> QED
      BY <1>3, <3>1, <3>2
  <2>2. /\ wrapped' \in [Producers -> [started : BOOLEAN, stopped : BOOLEAN, starting : Nat]]
        /\ wrapped'[p] = w /\ \A q \in Producers : q # p => wrapped'[q] = wrapped[q]
    BY <1>0, <2>1 DEF ProducersTyped
  <2>3. ProducersTyped'
    BY <1>0, <2>0, <2>2 DEF ProducersTyped
  <2>4. ASSUME NEW q \in disowned,
               Emitting(q)' \/ (wrapped'[q].starting > 0 /\ producers[IdOf[q]] # Absent)
        PROVE  q \in usurped
    <3>1. q \in Producers
      BY <1>0 DEF ProducersTyped
    <3>2. CASE q # p
      BY <1>0, <2>2, <2>4, <3>1, <3>2 DEF DisownedAreHeld, Emitting
    <3>3. CASE q = p
      <4>1. CASE producers[IdOf[p]] # Absent
        BY <1>0, <2>0, <3>3, <4>1 DEF DisownedAreHeld
      <4>2. CASE producers[IdOf[p]] = Absent
        BY <1>0, <2>1, <2>2, <2>4, <3>3, <4>2 DEF DisownedAreHeld, Emitting
      <4> QED
        BY <4>1, <4>2
    <3> QED
      BY <3>2, <3>3
  <2> QED
    BY <2>0, <2>3, <2>4 DEF ProducersInv, DisownedAreHeld
<1>4. ASSUME NEW i \in Ids, DisposeProducer(i)
      PROVE  ProducersInv'
  <2> DEFINE p == producers[i]
  <2>1. p \in Producers /\ IdOf[p] = i
    BY <1>0, <1>4 DEF DisposeProducer, ProducersTyped
  <2> HIDE DEF p
  <2>2. /\ producers' = [producers EXCEPT ![i] = Absent]
        /\ wrapped' = [wrapped EXCEPT ![p].stopped = TRUE]
        /\ disowned' = disowned \cup {p} /\ usurped' = usurped
    BY <1>4 DEF DisposeProducer, p
  <2>3. /\ wrapped' \in [Producers -> [started : BOOLEAN, stopped : BOOLEAN, starting : Nat]]
        /\ wrapped'[p].stopped /\ \A q \in Producers : q # p => wrapped'[q] = wrapped[q]
    BY <1>0, <2>1, <2>2 DEF ProducersTyped
  <2>4. ProducersTyped'
    BY <1>0, <2>1, <2>2, <2>3 DEF ProducersTyped
  <2>5. ASSUME NEW q \in disowned',
               Emitting(q)' \/ (wrapped'[q].starting > 0 /\ producers'[IdOf[q]] # Absent)
        PROVE  q \in usurped'
    <3>0. q \in Producers /\ IdOf[q] \in Ids
      BY <1>0, <2>1, <2>2 DEF ProducersTyped, Ids
    <3>1. producers'[IdOf[p]] = Absent
      BY <1>0, <2>1, <2>2 DEF ProducersTyped
    <3>2. q # p
      BY <2>3, <2>5, <3>1 DEF Emitting
    <3>3. producers'[IdOf[q]] # Absent => producers[IdOf[q]] # Absent
      BY <1>0, <2>2, <3>0 DEF ProducersTyped
    <3> QED
      BY <1>0, <2>2, <2>3, <2>5, <3>0, <3>2, <3>3 DEF DisownedAreHeld, Emitting
  <2> QED
    BY <2>4, <2>5 DEF ProducersInv, DisownedAreHeld
<1>5. CASE CloseBus
  <2>1. /\ wrapped' = [p \in Producers |->
                         [wrapped[p] EXCEPT !.stopped = @ \/ producers[IdOf[p]] = p]]
        /\ UNCHANGED <<producers, disowned, usurped>>
    BY <1>5 DEF CloseBus
  <2>2. ASSUME NEW p \in Producers
        PROVE  /\ wrapped'[p] \in [started : BOOLEAN, stopped : BOOLEAN, starting : Nat]
               /\ wrapped'[p].started = wrapped[p].started
               /\ wrapped'[p].starting = wrapped[p].starting
               /\ wrapped[p].stopped => wrapped'[p].stopped
    BY <1>0, <2>1 DEF ProducersTyped
  <2>3. ProducersTyped'
    BY <1>0, <2>1, <2>2 DEF ProducersTyped
  <2>4. disowned \subseteq Producers
    BY <1>0 DEF ProducersTyped
  <2> QED
    BY <1>0, <2>1, <2>2, <2>3, <2>4 DEF ProducersInv, DisownedAreHeld, Emitting
<1>6. CASE StopsSettle
  <2>1. producers' = [i \in Ids |-> Absent] /\ UNCHANGED <<wrapped, disowned, usurped>>
    BY <1>6 DEF StopsSettle
  <2>2. ProducersTyped'
    BY <1>0, <2>1 DEF ProducersTyped
  <2>3. \A q \in disowned : producers'[IdOf[q]] = Absent
    BY <1>0, <2>1 DEF ProducersTyped, Ids
  <2> QED
    BY <1>0, <2>1, <2>2, <2>3 DEF ProducersInv, DisownedAreHeld, Emitting
<1> QED
  BY <1>1, <1>2, <1>3, <1>4, <1>5, <1>6
  DEF BusNext, busVars, Emit, EmitDuplicate, HandlerSettles, RegisterConsumer, DisposeConsumer,
      BusTick
-----------------------------------------------------------------------------
(* The walks, the memory and the log.                                      *)

LEMMA BusRemembersLikewise ==
    /\ liveDedup = Unexpired(busDedup, busTime)
    /\ \A d : trimmed(d) = Within(d, BusDedupWindow)
    /\ \A s : Remembered(s) <=>
              \E k \in DOMAIN Unexpired(busDedup, busTime) : Unexpired(busDedup, busTime)[k].id = s
<1>1. liveDedup = Unexpired(busDedup, busTime)
  BY DEF liveDedup, Unexpired, SelectInSeq
<1>2. \A s : Remembered(s) <=> \E k \in DOMAIN liveDedup : liveDedup[k].id = s
  BY DEF Remembered
<1>3. \A d : trimmed(d) = Within(d, BusDedupWindow)
  BY DEF trimmed, Within
<1> QED
  BY <1>1, <1>2, <1>3

LEMMA EmissionsAreSightings == WalksTyped => Emissions \in SUBSET Sighting(BusSignals)
<1> SUFFICES ASSUME WalksTyped, NEW e \in 1..Len(log)
             PROVE  [id |-> log[e].id, push |-> e, at |-> log[e].at] \in Sighting(BusSignals)
  BY DEF Emissions
<1>1. log[e] \in Emission /\ e \in Nat
  BY DEF WalksTyped
<1>2. log[e].id \in BusSignals /\ log[e].at \in Nat
  BY <1>1 DEF Emission
<1> QED
  BY <1>1, <1>2 DEF Sighting

LEMMA BusBounds == BusDedupTtl \in Nat /\ BusDedupWindow \in Nat \ {0} /\ MaxEmits \in Nat
  BY BusAssumption

(* An emission that goes on, or begins, with names that may be called.     *)
LEMMA WalkGoesOn ==
    ASSUME WalksTyped, CallsHaveCauses, DueIsOnTheWay,
           NEW e \in 1..MaxEmits, NEW p \in Producers, NEW names \in Seq(Consumers),
           WalkKept(e, p, names),
           ToSet(names) \subseteq ToSet(consumers),
           \A c \in ToSet(names) : handled[<<c, e>>] < joins[c],
           \/ e > Len(log)
           \/ e \in DOMAIN walks /\ names = walks[e].rest /\ p = walks[e].by,
           UNCHANGED <<consumers, joins>>,
           Len(log') \in Nat, Len(log) <= Len(log'), e <= Len(log')
    PROVE  /\ DOMAIN walks' \subseteq 1..Len(log')
           /\ \A f \in DOMAIN walks' :
                 /\ walks'[f] \in WalkType /\ IsInjective(walks'[f].rest)
                 /\ ToSet(walks'[f].rest) \subseteq ToSet(consumers)
           /\ handled' \in CallCounts
           /\ CallsHaveCauses'
           /\ \A f \in 1..Len(log) : \A c \in log[f].due : c \in ToSet(consumers) /\ Reached(c, f)'
           /\ \A c \in ToSet(names) : p \in Accepts[c] => Reached(c, e)'
<1>0. Len(log) \in Nat /\ Len(log) <= MaxEmits /\ log \in Seq(Emission)
  BY DEF WalksTyped
<1>1. DOMAIN walks' \subseteq 1..Len(log')
  BY <1>0 DEF WalkKept, WalksTyped
<1>2. ASSUME NEW f \in DOMAIN walks'
      PROVE  /\ walks'[f] \in WalkType /\ IsInjective(walks'[f].rest)
             /\ ToSet(walks'[f].rest) \subseteq ToSet(consumers)
  <2>1. CASE f = e
    BY <1>2, <2>1, Zenon DEF WalkKept
  <2>2. CASE f # e
    <3>1. f \in DOMAIN walks /\ walks'[f] = walks[f]
      BY <1>2, <2>2, Zenon DEF WalkKept
    <3> QED
      BY <3>1, Zenon DEF WalksTyped
  <2> QED
    BY <2>1, <2>2
<1>3. handled' \in CallCounts
  BY Zenon DEF WalkKept
<1>4. ASSUME NEW c \in Consumers, NEW f \in 1..MaxEmits
      PROVE  /\ handled[<<c, f>>] \in Nat /\ handled'[<<c, f>>] \in Nat /\ joins[c] \in Nat
             /\ handled'[<<c, f>>] >= handled[<<c, f>>]
  <2>1. handled[<<c, f>>] \in Nat /\ handled'[<<c, f>>] \in Nat /\ joins[c] \in Nat
    BY <1>3 DEF WalksTyped, CallCounts
  <2>2. handled'[<<c, f>>] = handled[<<c, f>>] \/ handled'[<<c, f>>] = handled[<<c, f>>] + 1
    BY Zenon DEF WalkKept
  <2> QED
    BY <2>1, <2>2
<1>5. CallsHaveCauses'
  <2> SUFFICES ASSUME NEW c \in Consumers
               PROVE  /\ c \in ToSet(consumers) => joins[c] > 0
                      /\ \A f \in 1..MaxEmits :
                            /\ handled'[<<c, f>>] <= joins[c]
                            /\ f \in DOMAIN walks' /\ c \in ToSet(walks'[f].rest)
                                  => handled'[<<c, f>>] < joins[c]
                            /\ f > Len(log') => handled'[<<c, f>>] = 0
    BY Zenon DEF CallsHaveCauses
  <2>1. c \in ToSet(consumers) => joins[c] > 0
    BY DEF CallsHaveCauses
  <2>2. ASSUME NEW f \in 1..MaxEmits
        PROVE  /\ handled'[<<c, f>>] <= joins[c]
               /\ f \in DOMAIN walks' /\ c \in ToSet(walks'[f].rest)
                     => handled'[<<c, f>>] < joins[c]
               /\ f > Len(log') => handled'[<<c, f>>] = 0
    <3>0. /\ handled[<<c, f>>] <= joins[c]
          /\ f \in DOMAIN walks /\ c \in ToSet(walks[f].rest) => handled[<<c, f>>] < joins[c]
          /\ f > Len(log) => handled[<<c, f>>] = 0
      BY DEF CallsHaveCauses
    <3>1. CASE f # e
      <4>1. handled'[<<c, f>>] = handled[<<c, f>>]
        BY <3>1, Zenon DEF WalkKept
      <4>2. f \in DOMAIN walks' => f \in DOMAIN walks /\ walks'[f] = walks[f]
        BY <3>1, Zenon DEF WalkKept
      <4>3. f > Len(log') => f > Len(log)
        BY <1>0
      <4> QED
        BY <3>0, <4>1, <4>2, <4>3
    <3>2. CASE f = e /\ handled'[<<c, f>>] = handled[<<c, f>>]
      <4>1. e \in DOMAIN walks' /\ c \in ToSet(walks'[e].rest) => c \in ToSet(names)
        BY Zenon DEF WalkKept
      <4>2. ~(e > Len(log'))
        OBVIOUS
      <4> QED
        BY <3>0, <3>2, <4>1, <4>2
    <3>3. CASE f = e /\ handled'[<<c, f>>] # handled[<<c, f>>]
      <4>1. /\ c \in ToSet(names) /\ handled'[<<c, f>>] = handled[<<c, f>>] + 1
            /\ e \in DOMAIN walks' => c \notin ToSet(walks'[e].rest)
        BY <3>3, Zenon DEF WalkKept
      <4>2. handled[<<c, f>>] < joins[c]
        BY <3>3, <4>1
      <4>3. handled'[<<c, f>>] <= joins[c]
        BY <1>4, <4>1, <4>2
      <4> QED
        BY <3>3, <4>1, <4>3
    <3> QED
      BY <3>1, <3>2, <3>3
  <2> QED
    BY <2>1, <2>2
<1>6. ASSUME NEW c \in ToSet(names), p \in Accepts[c]
      PROVE  Reached(c, e)'
  <2>1. handled'[<<c, e>>] > 0 \/ (e \in DOMAIN walks' /\ c \in ToSet(walks'[e].rest))
    BY <1>6, Zenon DEF WalkKept
  <2>2. e \in DOMAIN walks' => walks'[e].by = p
    BY Zenon DEF WalkKept
  <2> QED
    BY <1>6, <2>1, <2>2, Zenon DEF Reached
<1>7. ASSUME NEW f \in 1..Len(log), NEW c \in log[f].due
      PROVE  c \in ToSet(consumers) /\ Reached(c, f)'
  <2>1. c \in ToSet(consumers) /\ Reached(c, f) /\ f \in 1..MaxEmits
    BY <1>0, BusBounds DEF DueIsOnTheWay
  <2>2. c \in Consumers
    <3>1. log[f] \in Emission
      BY <1>0
    <3> QED
      BY <3>1 DEF Emission
  <2>3. CASE handled[<<c, f>>] > 0
    BY <1>4, <2>1, <2>2, <2>3 DEF Reached
  <2>4. CASE f # e /\ f \in DOMAIN walks /\ c \in ToSet(walks[f].rest) /\ walks[f].by \in Accepts[c]
    <3>1. f \in DOMAIN walks' /\ walks'[f] = walks[f]
      BY <2>4, Zenon DEF WalkKept
    <3> QED
      BY <2>1, <2>4, <3>1, Zenon DEF Reached
  <2>5. CASE f = e /\ f \in DOMAIN walks /\ c \in ToSet(walks[f].rest) /\ walks[f].by \in Accepts[c]
    <3>1. names = walks[e].rest /\ p = walks[e].by
      BY <1>0, <2>5
    <3> QED
      BY <1>6, <2>1, <2>5, <3>1
  <2> QED
    BY <2>1, <2>3, <2>4, <2>5, Zenon DEF Reached
<1> QED
  BY <1>1, <1>2, <1>3, <1>5, <1>6, <1>7

LEMMA NothingInIt ==
    ASSUME NEW S, NEW s \in Seq(S), ToSet(s) = {}
    PROVE  s = <<>>
<1>1. \A i \in DOMAIN s : FALSE
  BY Zenon DEF ToSet
<1>2. ~(1 \in DOMAIN s)
  BY <1>1, Zenon
<1> QED
  BY <1>2

LEMMA HandlerSettlesKeeps ==
    ASSUME WalksInv, NEW e \in 1..MaxEmits, HandlerSettles(e)
    PROVE  WalksInv'
<1> DEFINE names == walks[e].rest
           p == walks[e].by
<1>0. WalksTyped /\ CallsHaveCauses /\ DueIsOnTheWay /\ BusRemembers /\ ClosedIsEmpty
  BY DEF WalksInv
<1>1. /\ e \in DOMAIN walks /\ e \in 1..Len(log)
      /\ Walk(e, walks[e].id, walks[e].by, walks[e].rest)
      /\ UNCHANGED <<consumers, busDedup, bus, busTime, log, joins>>
  BY <1>0 DEF HandlerSettles, WalksTyped
<1>2. /\ walks[e] \in WalkType /\ IsInjective(names)
      /\ ToSet(names) \subseteq ToSet(consumers)
      /\ handled \in CallCounts /\ Len(log) \in Nat
  BY <1>0, <1>1 DEF WalksTyped
<1>3. walks[e].id \in BusSignals /\ p \in Producers /\ names \in Seq(Consumers)
  BY <1>2 DEF WalkType
<1>4. WalkKept(e, p, names)
  BY <1>1, <1>2, <1>3, WalkKeeps
<1>5. \A c \in ToSet(names) : handled[<<c, e>>] < joins[c]
  <2>1. ToSet(names) \subseteq Consumers
    BY <1>3 DEF ToSet
  <2> QED
    BY <1>0, <1>1, <2>1, Zenon DEF CallsHaveCauses
<1> HIDE DEF names, p
<1>6. /\ DOMAIN walks' \subseteq 1..Len(log')
      /\ \A f \in DOMAIN walks' :
            /\ walks'[f] \in WalkType /\ IsInjective(walks'[f].rest)
            /\ ToSet(walks'[f].rest) \subseteq ToSet(consumers)
      /\ handled' \in CallCounts
      /\ CallsHaveCauses'
      /\ \A f \in 1..Len(log) : \A c \in log[f].due : c \in ToSet(consumers) /\ Reached(c, f)'
  <2>1. /\ e \in DOMAIN walks /\ names = walks[e].rest /\ p = walks[e].by
        /\ UNCHANGED <<consumers, joins>>
        /\ Len(log') \in Nat /\ Len(log) <= Len(log') /\ e <= Len(log')
    BY <1>1, <1>2 DEF names, p
  <2> QED
    BY <1>0, <1>2, <1>3, <1>4, <1>5, <2>1, WalkGoesOn
<1>7. WalksTyped'
  BY <1>0, <1>1, <1>6 DEF WalksTyped
<1>8. DueIsOnTheWay'
  BY <1>1, <1>6, Zenon DEF DueIsOnTheWay
<1>9. BusRemembers'
  BY <1>0, <1>1 DEF BusRemembers, Emissions
<1>10. ClosedIsEmpty'
  <2> SUFFICES ASSUME bus = "closed"
               PROVE  consumers = <<>> /\ \A f \in DOMAIN walks' : walks'[f].rest = <<>>
    BY <1>1 DEF ClosedIsEmpty
  <2>1. consumers = <<>> /\ ToSet(consumers) = {}
    BY <1>0 DEF ClosedIsEmpty, ToSet
  <2>2. ASSUME NEW f \in DOMAIN walks'
        PROVE  walks'[f].rest = <<>>
    <3>1. walks'[f] \in WalkType /\ ToSet(walks'[f].rest) = {}
      BY <1>6, <2>1
    <3>2. walks'[f].rest \in Seq(Consumers)
      BY <3>1 DEF WalkType
    <3> QED
      BY <3>1, <3>2, NothingInIt
  <2> QED
    BY <2>1, <2>2
<1> QED
  BY <1>6, <1>7, <1>8, <1>9, <1>10 DEF WalksInv

LEMMA EmitKeeps ==
    ASSUME WalksInv, NEW q \in Producers, NEW s \in BusSignals, Emit(q, s)
    PROVE  WalksInv'
<1>e. PICK e : e = Len(log) + 1
  OBVIOUS
<1> DEFINE x == [id |-> s, push |-> e, at |-> busTime]
           m == [id |-> s, at |-> busTime, due |-> {c \in ToSet(consumers) : q \in Accepts[c]}]
<1>0. WalksTyped /\ CallsHaveCauses /\ DueIsOnTheWay /\ BusRemembers /\ ClosedIsEmpty
  BY DEF WalksInv
<1>1. /\ consumers \in Seq(Consumers) /\ IsInjective(consumers)
      /\ log \in Seq(Emission) /\ Len(log) \in Nat /\ busTime \in Nat
      /\ handled \in CallCounts /\ ToSet(consumers) \subseteq Consumers
  BY <1>0 DEF WalksTyped, ToSet
<1>2. /\ Len(log) < MaxEmits /\ bus = "open" /\ ~Remembered(s)
      /\ busDedup' = trimmed(Append(liveDedup, [id |-> s, expires |-> busTime + BusDedupTtl]))
      /\ log' = Append(log, m) /\ Walk(Len(log'), s, q, consumers)
      /\ UNCHANGED <<consumers, bus, busTime, joins>>
  BY DEF Emit, Logged
<1>3. m \in Emission /\ m.id = s /\ m.at = busTime
  BY <1>1 DEF Emission
<1>4. /\ log' \in Seq(Emission) /\ Len(log') = e /\ log'[e] = m
      /\ \A f \in 1..Len(log) : log'[f] = log[f]
  BY <1>e, <1>1, <1>2, <1>3, AppendFacts
<1>5. e \in 1..MaxEmits /\ e > Len(log) /\ e \in Nat
  BY <1>e, <1>1, <1>2, BusBounds
<1>6. WalkKept(e, q, consumers)
  BY <1>1, <1>2, <1>4, <1>5, WalkKeeps
<1>7. \A c \in ToSet(consumers) : handled[<<c, e>>] < joins[c]
  <2> SUFFICES ASSUME NEW c \in ToSet(consumers)
               PROVE  handled[<<c, e>>] < joins[c]
    OBVIOUS
  <2>1. joins[c] > 0 /\ handled[<<c, e>>] = 0 /\ joins[c] \in Nat
    BY <1>0, <1>1, <1>5 DEF CallsHaveCauses, WalksTyped
  <2> QED
    BY <2>1
<1>8. /\ DOMAIN walks' \subseteq 1..Len(log')
      /\ \A f \in DOMAIN walks' :
            /\ walks'[f] \in WalkType /\ IsInjective(walks'[f].rest)
            /\ ToSet(walks'[f].rest) \subseteq ToSet(consumers)
      /\ handled' \in CallCounts
      /\ CallsHaveCauses'
      /\ \A f \in 1..Len(log) : \A c \in log[f].due : c \in ToSet(consumers) /\ Reached(c, f)'
      /\ \A c \in ToSet(consumers) : q \in Accepts[c] => Reached(c, e)'
  <2>1. /\ UNCHANGED <<consumers, joins>>
        /\ Len(log') \in Nat /\ Len(log) <= Len(log') /\ e <= Len(log')
    BY <1>1, <1>2, <1>4, <1>5
  <2>2. \/ e > Len(log)
        \/ e \in DOMAIN walks /\ consumers = walks[e].rest /\ q = walks[e].by
    BY <1>5
  <2>3. ToSet(consumers) \subseteq ToSet(consumers)
    OBVIOUS
  <2> QED
    BY <2>2, <2>3, <1>0, <1>1, <1>5, <1>6, <1>7, <2>1, WalkGoesOn
<1> HIDE DEF m
<1>9. DueIsOnTheWay'
  <2> SUFFICES ASSUME NEW f \in 1..Len(log'), NEW c \in log'[f].due
               PROVE  c \in ToSet(consumers) /\ Reached(c, f)'
    BY <1>2, Zenon DEF DueIsOnTheWay
  <2>1. CASE f = e
    <3>1. c \in ToSet(consumers) /\ q \in Accepts[c]
      BY <1>4, <2>1 DEF m
    <3> QED
      BY <1>8, <2>1, <3>1
  <2>2. CASE f # e
    <3>1. f \in 1..Len(log) /\ c \in log[f].due
      BY <1>e, <1>1, <1>4, <2>2
    <3> QED
      BY <1>8, <3>1
  <2> QED
    BY <2>1, <2>2
<1>10. /\ BusRemembers'
       /\ busDedup' \in Seq(Entry(BusSignals)) /\ Len(busDedup') <= BusDedupWindow
  <2> DEFINE d == Unexpired(busDedup, busTime)
             new == [id |-> s, expires |-> busTime + BusDedupTtl]
             K == Emissions
             z == Within(Append(d, new), BusDedupWindow)
  <2>1. Emissions' = K \cup {x}
    <3>1. Emissions' = {[id |-> log'[f].id, push |-> f, at |-> log'[f].at] : f \in 1..e}
      BY <1>4 DEF Emissions
    <3>2. 1..e = 1..Len(log) \cup {e}
      BY <1>e, <1>1
    <3>3. [id |-> log'[e].id, push |-> e, at |-> log'[e].at] = x
      BY <1>3, <1>4
    <3>4. \A f \in 1..Len(log) : log'[f].id = log[f].id /\ log'[f].at = log[f].at
      BY <1>4
    <3> QED
      BY <3>1, <3>2, <3>3, <3>4 DEF Emissions
  <2>2. K \in SUBSET Sighting(BusSignals)
    BY <1>0, EmissionsAreSightings
  <2>3. x \in Sighting(BusSignals) /\ x.push = Len(log) + 1 /\ x.at = busTime /\ x.id = s
    BY <1>e, <1>1, <1>5 DEF Sighting
  <2>4. /\ busDedup' = z
        /\ ~\E k \in DOMAIN d : d[k].id = x.id
    BY <1>2, <2>3, BusRemembersLikewise, Zenon
  <2>5. /\ NoRepetition(K, BusDedupTtl, BusDedupWindow)
        /\ Memory(K, busDedup, Len(log), busTime, BusDedupTtl, BusDedupWindow)
    BY <1>0, <1>2 DEF BusRemembers
  <2>6. busDedup \in Seq(Entry(BusSignals)) /\ Len(busDedup) <= BusDedupWindow
    BY <1>0 DEF WalksTyped
  <2> HIDE DEF K, x
  <2>7. NoRepetition(K \cup {x}, BusDedupTtl, BusDedupWindow)
    <3>1. Remembering(BusSignals, K, busDedup, Len(log), busTime, BusDedupTtl, BusDedupWindow)
      BY <1>1, <2>2, <2>5, <2>6, BusBounds DEF Remembering
    <3>2. Arriving(BusSignals, x, busDedup, Len(log), busTime)
      BY <2>3, <2>4, Zenon DEF Arriving
    <3> QED
      BY <3>1, <3>2, ArrivalIsNew
  <2>8. Memory(K, d, Len(log), busTime, BusDedupTtl, BusDedupWindow)
    BY <1>1, <2>2, <2>5, <2>6, BusBounds, MemoryOutlivesEviction
  <2>9. d \in Seq(Entry(BusSignals)) /\ Len(d) <= BusDedupWindow
    <3>1. d \in Seq(Entry(BusSignals)) /\ Len(d) <= Len(busDedup)
      BY <1>1, <2>6, EvictionKeeps
    <3> HIDE DEF d
    <3> QED
      BY <2>6, <3>1, BusBounds
  <2> HIDE DEF d
  <2>10. /\ Memory(K \cup {x}, z, Len(log) + 1, busTime, BusDedupTtl, BusDedupWindow)
         /\ z \in Seq(Entry(BusSignals)) /\ Len(z) <= BusDedupWindow
    BY <1>1, <2>2, <2>3, <2>8, <2>9, BusBounds, RememberingKeeps
  <2> QED
    BY <1>e, <1>2, <1>4, <2>1, <2>4, <2>7, <2>10 DEF BusRemembers
<1>11. WalksTyped'
  BY <1>0, <1>2, <1>4, <1>5, <1>8, <1>10 DEF WalksTyped
<1>12. ClosedIsEmpty'
  BY <1>2 DEF ClosedIsEmpty
<1> QED
  BY <1>8, <1>9, <1>10, <1>11, <1>12 DEF WalksInv

LEMMA EmitDuplicateKeeps ==
    ASSUME WalksInv, NEW q \in Producers, NEW s \in BusSignals, EmitDuplicate(q, s)
    PROVE  WalksInv'
<1>0. WalksTyped /\ CallsHaveCauses /\ DueIsOnTheWay /\ BusRemembers /\ ClosedIsEmpty
  BY DEF WalksInv
<1>1. /\ bus = "open" /\ busDedup' = Unexpired(busDedup, busTime)
      /\ UNCHANGED <<consumers, walks, handled, bus, busTime, log, joins>>
  BY BusRemembersLikewise DEF EmitDuplicate, walkVars
<1>2. busDedup \in Seq(Entry(BusSignals)) /\ Len(busDedup) <= BusDedupWindow
      /\ busTime \in Nat /\ Len(log) \in Nat
  BY <1>0 DEF WalksTyped
<1>3. busDedup' \in Seq(Entry(BusSignals)) /\ Len(busDedup') <= BusDedupWindow
  <2>1. busDedup' \in Seq(Entry(BusSignals)) /\ Len(busDedup') <= Len(busDedup)
    BY <1>1, <1>2, EvictionKeeps
  <2> QED
    BY <1>2, <2>1, BusBounds
<1>4. WalksTyped'
  BY <1>0, <1>1, <1>3 DEF WalksTyped
<1>5. BusRemembers'
  <2>1. Emissions' = Emissions /\ Emissions \in SUBSET Sighting(BusSignals)
    BY <1>0, <1>1, EmissionsAreSightings DEF Emissions
  <2>2. Memory(Emissions, busDedup', Len(log), busTime, BusDedupTtl, BusDedupWindow)
    BY <1>0, <1>1, <1>2, <2>1, BusBounds, MemoryOutlivesEviction DEF BusRemembers
  <2> QED
    BY <1>0, <1>1, <2>1, <2>2 DEF BusRemembers
<1>6. CallsHaveCauses' /\ DueIsOnTheWay' /\ ClosedIsEmpty'
  BY <1>0, <1>1 DEF CallsHaveCauses, DueIsOnTheWay, Reached, ClosedIsEmpty
<1> QED
  BY <1>4, <1>5, <1>6 DEF WalksInv

(* Whatever changes nothing here, or begins to close the bus.              *)
LEMMA WalksStay ==
    ASSUME WalksInv, UNCHANGED <<consumers, walks, handled, busDedup, busTime, log, joins>>,
           bus' = bus \/ (bus = "open" /\ bus' = "closing")
    PROVE  WalksInv'
  BY DEF WalksInv, WalksTyped, CallsHaveCauses, DueIsOnTheWay, Reached, BusRemembers, Emissions,
         ClosedIsEmpty

LEMMA BusTickKeeps == ASSUME WalksInv, BusTick PROVE WalksInv'
<1>0. WalksTyped /\ CallsHaveCauses /\ DueIsOnTheWay /\ BusRemembers /\ ClosedIsEmpty
  BY DEF WalksInv
<1>1. /\ busTime' = busTime + 1
      /\ UNCHANGED <<consumers, walks, handled, busDedup, bus, log, joins>>
  BY DEF BusTick, walkVars
<1>2. busTime \in Nat /\ Len(log) \in Nat /\ Emissions \in SUBSET Sighting(BusSignals)
      /\ busDedup \in Seq(Entry(BusSignals)) /\ Emissions' = Emissions
  BY <1>0, <1>1, EmissionsAreSightings DEF WalksTyped, Emissions
<1>3. BusRemembers'
  BY <1>0, <1>1, <1>2, BusBounds, TimePasses DEF BusRemembers
<1>4. WalksTyped'
  BY <1>0, <1>1, <1>2 DEF WalksTyped
<1>5. CallsHaveCauses' /\ DueIsOnTheWay' /\ ClosedIsEmpty'
  BY <1>0, <1>1 DEF CallsHaveCauses, DueIsOnTheWay, Reached, ClosedIsEmpty
<1> QED
  BY <1>3, <1>4, <1>5 DEF WalksInv

LEMMA RegisterConsumerKeeps ==
    ASSUME WalksInv, NEW n \in Consumers, RegisterConsumer(n)
    PROVE  WalksInv'
<1>0. WalksTyped /\ CallsHaveCauses /\ DueIsOnTheWay /\ BusRemembers /\ ClosedIsEmpty
  BY DEF WalksInv
<1>1. /\ bus = "open" /\ n \notin ToSet(consumers)
      /\ consumers' = Append(consumers, n)
      /\ walks' = [e \in DOMAIN walks |-> [walks[e] EXCEPT !.rest = Append(@, n)]]
      /\ joins' = [joins EXCEPT ![n] = @ + 1]
      /\ UNCHANGED <<handled, busDedup, bus, busTime, log>>
  BY Zenon DEF RegisterConsumer, InAllWalks
<1>2. /\ consumers' \in Seq(Consumers) /\ IsInjective(consumers')
      /\ ToSet(consumers') = ToSet(consumers) \cup {n}
  BY <1>0, <1>1, AppendFacts DEF WalksTyped
<1>3. DOMAIN walks' = DOMAIN walks
  BY <1>1
<1>4. ASSUME NEW e \in DOMAIN walks
      PROVE  /\ walks'[e] \in WalkType /\ walks'[e].by = walks[e].by
             /\ IsInjective(walks'[e].rest)
             /\ ToSet(walks'[e].rest) = ToSet(walks[e].rest) \cup {n}
             /\ ToSet(walks[e].rest) \subseteq ToSet(consumers)
  <2> DEFINE r == walks[e].rest
             a == Append(r, n)
  <2>1. /\ walks[e] \in WalkType /\ IsInjective(r) /\ ToSet(r) \subseteq ToSet(consumers)
    BY <1>0 DEF WalksTyped
  <2>2. r \in Seq(Consumers)
    BY <2>1 DEF WalkType
  <2>3. a \in Seq(Consumers) /\ IsInjective(a) /\ ToSet(a) = ToSet(r) \cup {n}
    BY <1>1, <2>1, <2>2, AppendFacts
  <2>4. walks'[e] = [walks[e] EXCEPT !.rest = a]
    BY <1>1
  <2> HIDE DEF a
  <2>5. walks'[e] \in WalkType /\ walks'[e].by = walks[e].by /\ walks'[e].rest = a
    BY <2>1, <2>3, <2>4 DEF WalkType
  <2> QED
    BY <2>1, <2>3, <2>5
<1>5. WalksTyped'
  <2>1. joins' \in [Consumers -> Nat]
    BY <1>0, <1>1 DEF WalksTyped
  <2>2. \A e \in DOMAIN walks' :
          /\ walks'[e] \in WalkType /\ IsInjective(walks'[e].rest)
          /\ ToSet(walks'[e].rest) \subseteq ToSet(consumers')
    BY <1>2, <1>3, <1>4
  <2> QED
    BY <1>0, <1>1, <1>2, <1>3, <2>1, <2>2 DEF WalksTyped
<1>6. CallsHaveCauses'
  <2>0. ASSUME NEW m \in Consumers
        PROVE  joins[m] \in Nat /\ joins'[m] = IF m = n THEN joins[m] + 1 ELSE joins[m]
    BY <1>0, <1>1 DEF WalksTyped
  <2> SUFFICES ASSUME NEW m \in Consumers
               PROVE  /\ m \in ToSet(consumers') => joins'[m] > 0
                      /\ \A e \in 1..MaxEmits :
                            /\ handled[<<m, e>>] <= joins'[m]
                            /\ e \in DOMAIN walks' /\ m \in ToSet(walks'[e].rest)
                                  => handled[<<m, e>>] < joins'[m]
                            /\ e > Len(log) => handled[<<m, e>>] = 0
    BY <1>1, Zenon DEF CallsHaveCauses
  <2>1. m \in ToSet(consumers') => joins'[m] > 0
    BY <1>0, <1>2, <2>0 DEF CallsHaveCauses
  <2>2. ASSUME NEW e \in 1..MaxEmits
        PROVE  /\ handled[<<m, e>>] <= joins'[m]
               /\ e \in DOMAIN walks' /\ m \in ToSet(walks'[e].rest)
                     => handled[<<m, e>>] < joins'[m]
               /\ e > Len(log) => handled[<<m, e>>] = 0
    <3>1. /\ handled[<<m, e>>] \in Nat
          /\ handled[<<m, e>>] <= joins[m]
          /\ e \in DOMAIN walks /\ m \in ToSet(walks[e].rest) => handled[<<m, e>>] < joins[m]
          /\ e > Len(log) => handled[<<m, e>>] = 0
      BY <1>0 DEF CallsHaveCauses, WalksTyped, CallCounts
    <3>2. e \in DOMAIN walks' /\ m \in ToSet(walks'[e].rest) /\ m # n
             => e \in DOMAIN walks /\ m \in ToSet(walks[e].rest)
      BY <1>3, <1>4
    <3> QED
      BY <2>0, <3>1, <3>2
  <2> QED
    BY <2>1, <2>2
<1>7. DueIsOnTheWay'
  <2> SUFFICES ASSUME NEW e \in 1..Len(log), NEW m \in log[e].due
               PROVE  m \in ToSet(consumers') /\ Reached(m, e)'
    BY <1>1, Zenon DEF DueIsOnTheWay
  <2>1. m \in ToSet(consumers) /\ Reached(m, e)
    BY <1>0 DEF DueIsOnTheWay
  <2>2. e \in DOMAIN walks /\ m \in ToSet(walks[e].rest)
           => m \in ToSet(walks'[e].rest) /\ walks'[e].by = walks[e].by
    BY <1>4
  <2> QED
    BY <1>1, <1>2, <1>3, <2>1, <2>2 DEF Reached
<1>8. BusRemembers' /\ ClosedIsEmpty'
  BY <1>0, <1>1 DEF BusRemembers, Emissions, ClosedIsEmpty
<1> QED
  BY <1>5, <1>6, <1>7, <1>8 DEF WalksInv

(* A log that keeps what was emitted, and some of those it is due.         *)
LEMMA FewerAreDue ==
    ASSUME WalksTyped, NEW D,
           log' = [e \in DOMAIN log |-> [log[e] EXCEPT !.due = @ \ D]]
    PROVE  /\ log' \in Seq(Emission) /\ Len(log') = Len(log) /\ Emissions' = Emissions
           /\ \A e \in 1..Len(log) : log'[e].due = log[e].due \ D
<1>1. log \in Seq(Emission) /\ DOMAIN log = 1..Len(log) /\ Len(log) \in Nat
  BY DEF WalksTyped
<1>2. ASSUME NEW e \in 1..Len(log)
      PROVE  /\ log'[e] \in Emission /\ log'[e].due = log[e].due \ D
             /\ log'[e].id = log[e].id /\ log'[e].at = log[e].at
  <2>1. log[e] \in Emission /\ log'[e] = [log[e] EXCEPT !.due = log[e].due \ D]
    BY <1>1
  <2> QED
    BY <2>1 DEF Emission
<1>3. log' \in [1..Len(log) -> Emission]
  BY <1>1, <1>2
<1>4. log' \in Seq(Emission) /\ Len(log') = Len(log)
  BY <1>1, <1>3
<1>5. Emissions' = Emissions
  <2>1. Emissions' = {[id |-> log'[e].id, push |-> e, at |-> log'[e].at] : e \in 1..Len(log)}
    BY <1>4 DEF Emissions
  <2>2. \A e \in 1..Len(log) : [id |-> log'[e].id, push |-> e, at |-> log'[e].at]
                             = [id |-> log[e].id, push |-> e, at |-> log[e].at]
    BY <1>2
  <2>3. \A x : (\E e \in 1..Len(log) : x = [id |-> log'[e].id, push |-> e, at |-> log'[e].at])
             <=> \E e \in 1..Len(log) : x = [id |-> log[e].id, push |-> e, at |-> log[e].at]
    BY <2>2
  <2>4. \A x : x \in Emissions' <=> x \in Emissions
    BY <2>1, <2>3 DEF Emissions
  <2> QED
    BY <2>4
<1> QED
  BY <1>2, <1>4, <1>5

LEMMA DisposeConsumerKeeps ==
    ASSUME WalksInv, NEW n \in Consumers, DisposeConsumer(n)
    PROVE  WalksInv'
<1>0. WalksTyped /\ CallsHaveCauses /\ DueIsOnTheWay /\ BusRemembers /\ ClosedIsEmpty
  BY DEF WalksInv
<1>1. /\ n \in ToSet(consumers) /\ consumers' = RemoveFirst(consumers, n)
      /\ walks' = [e \in DOMAIN walks |-> [walks[e] EXCEPT !.rest = RemoveFirst(@, n)]]
      /\ log' = [e \in DOMAIN log |-> [log[e] EXCEPT !.due = @ \ {n}]]
      /\ UNCHANGED <<handled, busDedup, bus, busTime, joins>>
  BY Zenon DEF DisposeConsumer, InAllWalks
<1>2. /\ consumers' \in Seq(Consumers) /\ IsInjective(consumers')
      /\ ToSet(consumers') = ToSet(consumers) \ {n}
  BY <1>0, <1>1, RemovedOne DEF OneFewer, WalksTyped
<1>3. DOMAIN walks' = DOMAIN walks
  BY <1>1
<1>4. ASSUME NEW e \in DOMAIN walks
      PROVE  /\ walks'[e] \in WalkType /\ walks'[e].by = walks[e].by
             /\ IsInjective(walks'[e].rest)
             /\ ToSet(walks'[e].rest) = ToSet(walks[e].rest) \ {n}
             /\ ToSet(walks[e].rest) \subseteq ToSet(consumers)
  <2> DEFINE r == walks[e].rest
             a == RemoveFirst(r, n)
  <2>1. /\ walks[e] \in WalkType /\ IsInjective(r) /\ ToSet(r) \subseteq ToSet(consumers)
    BY <1>0 DEF WalksTyped
  <2>2. r \in Seq(Consumers)
    BY <2>1 DEF WalkType
  <2>3. a \in Seq(Consumers) /\ IsInjective(a) /\ ToSet(a) = ToSet(r) \ {n}
    BY <2>1, <2>2, RemovedOne DEF OneFewer
  <2>4. walks'[e] = [walks[e] EXCEPT !.rest = a]
    BY <1>1
  <2> HIDE DEF a
  <2>5. walks'[e] \in WalkType /\ walks'[e].by = walks[e].by /\ walks'[e].rest = a
    BY <2>1, <2>3, <2>4 DEF WalkType
  <2> QED
    BY <2>1, <2>3, <2>5
<1>5. /\ log' \in Seq(Emission) /\ Len(log') = Len(log) /\ Emissions' = Emissions
      /\ \A e \in 1..Len(log) : log'[e].due = log[e].due \ {n}
  BY <1>0, <1>1, FewerAreDue
<1>6. WalksTyped'
  <2>1. \A e \in DOMAIN walks' :
          /\ walks'[e] \in WalkType /\ IsInjective(walks'[e].rest)
          /\ ToSet(walks'[e].rest) \subseteq ToSet(consumers')
    BY <1>2, <1>3, <1>4
  <2> QED
    BY <1>0, <1>1, <1>2, <1>3, <1>5, <2>1 DEF WalksTyped
<1>7. CallsHaveCauses'
  <2>1. \A e \in DOMAIN walks' : ToSet(walks'[e].rest) \subseteq ToSet(walks[e].rest)
    BY <1>3, <1>4
  <2> QED
    BY <1>0, <1>1, <1>2, <1>3, <1>5, <2>1 DEF CallsHaveCauses
<1>8. DueIsOnTheWay'
  <2> SUFFICES ASSUME NEW e \in 1..Len(log), NEW m \in log'[e].due
               PROVE  m \in ToSet(consumers') /\ Reached(m, e)'
    BY <1>5, Zenon DEF DueIsOnTheWay
  <2>1. m \in ToSet(consumers) /\ Reached(m, e) /\ m # n
    BY <1>0, <1>5 DEF DueIsOnTheWay
  <2>2. e \in DOMAIN walks /\ m \in ToSet(walks[e].rest)
           => m \in ToSet(walks'[e].rest) /\ walks'[e].by = walks[e].by
    BY <1>4, <2>1
  <2> QED
    BY <1>1, <1>2, <1>3, <2>1, <2>2 DEF Reached
<1>9. BusRemembers'
  BY <1>0, <1>1, <1>5 DEF BusRemembers
<1>10. ClosedIsEmpty'
  <2>1. bus # "closed"
    BY <1>0, <1>1 DEF ClosedIsEmpty, ToSet
  <2> QED
    BY <1>1, <2>1 DEF ClosedIsEmpty
<1> QED
  BY <1>6, <1>7, <1>8, <1>9, <1>10 DEF WalksInv

LEMMA StopsSettleKeeps == ASSUME WalksInv, StopsSettle PROVE WalksInv'
<1>0. WalksTyped /\ CallsHaveCauses /\ DueIsOnTheWay /\ BusRemembers /\ ClosedIsEmpty
  BY DEF WalksInv
<1>1. /\ bus' = "closed" /\ consumers' = <<>> /\ busDedup' = <<>>
      /\ walks' = [e \in DOMAIN walks |-> [walks[e] EXCEPT !.rest = <<>>]]
      /\ log' = [e \in DOMAIN log |-> [log[e] EXCEPT !.due = {}]]
      /\ UNCHANGED <<handled, busTime, joins>>
  BY Zenon DEF StopsSettle, ClearedWalks, InAllWalks
<1>2. ToSet(consumers') = {} /\ IsInjective(consumers') /\ ToSet(<<>>) = {}
  BY <1>1 DEF ToSet, IsInjective
<1>3. DOMAIN walks' = DOMAIN walks
  BY <1>1
<1>4. ASSUME NEW e \in DOMAIN walks'
      PROVE  walks'[e] \in WalkType /\ walks'[e].rest = <<>>
  <2>1. walks[e] \in WalkType /\ walks'[e] = [walks[e] EXCEPT !.rest = <<>>]
    BY <1>0, <1>1 DEF WalksTyped
  <2>2. <<>> \in Seq(Consumers)
    OBVIOUS
  <2> DEFINE none == <<>>
  <2> HIDE DEF none
  <2>3. walks'[e] = [walks[e] EXCEPT !.rest = none] /\ none \in Seq(Consumers)
    BY <2>1, <2>2 DEF none
  <2>4. walks'[e] \in WalkType /\ walks'[e].rest = none
    BY <2>1, <2>3 DEF WalkType
  <2> QED
    BY <2>4 DEF none
<1>5. log' = [e \in DOMAIN log |-> [log[e] EXCEPT !.due = @ \ Consumers]]
  <2>1. \A e \in DOMAIN log : log[e] \in Emission
    BY <1>0 DEF WalksTyped
  <2>2. \A e \in DOMAIN log : log[e].due \ Consumers = {}
    BY <2>1 DEF Emission
  <2> QED
    BY <1>1, <2>2
<1>6. /\ log' \in Seq(Emission) /\ Len(log') = Len(log) /\ Emissions' = Emissions
      /\ \A e \in 1..Len(log) : log'[e].due = {}
  <2>1. \A e \in 1..Len(log) : log'[e].due = log[e].due \ Consumers /\ log[e] \in Emission
    BY <1>0, <1>5, FewerAreDue DEF WalksTyped
  <2>2. \A e \in 1..Len(log) : log'[e].due = {}
    BY <2>1 DEF Emission
  <2> QED
    BY <1>0, <1>5, <2>2, FewerAreDue
<1>7. WalksTyped'
  <2>1. \A e \in DOMAIN walks' :
          /\ walks'[e] \in WalkType /\ IsInjective(walks'[e].rest)
          /\ ToSet(walks'[e].rest) \subseteq ToSet(consumers')
    BY <1>1, <1>2, <1>4
  <2>2. busDedup' \in Seq(Entry(BusSignals)) /\ Len(busDedup') <= BusDedupWindow
    BY <1>1, BusBounds
  <2> QED
    BY <1>0, <1>1, <1>2, <1>3, <1>6, <2>1, <2>2 DEF WalksTyped
<1>8. CallsHaveCauses'
  <2>1. \A e \in DOMAIN walks' : ToSet(walks'[e].rest) = {}
    BY <1>2, <1>4
  <2> QED
    BY <1>0, <1>1, <1>2, <1>6, <2>1 DEF CallsHaveCauses
<1>9. DueIsOnTheWay'
  BY <1>6 DEF DueIsOnTheWay
<1>10. BusRemembers' /\ ClosedIsEmpty'
  BY <1>0, <1>1, <1>4, <1>6 DEF BusRemembers, ClosedIsEmpty
<1> QED
  BY <1>7, <1>8, <1>9, <1>10 DEF WalksInv

LEMMA WalksStep == WalksInv /\ [BusNext]_busVars => WalksInv'
<1> SUFFICES ASSUME WalksInv, [BusNext]_busVars
             PROVE  WalksInv'
  OBVIOUS
<1>1. CASE \/ UNCHANGED busVars
           \/ \E p \in Producers : RegisterProducer(p) \/ StartProducer(p) \/ SkipStart(p)
           \/ \E i \in Ids : DisposeProducer(i)
           \/ CloseBus
  <2>1. /\ UNCHANGED <<consumers, walks, handled, busDedup, busTime, log, joins>>
        /\ bus' = bus \/ (bus = "open" /\ bus' = "closing")
    BY <1>1, Zenon
    DEF RegisterProducer, StartProducer, SkipStart, DisposeProducer, CloseBus, busVars, walkVars
  <2> QED
    BY <2>1, WalksStay
<1> QED
  BY <1>1, EmitKeeps, EmitDuplicateKeeps, HandlerSettlesKeeps, RegisterConsumerKeeps,
     DisposeConsumerKeeps, StopsSettleKeeps, BusTickKeeps
  DEF BusNext

LEMMA BusStep == BusInv /\ [BusNext]_busVars => BusInv'
  BY ProducersStep, WalksStep DEF BusInv

LEMMA BusInvIsSafe == BusInv => BusSafe
<1> SUFFICES ASSUME BusInv
             PROVE  BusSafe
  OBVIOUS
<1>0. /\ ProducersTyped /\ DisownedAreHeld
      /\ WalksTyped /\ CallsHaveCauses /\ DueIsOnTheWay /\ BusRemembers /\ ClosedIsEmpty
  BY DEF BusInv, ProducersInv, WalksInv
<1>d. DOMAIN log = 1..Len(log)
  BY <1>0 DEF WalksTyped
<1>1. BusTypeOK
  <2>1. ToSet(consumers) \subseteq Consumers
    BY <1>0 DEF WalksTyped, ToSet
  <2>2. \A e \in DOMAIN walks : walks[e].at \in Consumers /\ IsInjective(walks[e].rest)
    <3> SUFFICES ASSUME NEW e \in DOMAIN walks
                 PROVE  walks[e].at \in Consumers /\ IsInjective(walks[e].rest)
      OBVIOUS
    <3>1. walks[e] \in WalkType /\ IsInjective(walks[e].rest)
      BY <1>0 DEF WalksTyped
    <3> QED
      BY <3>1 DEF WalkType
  <2>3. Len(busDedup) <= BusDedupWindow /\ bus \in {"open", "closing", "closed"}
        /\ IsInjective(consumers)
    BY <1>0 DEF WalksTyped
  <2> QED
    BY <1>0, <2>1, <2>2, <2>3, Zenon DEF BusTypeOK, ProducersTyped
<1>2. RepeatsHaveACause
  BY <1>0 DEF RepeatsHaveACause, CallsHaveCauses
<1>3. NoEarlyRepeat
  <2> SUFFICES ASSUME NEW i \in 1..Len(log), NEW j \in 1..Len(log), i < j, log[i].id = log[j].id
               PROVE  log[j].at - log[i].at >= BusDedupTtl \/ j - i > BusDedupWindow
    BY <1>d, Zenon DEF NoEarlyRepeat
  <2> DEFINE x == [id |-> log[i].id, push |-> i, at |-> log[i].at]
             y == [id |-> log[j].id, push |-> j, at |-> log[j].at]
  <2>1. x \in Emissions /\ y \in Emissions
    BY DEF Emissions
  <2>2. /\ x.id = log[i].id /\ x.push = i /\ x.at = log[i].at
        /\ y.id = log[j].id /\ y.push = j /\ y.at = log[j].at
    OBVIOUS
  <2> HIDE DEF x, y
  <2> QED
    BY <1>0, <2>1, <2>2 DEF BusRemembers, NoRepetition
<1>4. DueIsHandled
  BY <1>0, <1>d, Zenon DEF DueIsHandled, DueIsOnTheWay, Reached
<1>5. DisownedIsQuiet
  BY <1>0 DEF DisownedIsQuiet, DisownedAreHeld
<1> QED
  BY <1>1, <1>2, <1>3, <1>4, <1>5 DEF BusSafe

(* For any number of producers, consumers and emissions: an emission calls *)
(* a consumer once and once more for every registration, a signal repeats  *)
(* only when its memory has gone, whoever is due an emission that is over  *)
(* was called, and a disposed producer emits only under an id that was     *)
(* taken (MemorySignalBus in bus.ts).                                      *)
THEOREM BusIsSafe == BusSpec => []BusSafe
<1>1. BusInit => BusInv
  BY BusStarts
<1>2. BusInv /\ [BusNext]_busVars => BusInv'
  BY BusStep
<1>3. BusInv => BusSafe
  BY BusInvIsSafe
<1> QED
  BY <1>1, <1>2, <1>3, PTL DEF BusSpec

(* A handler that settles on a closed bus finds no name left to call.      *)
LEMMA ClosedCallsNobody ==
    BusInv /\ [BusNext]_busVars => (bus = "closed" => handled' = handled)
<1> SUFFICES ASSUME BusInv, [BusNext]_busVars, bus = "closed"
             PROVE  handled' = handled
  OBVIOUS
<1>1. ASSUME NEW e \in 1..MaxEmits, HandlerSettles(e)
      PROVE  handled' = handled
  <2>1. e \in DOMAIN walks /\ Walk(e, walks[e].id, walks[e].by, walks[e].rest)
    BY <1>1 DEF HandlerSettles
  <2>2. walks[e].rest = <<>>
    BY <2>1 DEF BusInv, WalksInv, ClosedIsEmpty
  <2>3. <<>> \in Seq(Consumers) /\ Len(<<>>) = 0
    OBVIOUS
  <2>4. \/ NobodyTakes(e, walks[e].by, <<>>)
        \/ \E k \in 1..Len(<<>>) : FirstIsCalled(e, walks[e].id, walks[e].by, <<>>, k)
    BY <2>1, <2>2, <2>3, WalkCases
  <2>5. 1..0 = {}
    OBVIOUS
  <2> QED
    BY <2>3, <2>4, <2>5, Zenon DEF NobodyTakes
<1> QED
  BY <1>1
  DEF BusNext, busVars, walkVars, Emit, EmitDuplicate, RegisterConsumer, DisposeConsumer,
      RegisterProducer, StartProducer, SkipStart, DisposeProducer, CloseBus, StopsSettle, BusTick

-----------------------------------------------------------------------------
(* The instance, in which one of the parts runs and the others wait.       *)

OutsAreNamed == DOMAIN out = Sources

LEMMA StoppedReplayIsQuiet ==
    OutsAreNamed /\ [SourcesNext]_sourceVars =>
        OutsAreNamed' /\ (replay.aborted => out'["fixture"] = out["fixture"])
<1> SUFFICES ASSUME OutsAreNamed, [SourcesNext]_sourceVars
             PROVE  OutsAreNamed' /\ (replay.aborted => out'["fixture"] = out["fixture"])
  OBVIOUS
<1>1. \/ out' = out
      \/ \E x : out' = [out EXCEPT !["geyser"] = x]
      \/ \E x : out' = [out EXCEPT !["historical"] = x]
      \/ ~replay.aborted /\ \E x : out' = [out EXCEPT !["fixture"] = x]
  BY Zenon
  DEF SourcesNext, sourceVars, GeyserSource, GeyserStart, GeyserStop, GeyserUpdate,
      HistoricalSource, HistoricalStart, GetBlocks, GetBlock, HistoricalThrows, HistoricalStop,
      FixtureSource, FixtureStart, FixtureLine, FixtureReadAll, FixtureEnd, FixtureThrows, FixtureFails,
      FixtureStop, StopsReading
<1> QED
  BY <1>1 DEF OutsAreNamed, Sources

(* Nobody is called after close() of a bus has resolved (bus.ts), and no   *)
(* line of a replay is emitted after its stop() (sources/fixture.ts).      *)
THEOREM StoppedPartsAreQuiet == MCSpec => StoppedStaysQuiet
<1>1. MCInit => BusInv /\ OutsAreNamed
  BY BusStarts DEF MCInit, SourcesInit, OutsAreNamed
<1>2. [MCNext]_<<focus, vars, busVars, sourceVars>> => [BusNext]_busVars /\ [SourcesNext]_sourceVars
  BY Zenon DEF MCNext, SourcesNext
<1>3. BusInv /\ [BusNext]_busVars => BusInv' /\ (bus = "closed" => UNCHANGED handled)
  BY BusStep, ClosedCallsNobody
<1>4. OutsAreNamed /\ [SourcesNext]_sourceVars =>
        OutsAreNamed' /\ (replay.aborted => out'["fixture"] = out["fixture"])
  BY StoppedReplayIsQuiet
<1> QED
  BY <1>1, <1>2, <1>3, <1>4, PTL DEF MCSpec, StoppedStaysQuiet, ClosedIsQuiet, ReplayStopsAtOnce

-----------------------------------------------------------------------------
(* The live source.                                                        *)

Accounted(s) == s \in ToSet(arrived) \/ \E g \in gaps : g[1] <= s /\ s <= g[2]

(* Not only up to the newest update but up to each of them, and so up to   *)
(* lastSlot, which moves back.                                             *)
LossInv ==
    /\ live \in [at : {"idle", "open", "closed"}, lastSlot : Nat]
    /\ arrived \in Seq(Slots)
    /\ arrived # <<>> => live.lastSlot \in ToSet(arrived)
    /\ arrived = <<>> => live.lastSlot = 0
    /\ \A a \in ToSet(arrived) : \A s \in Head(arrived)..a : Accounted(s)

LEMMA GreatestNatural ==
    ASSUME NEW b \in Nat, NEW S \in SUBSET (1..b), S # {}
    PROVE  Max(S) \in S
<1> DEFINE T == {b - x : x \in S}
<1>1. T \in SUBSET Nat /\ T # {}
  <2>1. \A x \in S : b - x \in Nat
    OBVIOUS
  <2>2. PICK x : x \in S
    OBVIOUS
  <2> QED
    BY <2>1, <2>2, Zenon
<1>2. Min(T) \in T /\ \A n \in T : Min(T) <= n
  BY <1>1, LeastNatural
<1>3. PICK x \in S : Min(T) = b - x
  BY <1>2
<1>4. \A y \in S : x >= y
  <2> SUFFICES ASSUME NEW y \in S PROVE x >= y
    OBVIOUS
  <2>1. b - x <= b - y
    BY <1>2, <1>3
  <2> QED
    BY <2>1
<1> QED
  BY <1>4, Zenon DEF Max

LEMMA UpdateIsAccounted ==
    ASSUME LossInv, NEW slot \in Slots, GeyserUpdate(slot)
    PROVE  LossInv'
<1>1. /\ gaps' = gaps \cup GapBefore(slot)
      /\ live' = [live EXCEPT !.lastSlot = slot]
      /\ arrived' = Append(arrived, slot)
  BY DEF GeyserUpdate
<1>2. /\ slot \in Nat \ {0} /\ arrived \in Seq(Slots)
      /\ live \in [at : {"idle", "open", "closed"}, lastSlot : Nat]
  BY DEF LossInv, Slots
<1>3. /\ live' \in [at : {"idle", "open", "closed"}, lastSlot : Nat] /\ live'.lastSlot = slot
  BY <1>1, <1>2
<1>4. /\ arrived' \in Seq(Slots) /\ ToSet(arrived') = ToSet(arrived) \cup {slot}
      /\ arrived' # <<>>
      /\ Head(arrived') = IF arrived = <<>> THEN slot ELSE Head(arrived)
  <2>1. ToSet(arrived') = ToSet(arrived) \cup {slot}
    BY <1>1, <1>2, AppendFacts
  <2> QED
    BY <1>1, <1>2, <2>1
<1>5. \A s : Accounted(s) => Accounted(s)'
  BY <1>1, <1>4, Zenon DEF Accounted
<1>6. ASSUME NEW a \in ToSet(arrived'), NEW s \in Head(arrived')..a
      PROVE  Accounted(s)'
  <2>1. CASE s = slot
    BY <1>4, <2>1 DEF Accounted
  <2>2. CASE arrived # <<>> /\ a \in ToSet(arrived)
    <3>1. Accounted(s)
      BY <1>4, <2>2 DEF LossInv
    <3> QED
      BY <1>5, <3>1
  <2>3. CASE arrived # <<>> /\ a = slot /\ s # slot
    <3>0. Head(arrived) \in Nat /\ s \in Int /\ Head(arrived) <= s /\ s < slot
      <4>1. Head(arrived) \in Slots
        BY <1>2, <2>3
      <4> QED
        BY <1>2, <1>4, <2>3, <4>1 DEF Slots
    <3>1. CASE s <= live.lastSlot
      <4>1. live.lastSlot \in ToSet(arrived) /\ s \in Head(arrived)..live.lastSlot
        BY <1>2, <2>3, <3>0, <3>1 DEF LossInv
      <4>2. Accounted(s)
        BY <4>1 DEF LossInv
      <4> QED
        BY <1>5, <4>2
    <3>2. CASE s > live.lastSlot
      <4>1. live.lastSlot # 0 /\ slot > live.lastSlot + 1
        <5>1. live.lastSlot \in ToSet(arrived)
          BY <2>3 DEF LossInv
        <5>2. live.lastSlot \in Slots
          BY <1>2, <5>1 DEF ToSet
        <5> QED
          BY <1>2, <3>0, <3>2, <5>2 DEF Slots
      <4>2. <<live.lastSlot + 1, slot - 1>> \in gaps'
        BY <1>1, <4>1 DEF GapBefore
      <4> DEFINE g == <<live.lastSlot + 1, slot - 1>>
      <4>3. g[1] <= s /\ s <= g[2]
        BY <1>2, <3>0, <3>2
      <4> QED
        BY <4>2, <4>3, Zenon DEF Accounted
    <3> QED
      BY <1>2, <3>0, <3>1, <3>2
  <2>4. CASE arrived = <<>>
    <3>0. ToSet(arrived) = {}
      <4>1. ToSet(<<>>) = {}
        BY DEF ToSet
      <4> QED
        BY <2>4, <4>1
    <3>1. a = slot /\ Head(arrived') = slot
      BY <1>4, <2>4, <3>0
    <3> QED
      BY <1>2, <2>1, <3>1
  <2> QED
    BY <1>4, <2>1, <2>2, <2>3, <2>4
<1> QED
  BY <1>3, <1>4, <1>6 DEF LossInv

(* Every block between the first live update and the newest was seen or    *)
(* lies in a reported gap, also when updates repeat and come late          *)
(* (sources/geyser.ts): lastSlot moves back, but never out of what is      *)
(* accounted for.                                                          *)
THEOREM LossesAreReported == SourcesSpec => []LossIsReported
<1>1. SourcesInit => LossInv
  BY DEF SourcesInit, LossInv, ToSet
<1>2. LossInv /\ [SourcesNext]_sourceVars => LossInv'
  <2> SUFFICES ASSUME LossInv, [SourcesNext]_sourceVars
               PROVE  LossInv'
    OBVIOUS
  <2>1. \/ /\ UNCHANGED <<arrived, gaps>>
           /\ live' = live \/ \E x \in {"open", "closed"} : live' = [live EXCEPT !.at = x]
        \/ \E slot \in Slots : GeyserUpdate(slot)
    BY Zenon
    DEF SourcesNext, sourceVars, GeyserSource, GeyserStart, GeyserStop,
        HistoricalSource, HistoricalStart, GetBlocks, GetBlock, HistoricalThrows, HistoricalStop,
        FixtureSource, FixtureStart, FixtureLine, FixtureReadAll, FixtureEnd, FixtureThrows, FixtureFails,
        FixtureStop
  <2>2. CASE UNCHANGED <<arrived, gaps>>
             /\ (live' = live \/ \E x \in {"open", "closed"} : live' = [live EXCEPT !.at = x])
    BY <2>2 DEF LossInv, Accounted
  <2> QED
    BY <2>1, <2>2, UpdateIsAccounted
<1>3. LossInv => LossIsReported
  <2> SUFFICES ASSUME LossInv, arrived # <<>>
               PROVE  \A s \in Head(arrived)..Max(ToSet(arrived)) : Accounted(s)
    BY Zenon DEF LossIsReported, Accounted
  <2>1. ToSet(arrived) \in SUBSET (1..MaxSlot) /\ ToSet(arrived) # {}
    <3>1. arrived \in Seq(Slots) /\ arrived # <<>>
      BY DEF LossInv
    <3>2. ToSet(arrived) \in SUBSET (1..MaxSlot)
      <4>1. \A i \in DOMAIN arrived : arrived[i] \in Slots
        BY <3>1
      <4> QED
        BY <4>1, Zenon DEF ToSet, Slots
    <3> QED
      BY <3>1, <3>2, NothingInIt
  <2>2. Max(ToSet(arrived)) \in ToSet(arrived)
    BY <2>1, SourceAssumption, GreatestNatural
  <2> QED
    BY <2>2 DEF LossInv
<1> QED
  BY <1>1, <1>2, <1>3, PTL DEF SourcesSpec

-----------------------------------------------------------------------------
(* The sources: what a range of slots tells.                               *)

OursOf(slot) == {s \in {slot} \X DOMAIN chain[slot] : chain[slot][s[2]] = "ours"}
Ours == UNION {OursOf(slot) : slot \in {t \in Slots : HasBlock(t)}}
Sig(slot) == IF HasBlock(slot) THEN signals(slot) ELSE <<>>
Per(h) == [k \in 1..h |-> Sig(k)]
UpTo(h) == FlattenSeq(Per(h))
ChainOK == chain \in [Slots -> Blocks]

LEMMA SignalsAreOurs ==
    ASSUME ChainOK, NEW slot \in Slots
    PROVE  Sig(slot) \in Seq(Ours)
<1>1. CASE HasBlock(slot)
  <2> DEFINE b == chain[slot]
             T == {slot} \X DOMAIN b
             S == OursOf(slot)
             s == [k \in DOMAIN b |-> <<slot, k>>]
             r == Only(s, S)
  <2>1. b \in Seq(Events)
    BY <1>1, SourceAssumption DEF ChainOK, HasBlock
  <2>2. DOMAIN b = 1..Len(b) /\ Len(b) \in Nat
    BY <2>1
  <2>3. s \in Seq(T)
    <3>1. \A k \in DOMAIN b : <<slot, k>> \in T
      BY Zenon
    <3> HIDE DEF T, b
    <3> QED
      BY <2>2, <3>1
  <2> HIDE DEF b, s, S
  <2>4. r \in Seq(T) /\ Keeps(r, s, S)
    BY <2>3, OnlyKeeps
  <2>5. \A j \in 1..Len(r) : r[j] \in S
    <3>1. PICK f : KeptAt(f, r, s, S)
      BY <2>4, Zenon DEF Keeps
    <3>2. f \in [1..Len(r) -> {k \in 1..Len(s) : s[k] \in S}]
          /\ \A j \in 1..Len(r) : r[j] = s[f[j]]
      BY <3>1, Zenon DEF KeptAt
    <3>3. \A j \in 1..Len(r) : f[j] \in {k \in 1..Len(s) : s[k] \in S}
      BY <3>2, Zenon
    <3> QED
      BY <3>2, <3>3, Zenon
  <2>6. \A x \in S : x \in Ours
    BY <1>1, Zenon DEF Ours, S
  <2>7. Sig(slot) = r
    BY <1>1, Zenon DEF Sig, signals, OursOf, r, s, b, S
  <2> HIDE DEF r, T
  <2>8. r = [j \in 1..Len(r) |-> r[j]] /\ Len(r) \in Nat
    BY <2>4
  <2>9. \A j \in 1..Len(r) : r[j] \in Ours
    BY <2>5, <2>6, Zenon
  <2> HIDE DEF Ours
  <2>10. r \in Seq(Ours)
    BY <2>8, <2>9
  <2> QED
    BY <2>7, <2>10
<1>2. CASE ~HasBlock(slot)
  <2> DEFINE T == Ours
  <2> HIDE DEF T
  <2>1. <<>> \in Seq(T)
    OBVIOUS
  <2> QED
    BY <1>2, <2>1 DEF Sig, T
<1> QED
  BY <1>1, <1>2

LEMMA UpToGrows ==
    ASSUME ChainOK
    PROVE  /\ UpTo(0) = <<>>
           /\ \A h \in 0..MaxSlot : UpTo(h) \in Seq(Ours)
           /\ \A h \in 0..MaxSlot, g \in 0..MaxSlot : g = h + 1 => UpTo(g) = UpTo(h) \o Sig(g)
<1> DEFINE T == Ours
<1>1. \A k \in 1..MaxSlot : Sig(k) \in Seq(T)
  BY SignalsAreOurs DEF Slots
<1>2. MaxSlot \in Nat
  BY SourceAssumption
<1> HIDE DEF T
<1>3. ASSUME NEW h \in 0..MaxSlot PROVE Per(h) \in Seq(Seq(T))
  <2>1. \A k \in 1..h : Sig(k) \in Seq(T)
    BY <1>1, <1>2
  <2>2. h \in Nat
    BY <1>2
  <2> DEFINE Q == Seq(T)
  <2> HIDE DEF Q
  <2>3. \A k \in 1..h : Sig(k) \in Q
    BY <2>1 DEF Q
  <2>4. Per(h) \in Seq(Q)
    BY <2>2, <2>3 DEF Per
  <2> QED
    BY <2>4 DEF Q
<1>4. UpTo(0) = <<>>
  <2>1. Per(0) = <<>>
    BY DEF Per
  <2> QED
    BY <2>1, FlattenEmpty DEF UpTo
<1>5. \A h \in 0..MaxSlot : UpTo(h) \in Seq(T)
  BY <1>3, FlattenTyped DEF UpTo
<1>6. ASSUME NEW h \in 0..MaxSlot, NEW g \in 0..MaxSlot, g = h + 1
      PROVE  UpTo(g) = UpTo(h) \o Sig(g)
  <2> DEFINE Q == Seq(T)
  <2>1. Per(h) \in Seq(Q) /\ Sig(g) \in Q
    BY <1>1, <1>2, <1>3, <1>6
  <2>2. Per(g) = Append(Per(h), Sig(g))
    <3> HIDE DEF Q
    <3>1. Len(Per(h)) = h /\ h \in Nat
      BY <1>2 DEF Per
    <3>2. \A k \in 1..h : Per(h)[k] = Sig(k)
      BY DEF Per
    <3>3. Append(Per(h), Sig(g)) = [k \in 1..g |-> IF k = g THEN Sig(g) ELSE Per(h)[k]]
      BY <1>6, <2>1, <3>1
    <3>4. \A k \in 1..g : k = g \/ k \in 1..h
      BY <1>6, <3>1
    <3> QED
      BY <3>2, <3>3, <3>4 DEF Per
  <2>3. FlattenSeq(Append(Per(h), Sig(g))) = FlattenSeq(Per(h)) \o Sig(g)
    BY <2>1, FlattenAppend
  <2> QED
    BY <2>2, <2>3 DEF UpTo
<1> QED
  BY <1>4, <1>5, <1>6 DEF T

LEMMA LinesAreAll == ChainOK => Lines = UpTo(MaxSlot) /\ Lines \in Seq(Ours)
<1> SUFFICES ASSUME ChainOK PROVE Lines = UpTo(MaxSlot) /\ Lines \in Seq(Ours)
  OBVIOUS
<1>1. MaxSlot \in Nat \ {0}
  BY SourceAssumption
<1>2. (IF MaxSlot < 1 THEN 0 ELSE MaxSlot - 1 + 1) = MaxSlot /\ MaxSlot \in 0..MaxSlot
  BY <1>1
<1>3. \A k \in 1..MaxSlot : 1 + k - 1 = k
  OBVIOUS
<1>4. [k \in 1..MaxSlot |-> IF HasBlock(1 + k - 1) THEN signals(1 + k - 1) ELSE <<>>] = Per(MaxSlot)
  BY <1>3, Zenon DEF Per, Sig
<1>5. Lines = FlattenSeq([k \in 1..MaxSlot |->
                 IF HasBlock(1 + k - 1) THEN signals(1 + k - 1) ELSE <<>>])
  BY <1>2, Zenon DEF Lines, Told
<1>6. Lines = UpTo(MaxSlot)
  BY <1>4, <1>5, Zenon DEF UpTo
<1> QED
  BY <1>2, <1>6, UpToGrows

LEMMA PrefixFacts ==
    \A T : \A p \in Seq(T) :
        /\ IsPrefix(p, p)
        /\ \A q, x \in Seq(T) : IsPrefix(p, q) => IsPrefix(p, q \o x)
<1> SUFFICES ASSUME NEW T, NEW p \in Seq(T)
             PROVE  /\ IsPrefix(p, p)
                    /\ \A q, x \in Seq(T) : IsPrefix(p, q) => IsPrefix(p, q \o x)
  OBVIOUS
<1>1. IsPrefix(p, p)
  BY DEF IsPrefix
<1>2. ASSUME NEW q \in Seq(T), NEW x \in Seq(T), IsPrefix(p, q) PROVE IsPrefix(p, q \o x)
  <2>1. Len(p) <= Len(q) /\ SubSeq(p, 1, Len(p)) = SubSeq(q, 1, Len(p))
    BY <1>2 DEF IsPrefix
  <2>2. Len(p) \in Nat /\ Len(q) \in Nat /\ Len(q \o x) = Len(q) + Len(x) /\ Len(x) \in Nat
    OBVIOUS
  <2>3. \A i \in 1..Len(p) : (q \o x)[i] = q[i]
    BY <2>1, <2>2
  <2>4. SubSeq(q \o x, 1, Len(p)) = SubSeq(q, 1, Len(p))
    BY <2>1, <2>2, <2>3
  <2>5. Len(p) <= Len(q \o x)
    BY <2>1, <2>2
  <2> QED
    BY <2>1, <2>4, <2>5, Zenon DEF IsPrefix
<1> QED
  BY <1>1, <1>2

LEMMA UpToArePrefixes ==
    ASSUME ChainOK
    PROVE  \A h \in 0..MaxSlot : IsPrefix(UpTo(h), UpTo(MaxSlot))
<1> DEFINE S == {j \in Nat : j <= MaxSlot => \A h \in 0..j : IsPrefix(UpTo(h), UpTo(j))}
<1>0. MaxSlot \in Nat \ {0}
  BY SourceAssumption
<1>1. \A h \in 0..MaxSlot : UpTo(h) \in Seq(Ours)
  BY UpToGrows
<1>2. 0 \in S
  <2>1. 0 \in 0..MaxSlot /\ \A h \in 0..0 : h = 0
    BY <1>0
  <2>2. IsPrefix(UpTo(0), UpTo(0))
    BY <1>1, <2>1, PrefixFacts, Zenon
  <2> QED
    BY <2>1, <2>2
<1>3. ASSUME NEW j \in Nat, j \in S PROVE j + 1 \in S
  <2> SUFFICES ASSUME j + 1 <= MaxSlot, NEW h \in 0..(j + 1)
               PROVE  IsPrefix(UpTo(h), UpTo(j + 1))
    OBVIOUS
  <2> DEFINE g == j + 1
  <2>1. g \in 0..MaxSlot /\ j \in 0..MaxSlot /\ h \in 0..MaxSlot /\ g \in Slots
        /\ (h = g \/ h \in 0..j) /\ j <= MaxSlot /\ g = j + 1
    BY <1>0 DEF Slots
  <2> HIDE DEF g
  <2>2. CASE h = g
    BY <1>1, <2>1, <2>2, PrefixFacts, Zenon DEF g
  <2>3. CASE h \in 0..j
    <3>1. IsPrefix(UpTo(h), UpTo(j))
      BY <1>3, <2>1, <2>3
    <3>2. UpTo(g) = UpTo(j) \o Sig(g) /\ Sig(g) \in Seq(Ours)
      BY <2>1, UpToGrows, SignalsAreOurs
    <3>3. IsPrefix(UpTo(h), UpTo(j) \o Sig(g))
      BY <1>1, <2>1, <3>1, <3>2, PrefixFacts, Zenon
    <3> QED
      BY <3>2, <3>3, Zenon DEF g
  <2> QED
    BY <2>1, <2>2, <2>3
<1>4. \A j \in Nat : j \in S
  <2> HIDE DEF S
  <2> QED
    BY <1>2, <1>3, InductionOnSet, Zenon
<1> QED
  BY <1>0, <1>4

LEMMA SkippedAddNothing ==
    ASSUME ChainOK, NEW lo \in 0..MaxSlot, NEW hi \in 0..MaxSlot, lo <= hi,
           \A s \in (lo + 1)..hi : ~HasBlock(s)
    PROVE  UpTo(lo) = UpTo(hi)
<1> DEFINE S == {j \in Nat : j \in lo..hi => UpTo(j) = UpTo(lo)}
<1>0. MaxSlot \in Nat /\ lo \in Nat /\ hi \in Nat
  BY SourceAssumption
<1>1. 0 \in S
  BY <1>0
<1>2. ASSUME NEW j \in Nat, j \in S PROVE j + 1 \in S
  <2> SUFFICES ASSUME NEW g \in lo..hi, g = j + 1 PROVE UpTo(g) = UpTo(lo)
    OBVIOUS
  <2>1. CASE g = lo
    BY <2>1
  <2>2. CASE g # lo
    <3>1. j \in lo..hi /\ j \in 0..MaxSlot /\ g \in 0..MaxSlot /\ g \in (lo + 1)..hi
      BY <1>0, <2>2
    <3>2. UpTo(j) = UpTo(lo)
      BY <1>2, <3>1
    <3>3. UpTo(g) = UpTo(j) \o Sig(g) /\ UpTo(j) \in Seq(Ours)
      BY <3>1, UpToGrows
    <3>4. Sig(g) = <<>>
      BY <3>1 DEF Sig
    <3>5. \A T : \A s \in Seq(T) : s \o <<>> = s
      OBVIOUS
    <3> QED
      BY <3>2, <3>3, <3>4, <3>5, Zenon
  <2> QED
    BY <2>1, <2>2
<1>3. \A j \in Nat : j \in S
  <2> HIDE DEF S
  <2> QED
    BY <1>1, <1>2, InductionOnSet, Zenon
<1> QED
  BY <1>0, <1>3

(* The blocks a batch still has to walk: in their order, up to hi, and all *)
(* there are.                                                              *)
Rest(slots, hi) ==
    /\ slots \in Seq(Slots) /\ slots # <<>>
    /\ \A i, j \in DOMAIN slots : i < j => slots[i] < slots[j]
    /\ \A i \in DOMAIN slots : HasBlock(slots[i]) /\ slots[i] <= hi
    /\ \A s \in Head(slots)..hi : HasBlock(s) => \E i \in DOMAIN slots : slots[i] = s

ChunkEnd(c) == IF c + BatchSize - 1 < MaxSlot THEN c + BatchSize - 1 ELSE MaxSlot

WalkStates == [at : {"idle", "batch", "blocks", "done"}, cursor : Nat \ {0},
               slots : Seq(Slots), aborted : BOOLEAN]

(* What the walk w has told, and where that leaves it.                     *)
Walked(w, told) ==
    /\ w \in WalkStates
    /\ w.at = "idle" => told = <<>>
    /\ w.at \in {"batch", "blocks"} => w.cursor \in Slots
    /\ w.at = "batch" => told = UpTo(w.cursor - 1)
    /\ w.at = "blocks" => Rest(w.slots, ChunkEnd(w.cursor)) /\ told = UpTo(Head(w.slots) - 1)
    /\ w.at = "done" => \E h \in 0..MaxSlot :
          /\ told = UpTo(h)
          /\ w.cursor > MaxSlot /\ ~w.aborted => h = MaxSlot

ReplayStates ==
    [at : {"idle", "reading", "ending", "done", "lost"}, line : Nat \ {0}, aborted : BOOLEAN]
LiveStates == [at : {"idle", "open", "closed"}, lastSlot : 0..MaxSlot]

SourceVarsOK ==
    /\ live \in LiveStates /\ replay \in ReplayStates
    /\ out \in [Sources -> Seq(Ours)]
    /\ ended \in [Sources -> 0..1]
    /\ walk.at # "done" => ended["historical"] = 0
    /\ replay.at # "done" => ended["fixture"] = 0

SourcesInv ==
    /\ ChainOK
    /\ SourceVarsOK
    /\ Walked(walk, out["historical"])

(* The batch's end.                                                        *)
LEMMA ChunkIs ==
    ASSUME NEW c \in Slots
    PROVE  /\ ChunkEnd(c) \in Slots /\ c <= ChunkEnd(c)
           /\ c + BatchSize \in Nat \ {0}
           /\ c + BatchSize <= MaxSlot => ChunkEnd(c) = c + BatchSize - 1
           /\ c + BatchSize > MaxSlot => ChunkEnd(c) = MaxSlot
BY SourceAssumption DEF Slots, ChunkEnd

(* What the blocks of the batch are.                                       *)
LEMMA BlocksOfTheBatch ==
    ASSUME NEW c \in Slots, NEW to \in Slots, c <= to,
           NEW slots, slots = Only([k \in 1..(to - c + 1) |-> c + k - 1],
                                   {slot \in Slots : HasBlock(slot)})
    PROVE  /\ slots \in Seq(Slots)
           /\ slots = <<>> => \A s \in c..to : ~HasBlock(s)
           /\ slots # <<>> => Rest(slots, to) /\ Head(slots) \in c..to
                              /\ \A s \in c..(Head(slots) - 1) : ~HasBlock(s)
<1> DEFINE T == Slots
           S == {slot \in Slots : HasBlock(slot)}
           n == to - c + 1
           q == [k \in 1..n |-> c + k - 1]
<1>0. c \in Nat \ {0} /\ to \in Nat \ {0} /\ MaxSlot \in Nat /\ n \in Nat /\ to <= MaxSlot
  BY SourceAssumption DEF Slots
<1>1. \A k \in 1..n : c + k - 1 \in T /\ c + k - 1 \in c..to
  BY <1>0 DEF Slots
<1>2. \A s \in c..to : s - c + 1 \in 1..n /\ c + (s - c + 1) - 1 = s /\ s \in T
  BY <1>0 DEF Slots
<1>3. \A x : x \in S <=> x \in T /\ HasBlock(x)
  OBVIOUS
<1>30. \A k, l \in 1..n : k < l => c + k - 1 < c + l - 1
  BY <1>0
<1> HIDE DEF T, S, n
<1>4. q \in Seq(T) /\ Len(q) = n /\ \A k \in 1..n : q[k] = c + k - 1
  <2>1. \A k \in 1..n : q[k] = c + k - 1 /\ q[k] \in T
    BY <1>1, Zenon
  <2>2. q = [k \in 1..n |-> q[k]] /\ n \in Nat
    BY <1>0, Zenon
  <2> HIDE DEF q
  <2>3. q \in Seq(T) /\ Len(q) = n
    BY <2>1, <2>2
  <2> QED
    BY <2>1, <2>3, Zenon
<1> HIDE DEF q
<1>5. slots = Only(q, S)
  BY Zenon DEF q, n, S
<1>6. slots \in Seq(T) /\ Keeps(slots, q, S)
  BY <1>4, <1>5, OnlyKeeps
<1>7. PICK f : KeptAt(f, slots, q, S)
  BY <1>6, Zenon DEF Keeps
<1> DEFINE m == Len(slots)
<1>8. /\ f \in [1..m -> {k \in 1..n : q[k] \in S}]
      /\ \A k \in 1..n : q[k] \in S => \E j \in 1..m : f[j] = k
      /\ \A i, j \in 1..m : i < j => f[i] < f[j]
      /\ \A j \in 1..m : slots[j] = q[f[j]]
  BY <1>4, <1>7, Zenon DEF KeptAt
<1>9. m \in Nat /\ DOMAIN slots = 1..m
  BY <1>6
<1> HIDE DEF m
<1>10. \A j \in 1..m : f[j] \in 1..n /\ q[f[j]] \in S
  BY <1>8, Zenon
<1>11. \A j \in 1..m : slots[j] = c + f[j] - 1 /\ slots[j] \in c..to /\ HasBlock(slots[j])
  <2> TAKE j \in 1..m
  <2>1. f[j] \in 1..n /\ q[f[j]] \in S /\ slots[j] = q[f[j]]
    BY <1>8, <1>10, Zenon
  <2>2. q[f[j]] = c + f[j] - 1 /\ c + f[j] - 1 \in c..to
    BY <1>1, <1>4, <2>1
  <2> QED
    BY <1>3, <2>1, <2>2, Zenon
<1>12. \A s \in c..to : HasBlock(s) => \E i \in 1..m : slots[i] = s
  <2> SUFFICES ASSUME NEW s \in c..to, HasBlock(s) PROVE \E i \in 1..m : slots[i] = s
    OBVIOUS
  <2>0. s - c + 1 \in 1..n /\ c + (s - c + 1) - 1 = s /\ s \in S
    BY <1>2, <1>3
  <2>1. PICK k \in 1..n : q[k] = s /\ q[k] \in S
    BY <1>4, <2>0
  <2>2. \A l \in 1..n : q[l] \in S => \E j \in 1..m : f[j] = l
    BY <1>8
  <2>3. PICK j \in 1..m : f[j] = k
    BY <2>1, <2>2, Zenon
  <2>4. slots[j] = q[f[j]]
    BY <1>8
  <2> QED
    BY <2>1, <2>3, <2>4
<1>13. \A i, j \in 1..m : i < j => slots[i] < slots[j]
  <2> SUFFICES ASSUME NEW i \in 1..m, NEW j \in 1..m, i < j PROVE slots[i] < slots[j]
    OBVIOUS
  <2>1. f[i] < f[j] /\ f[i] \in 1..n /\ f[j] \in 1..n
    BY <1>8, <1>10, Zenon
  <2> QED
    BY <1>11, <1>30, <2>1, Zenon
<1>14. CASE slots = <<>>
  <2>0. m = 0
    BY <1>14 DEF m
  <2>1. 1..m = {}
    BY <2>0
  <2>2. \A s \in c..to : ~HasBlock(s)
    BY <1>12, <2>1, Zenon
  <2> QED
    BY <1>6, <1>14, <2>2 DEF T
<1>15. CASE slots # <<>>
  <2>1. 1 \in 1..m /\ Head(slots) = slots[1]
    BY <1>6, <1>9, <1>15 DEF m
  <2>2. Head(slots) \in c..to
    BY <1>11, <2>1, Zenon
  <2>3. \A s \in c..(Head(slots) - 1) : ~HasBlock(s)
    <3> SUFFICES ASSUME NEW s \in c..(Head(slots) - 1), HasBlock(s) PROVE FALSE
      OBVIOUS
    <3>1. s \in c..to /\ s < Head(slots)
      BY <1>0, <2>2
    <3>2. PICK i \in 1..m : slots[i] = s
      BY <1>12, <3>1, Zenon
    <3>3. i = 1 \/ 1 < i
      BY <1>9
    <3>4. Head(slots) = s \/ Head(slots) < s
      BY <1>13, <2>1, <3>2, <3>3, Zenon
    <3> QED
      BY <1>0, <2>2, <3>1, <3>4
  <2>4. \A s \in Head(slots)..to : HasBlock(s) => \E i \in 1..m : slots[i] = s
    <3>1. \A s \in Head(slots)..to : s \in c..to
      BY <1>0, <2>2
    <3> QED
      BY <1>12, <3>1, Zenon
  <2>5. \A i \in 1..m : slots[i] <= to
    BY <1>0, <1>11
  <2>6. Rest(slots, to)
    BY <1>6, <1>9, <1>11, <1>13, <1>15, <2>4, <2>5, Zenon DEF Rest, T
  <2> QED
    BY <1>6, <1>15, <2>2, <2>3, <2>6, Zenon DEF T
<1> QED
  BY <1>14, <1>15

(* After its first block.                                                  *)
LEMMA RestOfTheRest ==
    ASSUME NEW slots, NEW to \in Slots, Rest(slots, to), ChainOK
    PROVE  LET told == UpTo(Head(slots) - 1) \o signals(Head(slots)) IN
           /\ Head(slots) \in Slots /\ told = UpTo(Head(slots))
           /\ Len(slots) = 1 => told = UpTo(to)
           /\ Len(slots) # 1 => Rest(Tail(slots), to) /\ told = UpTo(Head(Tail(slots)) - 1)
<1> DEFINE a == Head(slots)
           n == Len(slots)
           told == UpTo(a - 1) \o signals(a)
<1>0. MaxSlot \in Nat /\ \A s \in Slots : s \in Nat \ {0} /\ s <= MaxSlot
  BY SourceAssumption DEF Slots
<1>1. slots \in Seq(Slots) /\ slots # <<>> /\ n \in Nat \ {0} /\ DOMAIN slots = 1..n
      /\ a = slots[1] /\ 1 \in 1..n /\ a \in Slots
  <2> DEFINE T == Slots
  <2>1. slots \in Seq(T) /\ slots # <<>>
    BY DEF Rest
  <2> HIDE DEF T
  <2>2. n \in Nat \ {0} /\ DOMAIN slots = 1..n /\ a = slots[1] /\ 1 \in 1..n /\ a \in T
    BY <2>1
  <2> QED
    BY <2>1, <2>2 DEF T
<1>2. /\ \A i, j \in 1..n : i < j => slots[i] < slots[j]
      /\ \A i \in 1..n : HasBlock(slots[i]) /\ slots[i] <= to
      /\ \A s \in a..to : HasBlock(s) => \E i \in 1..n : slots[i] = s
  BY <1>1, Zenon DEF Rest
<1> HIDE DEF a, n
<1>3. told = UpTo(a)
  <2>1. a \in 0..MaxSlot /\ a - 1 \in 0..MaxSlot /\ a = (a - 1) + 1
    BY <1>0, <1>1
  <2>2. UpTo(a) = UpTo(a - 1) \o Sig(a)
    BY <2>1, UpToGrows
  <2>3. HasBlock(a)
    BY <1>1, <1>2, Zenon
  <2> QED
    BY <2>2, <2>3 DEF Sig
<1>4. a <= to /\ to <= MaxSlot /\ to \in Nat /\ a \in Nat \ {0}
  BY <1>0, <1>1, <1>2
<1>5. ASSUME n = 1 PROVE told = UpTo(to)
  <2>1. \A s \in (a + 1)..to : ~HasBlock(s)
    <3> SUFFICES ASSUME NEW s \in (a + 1)..to, HasBlock(s) PROVE FALSE
      OBVIOUS
    <3>1. s \in a..to /\ s # a
      BY <1>4
    <3>2. PICK i \in 1..n : slots[i] = s
      BY <1>2, <3>1, Zenon
    <3>3. i = 1
      BY <1>5
    <3> QED
      BY <1>1, <3>1, <3>2, <3>3
  <2>2. a \in 0..MaxSlot /\ to \in 0..MaxSlot
    BY <1>0, <1>4
  <2>3. UpTo(a) = UpTo(to)
    BY <1>4, <2>1, <2>2, SkippedAddNothing
  <2> QED
    BY <1>3, <2>3
<1>6. ASSUME n # 1 PROVE Rest(Tail(slots), to) /\ told = UpTo(Head(Tail(slots)) - 1)
  <2> DEFINE r == Tail(slots)
             b == slots[2]
             p == n - 1
  <2>1. /\ r \in Seq(Slots) /\ r # <<>> /\ DOMAIN r = 1..p /\ Head(r) = b
        /\ \A i \in 1..p : r[i] = slots[i + 1]
    <3> DEFINE T == Slots
    <3>1. slots \in Seq(T) /\ Len(slots) \in Nat \ {0, 1}
      BY <1>1, <1>6 DEF n
    <3> HIDE DEF T
    <3>2. /\ r \in Seq(T) /\ r # <<>> /\ Len(r) = p /\ DOMAIN r = 1..p /\ Head(r) = b
          /\ \A i \in 1..p : r[i] = slots[i + 1]
      <4>1. \A q \in Seq(T) : Len(q) \in Nat \ {0, 1} =>
               /\ Tail(q) \in Seq(T) /\ Tail(q) # <<>> /\ Len(Tail(q)) = Len(q) - 1
               /\ DOMAIN Tail(q) = 1..(Len(q) - 1) /\ Head(Tail(q)) = q[2]
               /\ \A i \in 1..(Len(q) - 1) : Tail(q)[i] = q[i + 1]
        <5> SUFFICES ASSUME NEW q \in Seq(T), Len(q) \in Nat \ {0, 1}
                     PROVE  /\ Tail(q) \in Seq(T) /\ Tail(q) # <<>> /\ Len(Tail(q)) = Len(q) - 1
                            /\ DOMAIN Tail(q) = 1..(Len(q) - 1) /\ Head(Tail(q)) = q[2]
                            /\ \A i \in 1..(Len(q) - 1) : Tail(q)[i] = q[i + 1]
          BY Zenon
        <5>1. Tail(q) \in Seq(T) /\ Len(Tail(q)) = Len(q) - 1
          OBVIOUS
        <5>2. \A i \in 1..(Len(q) - 1) : Tail(q)[i] = q[i + 1]
          OBVIOUS
        <5>3. DOMAIN Tail(q) = 1..(Len(q) - 1) /\ Tail(q) # <<>>
          <6>1. \A x \in Seq(T) : DOMAIN x = 1..Len(x) /\ (Len(x) # 0 => x # <<>>)
            OBVIOUS
          <6>2. Len(Tail(q)) # 0
            BY <5>1
          <6> QED
            BY <5>1, <6>1, <6>2, Zenon
        <5>4. Head(Tail(q)) = Tail(q)[1] /\ 1 \in 1..(Len(q) - 1) /\ 1 + 1 = 2
          BY <5>1, <5>3
        <5>5. Head(Tail(q)) = q[2]
          BY <5>2, <5>4, Zenon
        <5> QED
          BY <5>1, <5>2, <5>3, <5>5, Zenon
      <4> QED
        BY <3>1, <4>1, Zenon DEF n
    <3> QED
      BY <3>2 DEF T
  <2>2. 2 \in 1..n /\ p \in Nat /\ (\A i \in 1..p : i + 1 \in 1..n) /\ \A i \in 1..n : i = 1 \/ i - 1 \in 1..p
    BY <1>1, <1>6
  <2>20. \A i \in 1..n : (i - 1) + 1 = i
    BY <1>1
  <2>21. \A i, j \in 1..p : i < j => i + 1 < j + 1
    OBVIOUS
  <2> HIDE DEF r, p
  <2>3. a < b /\ b <= to /\ b \in Slots /\ HasBlock(b)
    <3>1. slots[2] \in Slots
      BY <1>1, <2>2
    <3>2. 1 < 2
      OBVIOUS
    <3>3. slots[1] < slots[2] /\ HasBlock(slots[2]) /\ slots[2] <= to
      BY <1>1, <1>2, <2>2, <3>2, Zenon
    <3> QED
      BY <1>1, <3>1, <3>3
  <2>31. b \in Nat /\ b <= MaxSlot
    BY <1>0, <2>3
  <2>32. b = slots[2]
    OBVIOUS
  <2> HIDE DEF b
  <2>30. \A i \in 1..p : r[i] = slots[i + 1] /\ i + 1 \in 1..n
    BY <2>1, <2>2, Zenon
  <2>4. \A i, j \in 1..p : i < j => r[i] < r[j]
    <3> SUFFICES ASSUME NEW i \in 1..p, NEW j \in 1..p, i < j PROVE r[i] < r[j]
      OBVIOUS
    <3>1. slots[i + 1] < slots[j + 1]
      BY <1>2, <2>2, <2>21, Zenon
    <3> QED
      BY <2>30, <3>1, Zenon
  <2>5. \A i \in 1..p : HasBlock(r[i]) /\ r[i] <= to
    BY <1>2, <2>30, Zenon
  <2>6. \A s \in b..to : HasBlock(s) => \E i \in 1..p : r[i] = s
    <3> SUFFICES ASSUME NEW s \in b..to, HasBlock(s) PROVE \E i \in 1..p : r[i] = s
      OBVIOUS
    <3>1. s \in a..to /\ s # a
      BY <1>4, <2>3, <2>31
    <3>2. PICK i \in 1..n : slots[i] = s
      BY <1>2, <3>1, Zenon
    <3>3. i # 1
      BY <1>1, <3>1, <3>2, Zenon
    <3>4. i - 1 \in 1..p /\ r[i - 1] = slots[(i - 1) + 1]
      BY <2>1, <2>2, <3>3, Zenon
    <3> QED
      BY <2>20, <3>2, <3>4, Zenon
  <2>7. Rest(r, to)
    BY <2>1, <2>4, <2>5, <2>6, Zenon DEF Rest
  <2>8. UpTo(a) = UpTo(b - 1)
    <3>1. a \in 0..MaxSlot /\ b - 1 \in 0..MaxSlot /\ a <= b - 1
      <4>1. a < b /\ b <= to
        BY <2>3
      <4>2. MaxSlot \in Nat
        BY <1>0
      <4> QED
        BY <1>4, <2>31, <4>1, <4>2
    <3>2. \A s \in (a + 1)..(b - 1) : ~HasBlock(s)
      <4> SUFFICES ASSUME NEW s \in (a + 1)..(b - 1), HasBlock(s) PROVE FALSE
        OBVIOUS
      <4>1. s \in a..to /\ s # a /\ s < b /\ b \in Nat
        BY <1>4, <2>3, <2>31
      <4>2. PICK i \in 1..n : slots[i] = s
        BY <1>2, <4>1, Zenon
      <4>3. i # 1
        BY <1>1, <4>1, <4>2, Zenon
      <4>4. i = 2 \/ 2 < i
        BY <4>3
      <4>5. b = s \/ b < s
        BY <1>2, <2>2, <2>32, <4>2, <4>4, Zenon
      <4> QED
        BY <4>1, <4>5
    <3> QED
      BY <3>1, <3>2, SkippedAddNothing
  <2> QED
    BY <1>3, <2>1, <2>7, <2>8, Zenon DEF r
<1> QED
  BY <1>1, <1>3, <1>5, <1>6, Zenon DEF a, n

LEMMA WalkMoves ==
    ASSUME walk \in WalkStates, NEW at \in {"idle", "batch", "blocks", "done"}, NEW n \in Nat \ {0},
           walk' = [walk EXCEPT !.at = at, !.cursor = n]
    PROVE  /\ walk' \in WalkStates /\ walk'.at = at /\ walk'.cursor = n
           /\ walk'.aborted = walk.aborted /\ walk'.slots = walk.slots
BY DEF WalkStates

(* The end of a batch, all of it told unless the walk is aborted.          *)
LEMMA BatchEnds ==
    ASSUME NEW c \in Slots, walk \in WalkStates, walk.cursor = c,
           ended \in [Sources -> 0..1], ended["historical"] = 0,
           NextBatch(c + BatchSize, walk.aborted),
           NEW h \in 0..MaxSlot, NEW told, told = UpTo(h), ~walk.aborted => h = ChunkEnd(c)
    PROVE  /\ Walked(walk', told)
           /\ ended' \in [Sources -> 0..1] /\ ended'["fixture"] = ended["fixture"]
           /\ walk'.at # "done" => ended'["historical"] = 0
<1> DEFINE n == c + BatchSize
<1>0. n \in Nat \ {0} /\ MaxSlot \in Nat
      /\ (n <= MaxSlot => ChunkEnd(c) = n - 1 /\ n \in Slots)
      /\ (n > MaxSlot => ChunkEnd(c) = MaxSlot)
  BY ChunkIs, SourceAssumption DEF Slots
<1> HIDE DEF n
<1>1. CASE n <= MaxSlot /\ ~walk.aborted
  <2>1. walk' = [walk EXCEPT !.at = "batch", !.cursor = n] /\ ended' = ended
    BY <1>1 DEF NextBatch, n
  <2>2. walk' \in WalkStates /\ walk'.at = "batch" /\ walk'.cursor = n
    BY <1>0, <2>1 DEF WalkStates
  <2>3. told = UpTo(n - 1)
    BY <1>0, <1>1
  <2>4. Walked(walk', told)
    BY <1>0, <1>1, <2>2, <2>3, Zenon DEF Walked
  <2> QED
    BY <2>1, <2>4
<1>2. CASE ~(n <= MaxSlot /\ ~walk.aborted)
  <2>1. walk' = [walk EXCEPT !.at = "done", !.cursor = n]
        /\ ended' = [ended EXCEPT !["historical"] = @ + 1]
    BY <1>2, Zenon DEF NextBatch, n
  <2>2. walk' \in WalkStates /\ walk'.at = "done" /\ walk'.cursor = n
        /\ walk'.aborted = walk.aborted
    BY <1>0, <2>1 DEF WalkStates
  <2>3. walk'.cursor > MaxSlot /\ ~walk'.aborted => h = MaxSlot
    BY <1>0, <2>2
  <2>4. Walked(walk', told)
    BY <2>2, <2>3, Zenon DEF Walked
  <2>5. ended' \in [Sources -> 0..1] /\ ended'["fixture"] = ended["fixture"]
    BY <2>1 DEF Sources
  <2> QED
    BY <2>2, <2>4, <2>5
<1> QED
  BY <1>1, <1>2

LEMMA ChainStays ==
    ASSUME chain' = chain
    PROVE  /\ ChainOK => ChainOK'
           /\ Ours' = Ours
           /\ \A w, t : Walked(w, t)' <=> Walked(w, t)
<1>1. \A x : HasBlock(x)' <=> HasBlock(x)
  BY Zenon DEF HasBlock
<1>2. \A x : signals(x)' = signals(x)
  BY Zenon DEF signals
<1>3. \A x : Sig(x)' = Sig(x)
  BY <1>1, <1>2, Zenon DEF Sig
<1>4. \A h : Per(h)' = Per(h)
  BY <1>3, Zenon DEF Per
<1>5. \A h : UpTo(h)' = UpTo(h)
  BY <1>4, Zenon DEF UpTo
<1>6. \A s, h : Rest(s, h)' <=> Rest(s, h)
  BY <1>1, Zenon DEF Rest
<1>7. \A w, t : Walked(w, t)' <=> Walked(w, t)
  BY <1>5, <1>6, Zenon DEF Walked
<1>8. Ours' = Ours
  <2>1. \A x : OursOf(x)' = OursOf(x)
    BY Zenon DEF OursOf
  <2> QED
    BY <1>1, <2>1, Zenon DEF Ours
<1> QED
  BY <1>7, <1>8 DEF ChainOK

(* A source that emits signals of the range.                               *)
LEMMA Emits ==
    ASSUME out \in [Sources -> Seq(Ours)], NEW s \in Sources, NEW x \in Seq(Ours),
           out' = [out EXCEPT ![s] = @ \o x]
    PROVE  /\ out' \in [Sources -> Seq(Ours)]
           /\ out'[s] = out[s] \o x
           /\ \A r \in Sources \ {s} : out'[r] = out[r]
<1> DEFINE Q == Seq(Ours)
<1>1. out[s] \o x \in Q
  <2> DEFINE T == Ours
  <2>1. out[s] \in Seq(T) /\ x \in Seq(T)
    OBVIOUS
  <2> HIDE DEF T
  <2>2. out[s] \o x \in Seq(T)
    BY <2>1
  <2> QED
    BY <2>2 DEF T
<1>2. out \in [Sources -> Q]
  OBVIOUS
<1> HIDE DEF Q
<1>3. out' \in [Sources -> Q] /\ out'[s] = out[s] \o x /\ \A r \in Sources \ {s} : out'[r] = out[r]
  BY <1>1, <1>2
<1> QED
  BY <1>3 DEF Q

LEMMA GeyserKeeps ==
    ASSUME SourcesInv, GeyserSource PROVE SourcesInv'
<1>0. ChainOK /\ SourceVarsOK /\ Walked(walk, out["historical"])
  BY DEF SourcesInv
<1>1. chain' = chain /\ walk' = walk /\ replay' = replay /\ ended' = ended
  BY DEF GeyserSource, GeyserStart, GeyserStop, GeyserUpdate
<1>2. live' \in LiveStates /\ out' \in [Sources -> Seq(Ours)] /\ out'["historical"] = out["historical"]
  <2>1. CASE GeyserStart \/ GeyserStop
    BY <1>0, <2>1 DEF GeyserStart, GeyserStop, SourceVarsOK, LiveStates
  <2>2. ASSUME NEW slot \in Slots, GeyserUpdate(slot)
        PROVE  /\ live' \in LiveStates /\ out' \in [Sources -> Seq(Ours)]
               /\ out'["historical"] = out["historical"]
    <3>1. live' \in LiveStates
      BY <1>0, <2>2, SourceAssumption DEF GeyserUpdate, SourceVarsOK, LiveStates, Slots
    <3>2. signals(slot) \in Seq(Ours)
      <4>1. Sig(slot) = signals(slot)
        BY <2>2 DEF GeyserUpdate, Sig
      <4> QED
        BY <1>0, <4>1, SignalsAreOurs
    <3>3. out' = [out EXCEPT !["geyser"] = @ \o signals(slot)]
      BY <2>2 DEF GeyserUpdate
    <3>4. "geyser" \in Sources /\ "historical" \in Sources \ {"geyser"}
      BY DEF Sources
    <3>5. out \in [Sources -> Seq(Ours)]
      BY <1>0 DEF SourceVarsOK
    <3> QED
      BY <3>1, <3>2, <3>3, <3>4, <3>5, Emits
  <2> QED
    BY <2>1, <2>2 DEF GeyserSource
<1>3. ChainOK' /\ Ours' = Ours /\ Walked(walk, out["historical"])'
  <2>1. ChainOK' /\ Ours' = Ours /\ \A w, t : Walked(w, t)' <=> Walked(w, t)
    BY <1>0, <1>1, ChainStays
  <2>2. Walked(walk', out'["historical"])
    BY <1>0, <1>1, <1>2
  <2> QED
    BY <2>1, <2>2
<1>4. SourceVarsOK'
  BY <1>0, <1>1, <1>2, <1>3 DEF SourceVarsOK
<1> QED
  BY <1>3, <1>4 DEF SourcesInv

LEMMA HistoricalKeeps ==
    ASSUME SourcesInv, HistoricalSource PROVE SourcesInv'
<1> DEFINE told == out["historical"]
           c == walk.cursor
<1>0. /\ ChainOK /\ SourceVarsOK /\ Walked(walk, told) /\ walk \in WalkStates
      /\ out \in [Sources -> Seq(Ours)] /\ ended \in [Sources -> 0..1]
      /\ walk.at # "done" => ended["historical"] = 0
  BY DEF SourcesInv, SourceVarsOK, Walked
<1>1. chain' = chain /\ live' = live /\ replay' = replay
  BY DEF HistoricalSource, HistoricalStart, GetBlocks, GetBlock, HistoricalThrows, HistoricalStop
<1>s. "historical" \in Sources /\ "fixture" \in Sources
  BY DEF Sources
<1>2. ASSUME /\ out' \in [Sources -> Seq(Ours)] /\ Walked(walk', out'["historical"])
             /\ ended' \in [Sources -> 0..1] /\ ended'["fixture"] = ended["fixture"]
             /\ walk'.at # "done" => ended'["historical"] = 0
      PROVE  SourcesInv'
  <2>1. ChainOK' /\ Ours' = Ours /\ \A w, t : Walked(w, t)' <=> Walked(w, t)
    BY <1>0, <1>1, ChainStays
  <2>2. Walked(walk, out["historical"])'
    BY <1>2, <2>1
  <2>3. SourceVarsOK'
    BY <1>0, <1>1, <1>2, <2>1 DEF SourceVarsOK
  <2> QED
    BY <2>1, <2>2, <2>3 DEF SourcesInv
<1>3. CASE HistoricalStart
  <2>1. told = <<>> /\ walk.at = "idle" /\ out' = out /\ NextBatch(1, walk.aborted)
        /\ told = UpTo(0) /\ 0 \in 0..MaxSlot
    BY <1>0, <1>3, UpToGrows, SourceAssumption DEF HistoricalStart, Walked
  <2>2. CASE walk.aborted
    <3>1. walk' = [walk EXCEPT !.at = "done", !.cursor = 1]
          /\ ended' = [ended EXCEPT !["historical"] = @ + 1]
      BY <2>1, <2>2 DEF NextBatch
    <3>2. walk' \in WalkStates /\ walk'.at = "done" /\ walk'.aborted
      <4>1. 1 \in Nat \ {0}
        OBVIOUS
      <4> QED
        BY <1>0, <2>2, <3>1, <4>1, WalkMoves
    <3>3. Walked(walk', told)
      BY <2>1, <3>2, Zenon DEF Walked
    <3> QED
      BY <1>0, <1>2, <1>s, <2>1, <3>1, <3>2, <3>3
  <2>3. CASE ~walk.aborted
    <3>1. walk' = [walk EXCEPT !.at = "batch", !.cursor = 1] /\ ended' = ended
      BY <2>1, <2>3, SourceAssumption DEF NextBatch
    <3>2. walk' \in WalkStates /\ walk'.at = "batch" /\ walk'.cursor = 1 /\ 1 \in Slots
      <4>1. 1 \in Nat \ {0} /\ 1 \in Slots
        BY SourceAssumption DEF Slots
      <4> QED
        BY <1>0, <3>1, <4>1, WalkMoves
    <3>3. told = UpTo(1 - 1)
      BY <2>1
    <3>4. Walked(walk', told)
      BY <3>2, <3>3, Zenon DEF Walked
    <3> QED
      BY <1>0, <1>2, <2>1, <3>1, <3>2, <3>4
  <2> QED
    BY <2>2, <2>3
<1>4. CASE GetBlocks
  <2> DEFINE to == ChunkEnd(c)
             slots == Only([k \in 1..(chunkTo - walk.cursor + 1) |-> walk.cursor + k - 1],
                           {slot \in Slots : HasBlock(slot)})
  <2>1. walk.at = "batch" /\ c \in Slots /\ told = UpTo(c - 1) /\ out' = out
    BY <1>0, <1>4 DEF GetBlocks, Walked
  <2>2. to \in Slots /\ c <= to /\ chunkTo = to
    BY <2>1, ChunkIs DEF chunkTo, ChunkEnd
  <2>3. slots = Only([k \in 1..(to - c + 1) |-> c + k - 1], {slot \in Slots : HasBlock(slot)})
    BY <2>2, Zenon
  <2>4. IF slots = <<>> \/ walk.aborted
        THEN NextBatch(walk.cursor + BatchSize, walk.aborted)
        ELSE walk' = [walk EXCEPT !.at = "blocks", !.slots = slots] /\ UNCHANGED ended
    BY <1>4, Zenon DEF GetBlocks
  <2> HIDE DEF slots
  <2>5. /\ slots \in Seq(Slots)
        /\ slots = <<>> => \A s \in c..to : ~HasBlock(s)
        /\ slots # <<>> => /\ Rest(slots, to) /\ Head(slots) \in c..to
                           /\ \A s \in c..(Head(slots) - 1) : ~HasBlock(s)
    BY <2>1, <2>2, <2>3, BlocksOfTheBatch
  <2> HIDE DEF to
  <2>6. c - 1 \in 0..MaxSlot /\ c - 1 <= to /\ to \in 0..MaxSlot /\ (c - 1) + 1 = c /\ c \in Nat
    BY <2>1, <2>2, SourceAssumption DEF Slots
  <2>7. CASE slots = <<>> \/ walk.aborted
    <3>1. ~walk.aborted => UpTo(c - 1) = UpTo(to)
      BY <1>0, <2>5, <2>6, <2>7, SkippedAddNothing
    <3>2. PICK h \in 0..MaxSlot : told = UpTo(h) /\ (~walk.aborted => h = to)
      BY <2>1, <2>6, <3>1
    <3>3. NextBatch(c + BatchSize, walk.aborted)
      BY <2>4, <2>7
    <3>4. /\ Walked(walk', told)
          /\ ended' \in [Sources -> 0..1] /\ ended'["fixture"] = ended["fixture"]
          /\ walk'.at # "done" => ended'["historical"] = 0
      BY <1>0, <2>1, <3>2, <3>3, BatchEnds DEF to
    <3> QED
      BY <1>0, <1>2, <2>1, <3>4
  <2>8. CASE slots # <<>> /\ ~walk.aborted
    <3>1. walk' = [walk EXCEPT !.at = "blocks", !.slots = slots] /\ ended' = ended
      BY <2>4, <2>8
    <3>2. walk' \in WalkStates /\ walk'.at = "blocks" /\ walk'.cursor = c /\ walk'.slots = slots
      BY <1>0, <2>5, <3>1 DEF WalkStates
    <3>3. Head(slots) - 1 \in 0..MaxSlot /\ c - 1 <= Head(slots) - 1
      <4> DEFINE a == Head(slots)
                 b == c
      <4>1. a \in b..to /\ b \in Nat \ {0} /\ to \in Nat /\ to <= MaxSlot /\ MaxSlot \in Nat
        BY <2>1, <2>2, <2>5, <2>8, SourceAssumption DEF Slots
      <4> HIDE DEF a, b
      <4>2. a - 1 \in 0..MaxSlot /\ b - 1 <= a - 1
        BY <4>1
      <4> QED
        BY <4>2 DEF a, b
    <3>4. told = UpTo(Head(slots) - 1)
      <4> DEFINE lo == c - 1
                 hi == Head(slots) - 1
      <4>1. \A s \in (lo + 1)..hi : ~HasBlock(s)
        BY <2>5, <2>6, <2>8
      <4>2. lo \in 0..MaxSlot /\ hi \in 0..MaxSlot /\ lo <= hi
        BY <2>6, <3>3
      <4>3. told = UpTo(lo)
        BY <2>1
      <4> HIDE DEF lo, hi
      <4>4. UpTo(lo) = UpTo(hi)
        BY <1>0, <4>1, <4>2, SkippedAddNothing
      <4> QED
        BY <4>3, <4>4, Zenon DEF hi
    <3>5. Walked(walk', told)
      BY <2>1, <2>5, <2>8, <3>2, <3>4, Zenon DEF Walked, to
    <3> QED
      BY <1>0, <1>2, <2>1, <3>1, <3>2, <3>5
  <2> QED
    BY <2>7, <2>8
<1>5. CASE GetBlock
  <2> DEFINE to == ChunkEnd(c)
             slots == walk.slots
             a == Head(slots)
  <2>1. walk.at = "blocks" /\ c \in Slots /\ Rest(slots, to) /\ told = UpTo(a - 1)
    BY <1>0, <1>5 DEF GetBlock, Walked
  <2>2. to \in Slots
    BY <2>1, ChunkIs
  <2>3. out' = [out EXCEPT !["historical"] = @ \o signals(a)]
    BY <1>5 DEF GetBlock
  <2>4. IF Len(slots) = 1 \/ walk.aborted
        THEN NextBatch(c + BatchSize, walk.aborted)
        ELSE walk' = [walk EXCEPT !.slots = Tail(slots)] /\ ended' = ended
    BY <1>5, Zenon DEF GetBlock
  <2> HIDE DEF to
  <2>5. LET said == UpTo(a - 1) \o signals(a) IN
        /\ a \in Slots /\ said = UpTo(a)
        /\ Len(slots) = 1 => said = UpTo(to)
        /\ Len(slots) # 1 => Rest(Tail(slots), to) /\ said = UpTo(Head(Tail(slots)) - 1)
    BY <1>0, <2>1, <2>2, RestOfTheRest
  <2>6. HasBlock(a)
    <3>1. slots \in Seq(Slots) /\ slots # <<>> /\ \A i \in DOMAIN slots : HasBlock(slots[i])
      BY <2>1 DEF Rest
    <3>2. 1 \in DOMAIN slots /\ a = slots[1]
      BY <3>1
    <3> QED
      BY <3>1, <3>2, Zenon
  <2>7. signals(a) \in Seq(Ours)
    <3>1. Sig(a) = signals(a)
      BY <2>6 DEF Sig
    <3> QED
      BY <1>0, <2>5, <3>1, SignalsAreOurs
  <2>8. out' \in [Sources -> Seq(Ours)] /\ out'["historical"] = told \o signals(a)
    BY <1>0, <1>s, <2>3, <2>7, Emits
  <2> DEFINE said == out'["historical"]
  <2>9. /\ said = UpTo(a)
        /\ Len(slots) = 1 => said = UpTo(to)
        /\ Len(slots) # 1 => Rest(Tail(slots), to) /\ said = UpTo(Head(Tail(slots)) - 1)
    BY <2>1, <2>5, <2>8
  <2> HIDE DEF said
  <2>10. CASE Len(slots) = 1 \/ walk.aborted
    <3>1. a \in 0..MaxSlot /\ to \in 0..MaxSlot
      BY <2>2, <2>5 DEF Slots
    <3>2. PICK h \in 0..MaxSlot : said = UpTo(h) /\ (~walk.aborted => h = to)
      BY <2>9, <2>10, <3>1
    <3>3. NextBatch(c + BatchSize, walk.aborted)
      BY <2>4, <2>10
    <3>4. /\ Walked(walk', said)
          /\ ended' \in [Sources -> 0..1] /\ ended'["fixture"] = ended["fixture"]
          /\ walk'.at # "done" => ended'["historical"] = 0
      BY <1>0, <2>1, <3>2, <3>3, BatchEnds DEF to
    <3> QED
      BY <1>2, <2>8, <3>4 DEF said
  <2>11. CASE Len(slots) # 1 /\ ~walk.aborted
    <3>1. walk' = [walk EXCEPT !.slots = Tail(slots)] /\ ended' = ended
      BY <2>4, <2>11
    <3>2. Tail(slots) \in Seq(Slots)
      BY <2>9, <2>11 DEF Rest
    <3>3. walk' \in WalkStates /\ walk'.at = "blocks" /\ walk'.cursor = c /\ walk'.slots = Tail(slots)
      BY <1>0, <2>1, <3>1, <3>2 DEF WalkStates
    <3>4. Walked(walk', said)
      BY <2>1, <2>9, <2>11, <3>3, Zenon DEF Walked, to
    <3> QED
      BY <1>0, <1>2, <2>1, <2>8, <3>1, <3>3, <3>4 DEF said
  <2> QED
    BY <2>10, <2>11
<1>6. CASE HistoricalThrows
  <2>1. walk.at \in {"batch", "blocks"} /\ c \in Slots /\ out' = out
        /\ walk' = [walk EXCEPT !.at = "done"]
        /\ ended' = [ended EXCEPT !["historical"] = @ + 1]
    BY <1>0, <1>6 DEF HistoricalThrows, Walked
  <2>2. walk' \in WalkStates /\ walk'.at = "done" /\ walk'.cursor = c
    BY <1>0, <2>1 DEF WalkStates
  <2>3. ~(c > MaxSlot) /\ c - 1 \in 0..MaxSlot
    BY <2>1, SourceAssumption DEF Slots
  <2>4. \E h \in 0..MaxSlot : told = UpTo(h)
    <3>1. CASE walk.at = "batch"
      BY <1>0, <2>3, <3>1, Zenon DEF Walked
    <3>2. CASE walk.at = "blocks"
      <4>1. Rest(walk.slots, ChunkEnd(c)) /\ told = UpTo(Head(walk.slots) - 1)
        BY <1>0, <3>2, Zenon DEF Walked
      <4>2. Head(walk.slots) \in Slots
        BY <1>0, <2>1, <4>1, RestOfTheRest, ChunkIs
      <4>3. Head(walk.slots) - 1 \in 0..MaxSlot
        BY <4>2, SourceAssumption DEF Slots
      <4> QED
        BY <4>1, <4>3
    <3> QED
      BY <2>1, <3>1, <3>2
  <2>5. Walked(walk', told)
    BY <2>2, <2>3, <2>4, Zenon DEF Walked
  <2> QED
    BY <1>0, <1>2, <1>s, <2>1, <2>2, <2>5
<1>7. CASE HistoricalStop
  <2>1. walk' = [walk EXCEPT !.aborted = TRUE] /\ out' = out /\ ended' = ended
    BY <1>7 DEF HistoricalStop
  <2>2. walk' \in WalkStates /\ walk'.at = walk.at /\ walk'.cursor = c /\ walk'.slots = walk.slots
        /\ walk'.aborted
    BY <1>0, <2>1 DEF WalkStates
  <2>3. Walked(walk', told)
    BY <1>0, <2>2, Zenon DEF Walked
  <2> QED
    BY <1>0, <1>2, <2>1, <2>2, <2>3
<1> QED
  BY <1>3, <1>4, <1>5, <1>6, <1>7 DEF HistoricalSource

LEMMA FixtureKeeps ==
    ASSUME SourcesInv, FixtureSource PROVE SourcesInv'
<1>0. ChainOK /\ SourceVarsOK /\ Walked(walk, out["historical"])
  BY DEF SourcesInv
<1>1. chain' = chain /\ walk' = walk /\ live' = live
  BY DEF FixtureSource, FixtureStart, FixtureLine, FixtureReadAll, FixtureEnd, FixtureThrows,
         FixtureFails, FixtureStop
<1>2. replay' \in ReplayStates
  <2>1. replay \in ReplayStates
    BY <1>0 DEF SourceVarsOK
  <2>2. CASE FixtureStart \/ FixtureLine \/ FixtureReadAll \/ FixtureFails
    BY <2>1, <2>2 DEF FixtureStart, FixtureLine, FixtureReadAll, FixtureFails, ReplayStates
  <2>3. CASE FixtureStop \/ FixtureEnd \/ FixtureThrows
    BY <2>1, <2>3 DEF FixtureStop, FixtureEnd, FixtureThrows, ReplayStates
  <2> QED
    BY <2>2, <2>3 DEF FixtureSource
<1>3. /\ ended' \in [Sources -> 0..1] /\ ended'["historical"] = ended["historical"]
      /\ replay'.at # "done" => ended'["fixture"] = 0
  <2>1. /\ ended \in [Sources -> 0..1] /\ replay \in ReplayStates
        /\ replay.at # "done" => ended["fixture"] = 0
    BY <1>0 DEF SourceVarsOK
  <2>2. CASE FixtureStart \/ FixtureLine \/ FixtureReadAll \/ FixtureFails \/ FixtureStop
    <3>1. ended' = ended /\ (replay.at = "done" => replay'.at = "done")
      BY <2>1, <2>2 DEF FixtureStart, FixtureLine, FixtureReadAll, FixtureFails, FixtureStop,
                         ReplayStates
    <3> QED
      BY <2>1, <3>1
  <2>3. CASE FixtureEnd \/ FixtureThrows
    <3>1. replay.at # "done" /\ ended' = [ended EXCEPT !["fixture"] = @ + 1] /\ replay'.at = "done"
      BY <2>1, <2>3 DEF FixtureEnd, FixtureThrows, ReplayStates
    <3> QED
      BY <2>1, <3>1 DEF Sources
  <2> QED
    BY <2>2, <2>3 DEF FixtureSource
<1>4. out' \in [Sources -> Seq(Ours)] /\ out'["historical"] = out["historical"]
  <2>1. CASE FixtureLine
    <3> DEFINE T == Ours
               x == Lines[replay.line]
    <3>1. Lines \in Seq(T)
      BY <1>0, LinesAreAll
    <3>2. replay.line \in Nat \ {0} /\ ~(replay.line > Len(Lines))
      BY <1>0, <2>1 DEF FixtureLine, StopsReading, SourceVarsOK, ReplayStates
    <3>3. out \in [Sources -> Seq(T)] /\ out' = [out EXCEPT !["fixture"] = Append(@, x)]
      BY <1>0, <2>1 DEF FixtureLine, SourceVarsOK
    <3> HIDE DEF T
    <3>4. x \in T
      BY <3>1, <3>2
    <3> HIDE DEF x
    <3>5. Append(out["fixture"], x) \in Seq(T)
      BY <3>3, <3>4 DEF Sources
    <3> QED
      BY <3>3, <3>5 DEF T, Sources
  <2>2. CASE ~FixtureLine
    <3>1. out' = out
      BY <2>2 DEF FixtureSource, FixtureStart, FixtureReadAll, FixtureEnd, FixtureThrows,
         FixtureFails, FixtureStop
    <3> QED
      BY <1>0, <3>1 DEF SourceVarsOK
  <2> QED
    BY <2>1, <2>2
<1>5. ChainOK' /\ Ours' = Ours /\ Walked(walk, out["historical"])'
  <2>1. ChainOK' /\ Ours' = Ours /\ \A w, t : Walked(w, t)' <=> Walked(w, t)
    BY <1>0, <1>1, ChainStays
  <2>2. Walked(walk', out'["historical"])
    BY <1>0, <1>1, <1>4
  <2> QED
    BY <2>1, <2>2
<1>6. SourceVarsOK'
  BY <1>0, <1>1, <1>2, <1>3, <1>4, <1>5 DEF SourceVarsOK
<1> QED
  BY <1>5, <1>6 DEF SourcesInv

LEMMA SourcesInitInv == SourcesInit => SourcesInv
<1> SUFFICES ASSUME SourcesInit PROVE SourcesInv
  OBVIOUS
<1> DEFINE T == Ours
           S == Slots
<1>1. <<>> \in Seq(T) /\ <<>> \in Seq(S)
  <2> HIDE DEF T, S
  <2> QED
    OBVIOUS
<1>2. SourceVarsOK
  BY <1>1, SourceAssumption DEF SourcesInit, SourceVarsOK, LiveStates, ReplayStates, Sources
<1>3. Walked(walk, out["historical"])
  BY <1>1 DEF SourcesInit, Walked, WalkStates, Sources
<1> QED
  BY <1>2, <1>3 DEF SourcesInit, SourcesInv, ChainOK

LEMMA SourcesStep == SourcesInv /\ [SourcesNext]_sourceVars => SourcesInv'
<1> SUFFICES ASSUME SourcesInv, [SourcesNext]_sourceVars PROVE SourcesInv'
  OBVIOUS
<1>1. CASE UNCHANGED sourceVars
  <2>0. chain' = chain /\ walk' = walk /\ live' = live /\ replay' = replay /\ out' = out /\ ended' = ended
    BY <1>1 DEF sourceVars
  <2>1. ChainOK' /\ Ours' = Ours /\ \A w, t : Walked(w, t)' <=> Walked(w, t)
    BY <2>0, ChainStays DEF SourcesInv
  <2>2. Walked(walk', out'["historical"])
    BY <2>0 DEF SourcesInv
  <2>3. Walked(walk, out["historical"])'
    BY <2>1, <2>2
  <2>4. SourceVarsOK'
    BY <2>0, <2>1 DEF SourcesInv, SourceVarsOK
  <2> QED
    BY <2>1, <2>3, <2>4 DEF SourcesInv
<1> QED
  BY <1>1, GeyserKeeps, HistoricalKeeps, FixtureKeeps DEF SourcesNext

LEMMA SourcesInvIsSafe == SourcesInv => SourcesTypeOK /\ SameEventSameId /\ WalkIsComplete
<1> SUFFICES ASSUME SourcesInv PROVE SourcesTypeOK /\ SameEventSameId /\ WalkIsComplete
  OBVIOUS
<1>0. ChainOK /\ SourceVarsOK /\ Walked(walk, out["historical"]) /\ walk \in WalkStates
  BY DEF SourcesInv, Walked
<1>1. SourcesTypeOK
  <2>1. ToSet(walk.slots) \subseteq Slots
    <3>1. walk.slots \in Seq(Slots)
      BY <1>0 DEF WalkStates
    <3>2. \A i \in DOMAIN walk.slots : walk.slots[i] \in Slots
      BY <3>1
    <3> QED
      BY <3>2, Zenon DEF ToSet
  <2> QED
    BY <1>0, <2>1 DEF SourcesTypeOK, SourceVarsOK, ChainOK, LiveStates, ReplayStates, WalkStates
<1>2. SameEventSameId
  <2> SUFFICES ASSUME NEW s \in Sources, NEW n \in ToSet(out[s])
               PROVE  n[2] \in DOMAIN chain[n[1]] /\ chain[n[1]][n[2]] = "ours"
    BY DEF SameEventSameId
  <2>1. out[s] \in Seq(Ours)
    BY <1>0 DEF SourceVarsOK
  <2>2. \A i \in DOMAIN out[s] : out[s][i] \in Ours
    BY <2>1
  <2>3. n \in Ours
    BY <2>2, Zenon DEF ToSet
  <2>4. PICK slot \in Slots : n \in OursOf(slot)
    BY <2>3, Zenon DEF Ours
  <2>5. n \in {slot} \X DOMAIN chain[slot] /\ chain[slot][n[2]] = "ours"
    BY <2>4, Zenon DEF OursOf
  <2>6. n[1] = slot /\ n[2] \in DOMAIN chain[slot]
    BY <2>5
  <2> QED
    BY <2>5, <2>6, Zenon
<1>3. WalkIsComplete
  <2>1. Lines = UpTo(MaxSlot) /\ \A h \in 0..MaxSlot : IsPrefix(UpTo(h), Lines)
    BY <1>0, LinesAreAll, UpToArePrefixes
  <2>2. \E h \in 0..MaxSlot : out["historical"] = UpTo(h)
    <3>1. CASE walk.at = "idle"
      <4>1. 0 \in 0..MaxSlot /\ UpTo(0) = <<>>
        BY <1>0, UpToGrows, SourceAssumption
      <4> QED
        BY <1>0, <3>1, <4>1, Zenon DEF Walked
    <3>2. CASE walk.at = "batch"
      <4>1. walk.cursor - 1 \in 0..MaxSlot
        BY <1>0, <3>2, SourceAssumption DEF Walked, Slots
      <4> QED
        BY <1>0, <3>2, <4>1, Zenon DEF Walked
    <3>3. CASE walk.at = "blocks"
      <4>1. Rest(walk.slots, ChunkEnd(walk.cursor)) /\ walk.cursor \in Slots
            /\ out["historical"] = UpTo(Head(walk.slots) - 1)
        BY <1>0, <3>3, Zenon DEF Walked
      <4>2. Head(walk.slots) \in Slots
        BY <1>0, <4>1, RestOfTheRest, ChunkIs
      <4>3. Head(walk.slots) - 1 \in 0..MaxSlot
        BY <4>2, SourceAssumption DEF Slots
      <4> QED
        BY <4>1, <4>3
    <3>4. CASE walk.at = "done"
      BY <1>0, <3>4, Zenon DEF Walked
    <3> QED
      BY <1>0, <3>1, <3>2, <3>3, <3>4 DEF WalkStates
  <2>3. walk.at = "done" /\ walk.cursor > MaxSlot /\ ~walk.aborted => out["historical"] = UpTo(MaxSlot)
    BY <1>0, Zenon DEF Walked
  <2> QED
    BY <2>1, <2>2, <2>3, Zenon DEF WalkIsComplete
<1> QED
  BY <1>1, <1>2, <1>3

(* The three sources (sources/geyser.ts, historical.ts, fixture.ts), for   *)
(* any chain, range and batch size: live losses are reported, whatever a   *)
(* source emits is named after a matching event by its position, and what  *)
(* the walk has emitted is at every moment a prefix of the range's events, *)
(* over batch boundaries, skipped slots, aborts and failed calls.          *)
THEOREM SourcesAreSafe == SourcesSpec => []SourcesSafe
<1>1. SourcesInit => SourcesInv
  BY SourcesInitInv
<1>2. SourcesInv /\ [SourcesNext]_sourceVars => SourcesInv'
  BY SourcesStep
<1>3. SourcesInv /\ LossIsReported => SourcesSafe
  BY SourcesInvIsSafe DEF SourcesSafe
<1>4. SourcesSpec => []LossIsReported
  BY LossesAreReported
<1> QED
  BY <1>1, <1>2, <1>3, <1>4, PTL DEF SourcesSpec
=============================================================================
