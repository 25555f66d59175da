--------------------------- MODULE SequenceLemmas ---------------------------
(***************************************************************************)
(* Facts about sequences that several components' proofs share: induction  *)
(* over the naturals on a set, functions defined by iteration, and what    *)
(* FlattenSeq, Only and a loop over a sequence return: the model's         *)
(* flatMap(), filter() and for-of with an accumulator.                     *)
(***************************************************************************)
EXTENDS Selection, Integers, WellFoundedInduction, NaturalsInduction, TLAPS

-----------------------------------------------------------------------------
(* Induction, stated of a set so that it needs no operator parameter.      *)

LEMMA InductionOnSet ==
    ASSUME NEW S, 0 \in S, \A n \in Nat : n \in S => n + 1 \in S
    PROVE  \A n \in Nat : n \in S
<1> DEFINE R == OpToRel(<, Nat)
           Out == {n \in Nat : n \notin S}
<1>1. IsWellFoundedOn(R, Nat)
  BY NatLessThanWellFounded, Zenon
<1>2. \A m, n \in Nat : m < n => <<m, n>> \in R
  BY Zenon DEF OpToRel
<1> HIDE DEF R
<1> SUFFICES ASSUME Out # {} PROVE FALSE
  BY Zenon
<1>3. PICK n \in Out : \A m \in Out : ~(<<m, n>> \in R)
  BY <1>1, WFMin, Zenon
<1>4. n # 0 /\ n \in Nat /\ n - 1 \in Nat /\ n - 1 < n
  BY <1>3
<1>5. n - 1 \notin Out
  BY <1>2, <1>3, <1>4, Zenon
<1>6. n \in S
  BY <1>4, <1>5
<1> QED
  BY <1>3, <1>6

(* A function whose value at k is made from the one at k - 1.              *)
Iterated(g, n, a, F) == g = [k \in 0..n |-> IF k = 0 THEN a ELSE F[<<g[k - 1], k>>]]

LEMMA Iterates ==
    ASSUME NEW A, NEW a \in A, NEW N \in Nat, NEW F,
           \A x \in A, k \in 1..N : F[<<x, k>>] \in A
    PROVE  \E g \in [0..N -> A] : Iterated(g, N, a, F)
<1> DEFINE S == {n \in Nat : n <= N => \E g \in [0..n -> A] : Iterated(g, n, a, F)}
<1>1. 0 \in S
  <2>1. [k \in 0..0 |-> a] \in [0..0 -> A] /\ Iterated([k \in 0..0 |-> a], 0, a, F)
    BY DEF Iterated
  <2> QED
    BY <2>1
<1>2. ASSUME NEW n \in Nat, n \in S, n + 1 <= N PROVE n + 1 \in S
  <2>1. PICK g \in [0..n -> A] : Iterated(g, n, a, F)
    BY <1>2
  <2> DEFINE h == [k \in 0..(n + 1) |-> IF k = n + 1 THEN F[<<g[n], n + 1>>] ELSE g[k]]
  <2>2. h \in [0..(n + 1) -> A]
    BY <1>2
  <2>6. \A k \in 0..n : g[k] = IF k = 0 THEN a ELSE F[<<g[k - 1], k>>]
    BY <2>1, Zenon DEF Iterated
  <2>3. \A k \in 0..(n + 1) : h[k] = IF k = 0 THEN a ELSE F[<<h[k - 1], k>>]
    <3> TAKE k \in 0..(n + 1)
    <3>1. CASE k = n + 1
      BY <3>1
    <3>2. CASE k # n + 1
      <4>1. k \in 0..n /\ h[k] = g[k]
        BY <3>2
      <4>2. k # 0 => k - 1 \in 0..(n + 1) /\ k - 1 # n + 1
        BY <4>1
      <4> QED
        BY <2>6, <4>1, <4>2, Zenon
    <3> QED
      BY <3>1, <3>2
  <2>4. h = [k \in 0..(n + 1) |-> h[k]]
    BY Zenon
  <2> HIDE DEF h
  <2>5. Iterated(h, n + 1, a, F)
    BY <2>3, <2>4, Zenon DEF Iterated
  <2> QED
    BY <1>2, <2>2, <2>5
<1>3. \A n \in Nat : n \in S
  <2>1. ASSUME NEW n \in Nat, n \in S PROVE n + 1 \in S
    <3>1. CASE n + 1 <= N
      BY <1>2, <2>1, <3>1, Zenon
    <3>2. CASE ~(n + 1 <= N)
      BY <3>2
    <3> QED
      BY <3>1, <3>2
  <2> HIDE DEF S
  <2> QED
    BY <1>1, <2>1, InductionOnSet, Zenon
<1> QED
  BY <1>3

-----------------------------------------------------------------------------
(* FlattenSeq: the flattening of a sequence of sequences, one by one.      *)

Flattening(g, n, s) == g = [k \in 0..n |-> IF k = 0 THEN <<>> ELSE g[k - 1] \o s[k]]
FlattenedFromFirst(f, n, s) == f = [k \in 1..n |-> IF k = 1 THEN s[k] ELSE f[k - 1] \o s[k]]

LEMMA ConcatenationIterates ==
    ASSUME NEW A, <<>> \in A, \A x, y \in A : x \o y \in A, \A y \in A : <<>> \o y = y,
           NEW n \in Nat, NEW s, \A k \in 1..n : s[k] \in A
    PROVE  \E g \in [0..n -> A] : Flattening(g, n, s)
<1> DEFINE F == [p \in A \X (1..n) |-> p[1] \o s[p[2]]]
<1>1. \A x \in A, k \in 1..n : F[<<x, k>>] = x \o s[k]
  <2>1. \A x \in A, k \in 1..n : <<x, k>> \in A \X (1..n)
    BY Zenon
  <2> QED
    BY <2>1
<1>2. \A x \in A, k \in 1..n : F[<<x, k>>] \in A
  BY <1>1, Zenon
<1> HIDE DEF F
<1>3. PICK g \in [0..n -> A] : Iterated(g, n, <<>>, F)
  BY <1>2, Iterates, Zenon
<1>4. \A k \in 0..n : g[k] = IF k = 0 THEN <<>> ELSE F[<<g[k - 1], k>>]
  BY <1>3, Zenon DEF Iterated
<1>5. \A k \in 0..n : k # 0 => k \in 1..n /\ k - 1 \in 0..n
  OBVIOUS
<1>6. \A k \in 0..n : g[k] = IF k = 0 THEN <<>> ELSE g[k - 1] \o s[k]
  BY <1>1, <1>4, <1>5, Zenon
<1>7. g = [k \in 0..n |-> g[k]]
  BY Zenon
<1> QED
  BY <1>6, <1>7, Zenon DEF Flattening

(* Starting with the first sequence or with the empty one is the same.     *)
LEMMA SameFlattening ==
    ASSUME NEW A, <<>> \in A, \A y \in A : <<>> \o y = y,
           NEW n \in Nat \ {0}, NEW s, \A k \in 1..n : s[k] \in A,
           NEW g, Flattening(g, n, s),
           NEW f, FlattenedFromFirst(f, n, s)
    PROVE  \A k \in 1..n : f[k] = g[k]
<1> DEFINE S == {k \in Nat : k \in 1..n => f[k] = g[k]}
<1>1. \A k \in 0..n : g[k] = IF k = 0 THEN <<>> ELSE g[k - 1] \o s[k]
  BY Zenon DEF Flattening
<1>2. \A k \in 1..n : f[k] = IF k = 1 THEN s[k] ELSE f[k - 1] \o s[k]
  BY Zenon DEF FlattenedFromFirst
<1>3. 0 \in S
  OBVIOUS
<1>4. ASSUME NEW k \in Nat, k \in S PROVE k + 1 \in S
  <2> SUFFICES ASSUME NEW j \in 1..n, j = k + 1 PROVE f[j] = g[j]
    OBVIOUS
  <2>0. j \in 0..n /\ j # 0 /\ j - 1 = k
    OBVIOUS
  <2>1. g[j] = g[k] \o s[j]
    BY <1>1, <2>0, Zenon
  <2>2. CASE k = 0
    <3>1. 0 \in 0..n /\ j = 1
      BY <2>0, <2>2
    <3>2. g[k] = <<>> /\ s[j] \in A
      BY <1>1, <2>2, <3>1, Zenon
    <3>3. f[j] = s[j]
      BY <1>2, <3>1, Zenon
    <3>4. g[j] = <<>> \o s[j]
      BY <2>1, <3>2, Zenon
    <3> QED
      BY <3>2, <3>3, <3>4, Zenon
  <2>3. CASE k # 0
    <3>1. k \in 1..n /\ j # 1
      BY <2>3
    <3>2. f[k] = g[k]
      BY <1>4, <3>1, Zenon
    <3>3. f[j] = f[k] \o s[j]
      BY <1>2, <2>0, <3>1, Zenon
    <3> QED
      BY <2>1, <3>2, <3>3, Zenon
  <2> QED
    BY <2>2, <2>3
<1>5. \A k \in Nat : k \in S
  <2> HIDE DEF S
  <2> QED
    BY <1>3, <1>4, InductionOnSet, Zenon
<1>6. \A k \in 1..n : k \in Nat
  OBVIOUS
<1> QED
  BY <1>5, <1>6, Zenon

LEMMA FlatteningExists ==
    ASSUME NEW T, NEW s \in Seq(Seq(T))
    PROVE  \E g \in [0..Len(s) -> Seq(T)] :
              Flattening(g, Len(s), s) /\ FlattenSeq(s) = g[Len(s)]
<1> DEFINE n == Len(s)
           A == Seq(T)
<1>1. /\ n \in Nat /\ \A k \in 1..n : s[k] \in A
      /\ <<>> \in A /\ \A x, y \in A : x \o y \in A
      /\ \A y \in A : <<>> \o y = y
  OBVIOUS
<1> HIDE DEF n, A
<1>2. PICK g \in [0..n -> A] : Flattening(g, n, s)
  <2>1. n \in Nat
    BY <1>1, Zenon
  <2>2. <<>> \in A /\ (\A x, y \in A : x \o y \in A) /\ (\A y \in A : <<>> \o y = y)
    BY <1>1, Zenon
  <2>3. \A k \in 1..n : s[k] \in A
    BY <1>1, Zenon
  <2> QED
    BY <2>1, <2>2, <2>3, ConcatenationIterates
<1>3. FlattenSeq(s) = g[n]
  <2>1. CASE n = 0
    <3>1. s = <<>>
      BY <2>1 DEF n
    <3>2. g[0] = <<>>
      BY <1>1, <1>2 DEF Flattening
    <3> QED
      BY <2>1, <3>1, <3>2 DEF FlattenSeq
  <2>2. CASE n # 0
    <3> DEFINE h == [k \in 1..n |-> g[k]]
    <3>1. \A k \in 0..n : g[k] = IF k = 0 THEN <<>> ELSE g[k - 1] \o s[k]
      BY <1>2, Zenon DEF Flattening
    <3>2. ASSUME NEW k \in 1..n PROVE h[k] = IF k = 1 THEN s[k] ELSE h[k - 1] \o s[k]
      <4>1. g[k] = g[k - 1] \o s[k] /\ g[0] = <<>>
        <5>1. k \in 0..n /\ k # 0 /\ 0 \in 0..n
          BY <1>1
        <5> QED
          BY <3>1, <5>1, Zenon
      <4>2. CASE k = 1
        <5>1. k - 1 = 0
          BY <4>2
        <5> QED
          BY <1>1, <4>1, <4>2, <5>1, Zenon
      <4>3. CASE k # 1
        <5>1. k - 1 \in 1..n
          BY <1>1, <4>3
        <5>2. h[k - 1] = g[k - 1]
          BY <5>1, Zenon
        <5> QED
          BY <4>1, <4>3, <5>2, Zenon
      <4> QED
        BY <4>2, <4>3
    <3>3. h = [k \in 1..n |-> h[k]]
      BY Zenon
    <3> HIDE DEF h
    <3>4. h = [k \in 1..n |-> IF k = 1 THEN s[k] ELSE h[k - 1] \o s[k]]
      BY <3>2, <3>3, Zenon
    <3>5. PICK f : FlattenedFromFirst(f, n, s) /\ FlattenSeq(s) = f[n]
      BY <2>2, <3>4, Zenon DEF FlattenSeq, FlattenedFromFirst, n
    <3>6. n \in 1..n /\ n \in Nat \ {0}
      BY <1>1, <2>2
    <3>7. f[n] = g[n]
      <4>1. \A k \in 1..n : f[k] = g[k]
        BY <1>1, <1>2, <3>5, <3>6, SameFlattening
      <4> QED
        BY <3>6, <4>1, Zenon
    <3> QED
      BY <3>5, <3>7
  <2> QED
    BY <2>1, <2>2
<1> QED
  BY <1>2, <1>3, Zenon DEF n, A

(* Two flattenings of the same sequences agree as far as both go.          *)
SameUpTo(n, s, t) == \A k \in 1..n : s[k] = t[k]

LEMMA FlatteningsAgree ==
    ASSUME NEW n \in Nat, NEW m \in Nat, n <= m, NEW s, NEW t, SameUpTo(n, s, t),
           NEW g, Flattening(g, n, s), NEW h, Flattening(h, m, t)
    PROVE  g[n] = h[n]
<1> DEFINE S == {k \in Nat : k \in 0..n => g[k] = h[k]}
<1>1. \A k \in 0..n : g[k] = IF k = 0 THEN <<>> ELSE g[k - 1] \o s[k]
  BY Zenon DEF Flattening
<1>2. \A k \in 0..m : h[k] = IF k = 0 THEN <<>> ELSE h[k - 1] \o t[k]
  BY Zenon DEF Flattening
<1>3. 0 \in S
  <2>1. 0 \in 0..n /\ 0 \in 0..m
    OBVIOUS
  <2> QED
    BY <1>1, <1>2, <2>1, Zenon
<1>4. ASSUME NEW k \in Nat, k \in S PROVE k + 1 \in S
  <2> SUFFICES ASSUME NEW j \in 0..n, j = k + 1 PROVE g[j] = h[j]
    OBVIOUS
  <2>1. j \in 0..m /\ j \in 1..n /\ k \in 0..n /\ j # 0 /\ j - 1 = k
    OBVIOUS
  <2>2. g[j] = g[k] \o s[j]
    BY <1>1, <2>1, Zenon
  <2>3. h[j] = h[k] \o t[j]
    BY <1>2, <2>1, Zenon
  <2> QED
    BY <1>4, <2>1, <2>2, <2>3, Zenon DEF SameUpTo
<1>5. \A k \in Nat : k \in S
  <2> HIDE DEF S
  <2> QED
    BY <1>3, <1>4, InductionOnSet, Zenon
<1>6. n \in 0..n /\ n \in Nat
  OBVIOUS
<1> QED
  BY <1>5, <1>6, Zenon

LEMMA FlattenEmpty == FlattenSeq(<<>>) = <<>>
  BY DEF FlattenSeq

LEMMA FlattenTyped ==
    ASSUME NEW T, NEW s \in Seq(Seq(T)) PROVE FlattenSeq(s) \in Seq(T)
<1>1. PICK g \in [0..Len(s) -> Seq(T)] : FlattenSeq(s) = g[Len(s)]
  BY FlatteningExists, Zenon
<1>2. Len(s) \in 0..Len(s)
  OBVIOUS
<1> QED
  BY <1>1, <1>2, Zenon

LEMMA FlattenAppend ==
    ASSUME NEW T, NEW s \in Seq(Seq(T)), NEW x \in Seq(T)
    PROVE  FlattenSeq(Append(s, x)) = FlattenSeq(s) \o x
<1> DEFINE t == Append(s, x)
           n == Len(s)
           m == Len(t)
<1>0. t \in Seq(Seq(T))
  OBVIOUS
<1>1. /\ n \in Nat /\ m = n + 1 /\ m \in Nat /\ n <= m /\ t[m] = x
      /\ \A k \in 1..n : s[k] = t[k]
  OBVIOUS
<1> HIDE DEF t
<1>2. PICK g \in [0..n -> Seq(T)] : Flattening(g, n, s) /\ FlattenSeq(s) = g[n]
  BY FlatteningExists, Zenon
<1>3. PICK h \in [0..m -> Seq(T)] : Flattening(h, m, t) /\ FlattenSeq(t) = h[m]
  BY <1>0, FlatteningExists, Zenon
<1> HIDE DEF n, m
<1>4. g[n] = h[n]
  <2>1. Flattening(g, n, s) /\ Flattening(h, m, t)
    BY <1>2, <1>3, Zenon
  <2>2. n \in Nat /\ m \in Nat /\ n <= m /\ SameUpTo(n, s, t)
    BY <1>1, Zenon DEF SameUpTo
  <2> QED
    BY <2>1, <2>2, FlatteningsAgree
<1>5. h[m] = h[n] \o t[m]
  <2>1. m \in 0..m /\ m # 0 /\ m - 1 = n
    BY <1>1
  <2>2. \A k \in 0..m : h[k] = IF k = 0 THEN <<>> ELSE h[k - 1] \o t[k]
    BY <1>3, Zenon DEF Flattening
  <2> QED
    BY <2>1, <2>2, Zenon
<1> QED
  BY <1>1, <1>2, <1>3, <1>4, <1>5, Zenon DEF t

-----------------------------------------------------------------------------
(* Induction over sequences, stated of a set as well.                      *)

LEMMA SequenceInductionOnSet ==
    ASSUME NEW T, NEW S, <<>> \in S,
           \A s \in Seq(T), x \in T : s \in S => Append(s, x) \in S
    PROVE  \A s \in Seq(T) : s \in S
<1> DEFINE N == {n \in Nat : \A s \in Seq(T) : Len(s) = n => s \in S}
<1>1. 0 \in N
  <2>1. \A s \in Seq(T) : Len(s) = 0 => s = <<>>
    OBVIOUS
  <2> QED
    BY <2>1
<1>2. ASSUME NEW n \in Nat, n \in N PROVE n + 1 \in N
  <2> SUFFICES ASSUME NEW s \in Seq(T), Len(s) = n + 1 PROVE s \in S
    OBVIOUS
  <2> DEFINE r == SubSeq(s, 1, n)
  <2>1. r \in Seq(T) /\ Len(r) = n /\ s[n + 1] \in T
    OBVIOUS
  <2>2. s = Append(r, s[n + 1])
    OBVIOUS
  <2>3. r \in S
    BY <1>2, <2>1, Zenon
  <2> HIDE DEF r
  <2> QED
    BY <2>1, <2>2, <2>3, Zenon
<1>3. \A n \in Nat : n \in N
  <2> HIDE DEF N
  <2> QED
    BY <1>1, <1>2, InductionOnSet, Zenon
<1> QED
  BY <1>3

-----------------------------------------------------------------------------
(* flatMap() with one result for every element.                            *)

LEMMA FlattenSingletons ==
    ASSUME NEW T, NEW s \in Seq(T)
    PROVE  FlattenSeq([k \in DOMAIN s |-> <<s[k]>>]) = s
<1> DEFINE each(q) == [k \in DOMAIN q |-> <<q[k]>>]
           S == {q \in Seq(T) : FlattenSeq(each(q)) = q}
<1>1. <<>> \in S
  <2>1. each(<<>>) = <<>>
    OBVIOUS
  <2> QED
    BY <2>1, FlattenEmpty
<1>2. ASSUME NEW q \in Seq(T), NEW x \in T, q \in S PROVE Append(q, x) \in S
  <2>1. each(Append(q, x)) = Append(each(q), <<x>>)
    OBVIOUS
  <2>2. each(q) \in Seq(Seq(T)) /\ <<x>> \in Seq(T)
    <3>1. \A k \in 1..Len(q) : <<q[k]>> \in Seq(T)
      OBVIOUS
    <3>2. DOMAIN q = 1..Len(q) /\ Len(q) \in Nat
      OBVIOUS
    <3>3. each(q) \in [1..Len(q) -> Seq(T)]
      BY <3>1, <3>2, Zenon
    <3> HIDE DEF each
    <3> QED
      BY <3>2, <3>3
  <2>3. FlattenSeq(each(q)) = q
    BY <1>2
  <2> HIDE DEF each
  <2>4. FlattenSeq(each(Append(q, x))) = q \o <<x>>
    BY <2>1, <2>2, <2>3, FlattenAppend
  <2>5. Append(q, x) = q \o <<x>> /\ Append(q, x) \in Seq(T)
    OBVIOUS
  <2> QED
    BY <2>4, <2>5
<1>3. s \in S
  <2> HIDE DEF S
  <2> QED
    BY <1>1, <1>2, SequenceInductionOnSet, Zenon
<1> QED
  BY <1>3

-----------------------------------------------------------------------------
(* filter().                                                               *)

LEMMA OnlyEmpty == \A S : Only(<<>>, S) = <<>>
<1> TAKE S
<1>1. [k \in DOMAIN <<>> |-> IF <<>>[k] \in S THEN << <<>>[k] >> ELSE <<>>] = <<>>
  OBVIOUS
<1> QED
  BY <1>1, FlattenEmpty, Zenon DEF Only

LEMMA OnlyAppend ==
    ASSUME NEW T, NEW s \in Seq(T), NEW x \in T, NEW S
    PROVE  Only(Append(s, x), S) = Only(s, S) \o (IF x \in S THEN <<x>> ELSE <<>>)
<1> DEFINE one(q, k) == IF q[k] \in S THEN <<q[k]>> ELSE <<>>
           each(q) == [k \in DOMAIN q |-> one(q, k)]
           last == IF x \in S THEN <<x>> ELSE <<>>
<1>1. each(Append(s, x)) = Append(each(s), last)
  <2>1. \A k \in DOMAIN s : one(Append(s, x), k) = one(s, k)
    OBVIOUS
  <2>2. one(Append(s, x), Len(s) + 1) = last
    OBVIOUS
  <2> HIDE DEF one, last
  <2> QED
    BY <2>1, <2>2
<1>2. each(s) \in Seq(Seq(T)) /\ last \in Seq(T)
  <2>1. \A k \in DOMAIN s : one(s, k) \in Seq(T)
    OBVIOUS
  <2>2. last \in Seq(T)
    OBVIOUS
  <2> HIDE DEF one, last
  <2> QED
    BY <2>1, <2>2
<1>3. Only(s, S) = FlattenSeq(each(s)) /\ Only(Append(s, x), S) = FlattenSeq(each(Append(s, x)))
  BY Zenon DEF Only
<1> HIDE DEF each, last
<1>4. FlattenSeq(each(Append(s, x))) = FlattenSeq(each(s)) \o last
  BY <1>1, <1>2, FlattenAppend
<1> QED
  BY <1>3, <1>4, Zenon DEF last

(* r is what a pass over s keeps: the entries in S, all of them, in order. *)
KeptAt(f, r, s, S) ==
    /\ f \in [1..Len(r) -> {k \in 1..Len(s) : s[k] \in S}]
    /\ \A k \in 1..Len(s) : s[k] \in S => \E j \in 1..Len(r) : f[j] = k
    /\ \A i, j \in 1..Len(r) : i < j => f[i] < f[j]
    /\ \A j \in 1..Len(r) : r[j] = s[f[j]]
Keeps(r, s, S) == \E f : KeptAt(f, r, s, S)

LEMMA KeepsOneMore ==
    ASSUME NEW T, NEW s \in Seq(T), NEW x \in T, NEW S, NEW r \in Seq(T), Keeps(r, s, S)
    PROVE  Keeps(r \o (IF x \in S THEN <<x>> ELSE <<>>), Append(s, x), S)
<1>1. PICK f : KeptAt(f, r, s, S)
  BY DEF Keeps
<1> DEFINE t == Append(s, x)
           n == Len(s)
<1>2. n \in Nat /\ Len(t) = n + 1 /\ t[n + 1] = x /\ \A k \in 1..n : t[k] = s[k]
  OBVIOUS
<1>3. CASE x \notin S
  <2>1. r \o (IF x \in S THEN <<x>> ELSE <<>>) = r
    BY <1>3
  <2> HIDE DEF t, n
  <2>2. {k \in 1..Len(t) : t[k] \in S} = {k \in 1..n : s[k] \in S}
    BY <1>2, <1>3
  <2>3. KeptAt(f, r, t, S)
    BY <1>1, <1>2, <1>3, <2>2 DEF KeptAt, n
  <2> QED
    BY <2>1, <2>3 DEF Keeps, t
<1>4. CASE x \in S
  <2> DEFINE q == Append(r, x)
             m == Len(r)
             g == [j \in 1..(m + 1) |-> IF j = m + 1 THEN n + 1 ELSE f[j]]
  <2>1. r \o (IF x \in S THEN <<x>> ELSE <<>>) = q
    BY <1>4
  <2>2. m \in Nat /\ Len(q) = m + 1 /\ q[m + 1] = x /\ \A j \in 1..m : q[j] = r[j]
    OBVIOUS
  <2> HIDE DEF t, q
  <2>3. \A j \in 1..m : f[j] \in 1..n /\ s[f[j]] \in S
    BY <1>1 DEF KeptAt
  <2> HIDE DEF n, m
  <2>4. g \in [1..Len(q) -> {k \in 1..Len(t) : t[k] \in S}]
    BY <1>2, <1>4, <2>2, <2>3
  <2>5. \A k \in 1..Len(t) : t[k] \in S => \E j \in 1..Len(q) : g[j] = k
    <3> SUFFICES ASSUME NEW k \in 1..Len(t), t[k] \in S PROVE \E j \in 1..Len(q) : g[j] = k
      OBVIOUS
    <3>1. CASE k = n + 1
      <4>1. m + 1 \in 1..Len(q)
        BY <2>2
      <4> QED
        BY <3>1, <4>1, <2>2
    <3>2. CASE k # n + 1
      <4>1. k \in 1..n /\ s[k] \in S
        BY <1>2, <3>2
      <4>2. PICK j \in 1..m : f[j] = k
        BY <1>1, <4>1 DEF KeptAt, n, m
      <4>3. j \in 1..Len(q) /\ j # m + 1
        BY <2>2
      <4> QED
        BY <2>2, <4>2, <4>3
    <3> QED
      BY <3>1, <3>2
  <2>6. \A i, j \in 1..Len(q) : i < j => g[i] < g[j]
    <3>1. \A i, j \in 1..m : i < j => f[i] < f[j]
      BY <1>1 DEF KeptAt, m
    <3> QED
      BY <1>2, <2>2, <2>3, <3>1
  <2>7. \A j \in 1..Len(q) : q[j] = t[g[j]]
    <3>1. \A j \in 1..m : r[j] = s[f[j]]
      BY <1>1 DEF KeptAt, m
    <3> QED
      BY <1>2, <2>2, <2>3, <3>1
  <2> HIDE DEF g
  <2>8. KeptAt(g, q, t, S)
    BY <2>4, <2>5, <2>6, <2>7 DEF KeptAt
  <2> QED
    BY <2>1, <2>8 DEF Keeps, t
<1> QED
  BY <1>3, <1>4

LEMMA OnlyKeeps ==
    ASSUME NEW T, NEW s \in Seq(T), NEW S
    PROVE  Only(s, S) \in Seq(T) /\ Keeps(Only(s, S), s, S)
<1> DEFINE Q == {q \in Seq(T) : Only(q, S) \in Seq(T) /\ Keeps(Only(q, S), q, S)}
<1>1. <<>> \in Q
  <2>1. KeptAt(<<>>, <<>>, <<>>, S)
    BY DEF KeptAt
  <2>2. Keeps(<<>>, <<>>, S)
    BY <2>1, Zenon DEF Keeps
  <2>3. Only(<<>>, S) = <<>> /\ <<>> \in Seq(T)
    BY OnlyEmpty
  <2> QED
    BY <2>2, <2>3, Zenon
<1>2. ASSUME NEW q \in Seq(T), NEW x \in T, q \in Q PROVE Append(q, x) \in Q
  <2>1. Only(Append(q, x), S) = Only(q, S) \o (IF x \in S THEN <<x>> ELSE <<>>)
    BY OnlyAppend
  <2>2. Only(q, S) \in Seq(T) /\ Keeps(Only(q, S), q, S)
    BY <1>2
  <2>3. Only(q, S) \o (IF x \in S THEN <<x>> ELSE <<>>) \in Seq(T)
    BY <2>2
  <2>4. Keeps(Only(Append(q, x), S), Append(q, x), S)
    BY <2>1, <2>2, KeepsOneMore
  <2>5. Append(q, x) \in Seq(T)
    OBVIOUS
  <2> QED
    BY <2>1, <2>3, <2>4, <2>5, Zenon
<1>3. s \in Q
  <2> HIDE DEF Q
  <2> QED
    BY <1>1, <1>2, SequenceInductionOnSet, Zenon
<1> QED
  BY <1>3

-----------------------------------------------------------------------------
(* What a loop over a sequence computes: the step as a function of what it *)
(* has so far and the next element.                                        *)

Folding(g, s, a, St) == g = [k \in 0..Len(s) |-> IF k = 0 THEN a ELSE St[<<g[k - 1], s[k]>>]]
Folded(s, a, St) == (CHOOSE g : Folding(g, s, a, St))[Len(s)]

\* A loop over s starts with an a of A, and steps in A by the elements of T.
LoopOver(A, T, a, St, s) == a \in A /\ St \in [A \X T -> A] /\ s \in Seq(T)
\* g takes the step up to n, where what it has so far is of its type.
Steps(g, n, s, A, a, St) ==
    g[0] = a /\ \A k \in 1..n : g[k - 1] \in A => g[k] = St[<<g[k - 1], s[k]>>]
LoopsTo(g, n, A, T, a, St, s) ==
    LoopOver(A, T, a, St, s) /\ n \in 0..Len(s) /\ Steps(g, n, s, A, a, St)

LEMMA FoldingExists ==
    ASSUME NEW A, NEW T, NEW a, NEW St, NEW s, LoopOver(A, T, a, St, s)
    PROVE  \E g \in [0..Len(s) -> A] : Folding(g, s, a, St)
<1>0. a \in A /\ s \in Seq(T) /\ St \in [A \X T -> A]
  BY DEF LoopOver
<1> DEFINE n == Len(s)
           F == [p \in A \X (1..n) |-> St[<<p[1], s[p[2]]>>]]
<1>1. n \in Nat /\ \A k \in 1..n : s[k] \in T
  BY <1>0
<1>2. \A x \in A, k \in 1..n : F[<<x, k>>] = St[<<x, s[k]>>]
  <2>1. \A x \in A, k \in 1..n : <<x, k>> \in A \X (1..n)
    BY Zenon
  <2> QED
    BY <2>1
<1>3. \A x \in A, k \in 1..n : F[<<x, k>>] \in A
  <2>1. \A x \in A, t \in T : St[<<x, t>>] \in A
    BY <1>0
  <2> QED
    BY <1>1, <1>2, <2>1, Zenon
<1> HIDE DEF F, n
<1>4. PICK g \in [0..n -> A] : Iterated(g, n, a, F)
  BY <1>0, <1>1, <1>3, Iterates, Zenon
<1>5. \A k \in 0..n : g[k] = IF k = 0 THEN a ELSE F[<<g[k - 1], k>>]
  BY <1>4, Zenon DEF Iterated
<1>6. \A k \in 0..n : k # 0 => k \in 1..n /\ k - 1 \in 0..n
  BY <1>1
<1>7. \A k \in 0..n : g[k] = IF k = 0 THEN a ELSE St[<<g[k - 1], s[k]>>]
  BY <1>2, <1>5, <1>6, Zenon
<1>8. g = [k \in 0..n |-> g[k]]
  BY Zenon
<1> QED
  BY <1>4, <1>7, <1>8, Zenon DEF Folding, n

(* Whatever takes the step where what it has so far is of its type is the  *)
(* fold, up to where both go.                                              *)
LEMMA FoldingByStep ==
    ASSUME NEW A, NEW T, NEW a, NEW St, NEW n, NEW s, NEW g, NEW h,
           LoopsTo(g, n, A, T, a, St, s), Folding(h, s, a, St)
    PROVE  \A k \in 0..n : g[k] \in A /\ g[k] = h[k]
<1> USE DEF LoopsTo, LoopOver
<1>0. n \in Nat /\ n <= Len(s) /\ a \in A /\ s \in Seq(T) /\ St \in [A \X T -> A]
  OBVIOUS
<1> DEFINE S == {k \in Nat : k \in 0..n => g[k] \in A /\ g[k] = h[k]}
<1>1. \A k \in 0..Len(s) : h[k] = IF k = 0 THEN a ELSE St[<<h[k - 1], s[k]>>]
  BY Zenon DEF Folding
<1>2. 0 \in S
  <2>1. 0 \in 0..Len(s) /\ 0 \in Nat
    OBVIOUS
  <2>2. h[0] = a
    BY <1>1, <2>1, Zenon
  <2> QED
    BY <2>1, <2>2 DEF Steps
<1>3. ASSUME NEW k \in Nat, k \in S PROVE k + 1 \in S
  <2> SUFFICES ASSUME k + 1 \in 0..n PROVE g[k + 1] \in A /\ g[k + 1] = h[k + 1]
    OBVIOUS
  <2> DEFINE j == k + 1
  <2>1. j \in 1..n /\ j \in 0..Len(s) /\ j # 0 /\ j - 1 = k /\ k \in 0..n /\ s[j] \in T /\ j \in 0..n
    OBVIOUS
  <2> HIDE DEF j
  <2>2. g[k] \in A /\ g[k] = h[k]
    BY <1>3, <2>1
  <2>3. g[j] = St[<<g[k], s[j]>>] /\ h[j] = St[<<h[k], s[j]>>]
    BY <1>1, <2>1, <2>2, Zenon DEF Steps
  <2>4. St[<<g[k], s[j]>>] \in A
    BY <2>1, <2>2
  <2> QED
    BY <2>2, <2>3, <2>4, Zenon DEF j
<1> HIDE DEF S
<1>4. \A k \in Nat : k \in S
  BY <1>2, <1>3, InductionOnSet, Zenon
<1> QED
  BY <1>4 DEF S

LEMMA FoldedIs ==
    ASSUME NEW A, NEW T, NEW a, NEW St, NEW s, NEW g, LoopsTo(g, Len(s), A, T, a, St, s)
    PROVE  g[Len(s)] \in A /\ g[Len(s)] = Folded(s, a, St)
<1> DEFINE h == CHOOSE f : Folding(f, s, a, St)
<1>0. a \in A /\ s \in Seq(T) /\ St \in [A \X T -> A]
  BY DEF LoopsTo, LoopOver
<1>1. Folding(h, s, a, St)
  <2>1. LoopOver(A, T, a, St, s)
    BY DEF LoopsTo
  <2>2. \E f \in [0..Len(s) -> A] : Folding(f, s, a, St)
    BY <2>1, FoldingExists, SMT
  <2> QED
    BY <2>2, Zenon
<1>2. Len(s) \in 0..Len(s)
  BY <1>0
<1> HIDE DEF h
<1>3. \A k \in 0..Len(s) : g[k] \in A /\ g[k] = h[k]
  BY <1>1, FoldingByStep, SMT
<1> QED
  BY <1>2, <1>3, Zenon DEF Folded, h

(* A fold grows with its sequence, one step for one element.               *)
Grows(A, T, a, St) ==
    /\ Folded(<<>>, a, St) = a
    /\ \A s \in Seq(T) : Folded(s, a, St) \in A
    /\ \A s \in Seq(T), x \in T : Folded(Append(s, x), a, St) = St[<<Folded(s, a, St), x>>]

LEMMA FoldedGrows ==
    ASSUME NEW A, NEW T, NEW a, NEW St, LoopOver(A, T, a, St, <<>>)
    PROVE  Grows(A, T, a, St)
<1> a \in A /\ St \in [A \X T -> A]
  BY DEF LoopOver
<1>0. \A s, g : LoopsTo(g, Len(s), A, T, a, St, s) => g[Len(s)] = Folded(s, a, St)
  BY FoldedIs, SMT
<1>1. ASSUME NEW s \in Seq(T)
      PROVE  \E g \in [0..Len(s) -> A] : Folding(g, s, a, St) /\ g[Len(s)] = Folded(s, a, St) /\ g[0] = a
  <2>0. LoopOver(A, T, a, St, s)
    BY DEF LoopOver
  <2>1. PICK g \in [0..Len(s) -> A] : Folding(g, s, a, St)
    BY <2>0, FoldingExists, SMT
  <2>2. \A k \in 0..Len(s) : g[k] = IF k = 0 THEN a ELSE St[<<g[k - 1], s[k]>>]
    BY <2>1, Zenon DEF Folding
  <2>3. \A k \in 1..Len(s) : k \in 0..Len(s) /\ k # 0
    OBVIOUS
  <2>4. 0 \in 0..Len(s)
    OBVIOUS
  <2>5. g[0] = a /\ LoopsTo(g, Len(s), A, T, a, St, s)
    <3>1. Len(s) \in 0..Len(s)
      OBVIOUS
    <3> QED
      BY <2>2, <2>3, <2>4, <3>1, Zenon DEF LoopsTo, LoopOver, Steps
  <2> QED
    BY <1>0, <2>1, <2>5, Zenon
<1>2. Folded(<<>>, a, St) = a
  <2>1. <<>> \in Seq(T) /\ Len(<<>>) = 0
    OBVIOUS
  <2> QED
    BY <1>1, <2>1, Zenon
<1>3. ASSUME NEW s \in Seq(T) PROVE Folded(s, a, St) \in A
  <2>1. PICK g \in [0..Len(s) -> A] : g[Len(s)] = Folded(s, a, St)
    BY <1>1, Zenon
  <2>2. Len(s) \in 0..Len(s)
    OBVIOUS
  <2> QED
    BY <2>1, <2>2, Zenon
<1>4. ASSUME NEW s \in Seq(T), NEW x \in T
      PROVE  Folded(Append(s, x), a, St) = St[<<Folded(s, a, St), x>>]
  <2> DEFINE r == Append(s, x)
             n == Len(s)
             m == n + 1
  <2>1. r \in Seq(T) /\ Len(r) = m /\ n \in Nat /\ \A k \in 1..n : r[k] = s[k]
    OBVIOUS
  <2>2. r[m] = x /\ m - 1 = n /\ m \in 0..m /\ m # 0 /\ n <= n /\ n <= m
    OBVIOUS
  <2> HIDE DEF r, m
  <2>3. PICK g \in [0..m -> A] : Folding(g, r, a, St) /\ g[m] = Folded(r, a, St) /\ g[0] = a
    BY <1>1, <2>1, Zenon
  <2>4. \A k \in 0..m : g[k] = IF k = 0 THEN a ELSE St[<<g[k - 1], r[k]>>]
    BY <2>1, <2>3, Zenon DEF Folding
  <2>5. g[m] = St[<<g[n], x>>]
    BY <2>2, <2>4, Zenon
  <2>6. \A k \in 1..n : k \in 0..m /\ k # 0
    BY <2>1 DEF m
  <2>7. LoopsTo(g, Len(s), A, T, a, St, s)
    <3>1. Len(s) \in 0..Len(s)
      OBVIOUS
    <3> QED
      BY <2>1, <2>3, <2>4, <2>6, <3>1, Zenon DEF LoopsTo, LoopOver, Steps, n
  <2>8. g[n] = Folded(s, a, St)
    BY <1>0, <2>7, Zenon DEF n
  <2> QED
    BY <2>3, <2>5, <2>8, Zenon DEF r
<1> QED
  BY <1>2, <1>3, <1>4, Zenon DEF Grows

-----------------------------------------------------------------------------
(* Positions in a concatenation and in a part of a sequence.               *)

LEMMA JoinedAt ==
    ASSUME NEW S, NEW a \in Seq(S), NEW b \in Seq(S)
    PROVE  /\ a \o b \in Seq(S) /\ Len(a \o b) = Len(a) + Len(b)
           /\ \A i \in 1..(Len(a) + Len(b)) : (a \o b)[i] = IF i <= Len(a) THEN a[i] ELSE b[i - Len(a)]
OBVIOUS

LEMMA CutAt ==
    ASSUME NEW S, NEW s \in Seq(S), NEW i \in 1..(Len(s) + 1), NEW j \in 0..Len(s), i <= j + 1
    PROVE  /\ SubSeq(s, i, j) \in Seq(S) /\ Len(SubSeq(s, i, j)) = j - i + 1
           /\ \A k \in 1..(j - i + 1) : SubSeq(s, i, j)[k] = s[k + i - 1]
<1>1. Len(s) \in Nat OBVIOUS
<1>2. SubSeq(s, i, j) \in Seq(S)
    <2>1. \A k \in i..j : k \in 1..Len(s) BY <1>1
    <2> QED BY <2>1
<1>3. Len(SubSeq(s, i, j)) = j - i + 1 BY <1>1
<1>4. \A k \in 1..(j - i + 1) : SubSeq(s, i, j)[k] = s[k + i - 1] BY <1>1
<1> QED BY <1>2, <1>3, <1>4
=============================================================================
