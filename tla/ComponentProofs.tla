--------------------------- MODULE ComponentProofs ---------------------------
(***************************************************************************)
(* The components that share nothing with another one, each for any        *)
(* values of its constants.                                                *)
(*                                                                         *)
(* The shared Postgres outbox: a pool is orphaned only by overlapping      *)
(* init() and close() calls, and a row is emitted twice, or tried too      *)
(* often, only if two batches held it at once or an update was rejected or *)
(* lost to a crash.                                                        *)
(*                                                                         *)
(* The Helius driver: an admin call leaves what it was asked for, only the *)
(* secret opens the receiver, and every signed record becomes one event.   *)
(*                                                                         *)
(* The reads and routes of pump.fun; the database of its events, which     *)
(* answers as of a moment; the metadata cache and its file.                *)
(*                                                                         *)
(* The ledger of lots, over any buys and sales: what is sold and what is   *)
(* left add up, but for the rounding of average cost.                      *)
(***************************************************************************)
EXTENDS PostgresOutbox, HeliusDriver, PumpMarket, SignalsDb, MetadataCache, Lots,
        SequenceLemmas, SequenceTheorems, FiniteSetTheorems

-----------------------------------------------------------------------------
(* The Postgres outbox.                                                    *)

RowType == [processed : BOOLEAN, error : BOOLEAN, attempts : 0..MaxAttempts, present : BOOLEAN]
Snapshot == Rows \X (0..(MaxAttempts - 1))

PgTyped ==
    /\ table \in [Rows -> RowType]
    /\ ripe \subseteq {r \in Rows : table[r].present}
    /\ connection \in [Procs -> Nat] /\ made \in [Procs -> 0..MaxPools]
    /\ opening \in [Procs -> SUBSET (1..MaxPools)]
    /\ pools \subseteq Procs \X (1..MaxPools)
    /\ batch \in [Procs -> Seq(Snapshot)]
    /\ marking \in [Procs -> {"none", "processed", "failed"}]
    /\ emitted \in [Rows -> Nat] /\ tries \in [Rows -> Nat]

(* A process whose init() met neither another nor a close() has at most one*)
(* pool that is being opened, and then no connection.                      *)
OneOpening ==
    \A p \in Procs :
        /\ connection[p] <= made[p] /\ \A k \in opening[p] : k <= made[p]
        /\ p \notin initOverlapped =>
              /\ \A j, k \in opening[p] : j = k
              /\ opening[p] # {} => connection[p] = 0

(* A batch names each of its rows once, and two batches share only rows    *)
(* that are known to be shared.                                            *)
BatchesAreDistinct ==
    \A p \in Procs : \A j, k \in DOMAIN batch[p] : batch[p][j][1] = batch[p][k][1] => j = k
SharedIsKnown ==
    \A p, q \in Procs : p # q => InBatch(p) \cap InBatch(q) \subseteq shared
BatchesArePresent == \A p \in Procs : \A r \in InBatch(p) : table[r].present
MarkingHasARow == \A p \in Procs : marking[p] # "none" => batch[p] # <<>>

(* Rows of which one batch at a time disposed, and every update arrived.   *)
Quiet(r) == r \in Rows /\ r \notin shared /\ r \notin unmarked

AbsentIsUntouched ==
    \A r \in Rows : ~table[r].present => table[r].attempts = 0 /\ ~table[r].processed

(* Of a quiet row a batch still knows the truth.                           *)
SnapshotsHold ==
    \A p \in Procs : \A k \in DOMAIN batch[p] :
        Quiet(batch[p][k][1]) =>
            /\ ~table[batch[p][k][1]].processed
            /\ table[batch[p][k][1]].attempts = batch[p][k][2]

(* Every try of a quiet row is on record: as an attempt, as the processing *)
(* of the row, or as the update its process is about to make.              *)
Marks(p, r) == marking[p] # "none" /\ Head(batch[p])[1] = r
Count(b) == IF b THEN 1 ELSE 0
TriesAreOnRecord ==
    \A r \in Rows : Quiet(r) =>
        /\ table[r].processed => table[r].attempts < MaxAttempts
        /\ \A p \in Procs : Marks(p, r) =>
              /\ tries[r] = table[r].attempts + 1
              /\ emitted[r] = Count(marking[p] = "processed")
        /\ (\A p \in Procs : ~Marks(p, r)) =>
              /\ tries[r] = table[r].attempts + Count(table[r].processed)
              /\ emitted[r] = Count(table[r].processed)

DrainInv ==
    /\ BatchesAreDistinct /\ SharedIsKnown /\ BatchesArePresent /\ MarkingHasARow
    /\ AbsentIsUntouched /\ SnapshotsHold /\ TriesAreOnRecord
PoolInv == OneOpening /\ OrphanNeedsOverlap

PgInv == PgTyped /\ PoolInv /\ DrainInv

(* The promised invariants follow.                                         *)
LEMMA InvIsSafe == PgInv => PgSafe
<1> SUFFICES ASSUME PgInv PROVE PgSafe
  OBVIOUS
<1> USE PostgresAssumption DEF PgInv, PoolInv, DrainInv
<1>1. PgTypeOK
  BY DEF PgTypeOK, PgTyped, RowType, OneOpening, MarkingHasARow
<1>2. ASSUME NEW r \in Rows, Quiet(r) PROVE emitted[r] <= 1 /\ tries[r] <= MaxAttempts
  <2>1. table[r] \in RowType
    BY DEF PgTyped
  <2>2. CASE \A p \in Procs : ~Marks(p, r)
    BY <1>2, <2>1, <2>2 DEF TriesAreOnRecord, Count, RowType
  <2>3. ASSUME NEW p \in Procs, Marks(p, r) PROVE emitted[r] <= 1 /\ tries[r] <= MaxAttempts
    <3>1. batch[p] \in Seq(Snapshot) /\ batch[p] # <<>>
      BY <2>3 DEF PgTyped, MarkingHasARow, Marks
    <3>2. batch[p][1] \in Snapshot /\ 1 \in DOMAIN batch[p] /\ batch[p][1][1] = r
      BY <2>3, <3>1 DEF Marks
    <3>3. table[r].attempts = batch[p][1][2] /\ batch[p][1][2] \in 0..(MaxAttempts - 1)
      BY <1>2, <3>2 DEF SnapshotsHold, Snapshot
    <3> QED
      BY <1>2, <2>3, <3>3 DEF TriesAreOnRecord, Count
  <2> QED
    BY <2>2, <2>3
<1>3. RepeatNeedsSharing /\ TriesAreBounded
  BY <1>2 DEF RepeatNeedsSharing, TriesAreBounded, Quiet, PgTyped
<1> QED
  BY <1>1, <1>3 DEF PgSafe

-----------------------------------------------------------------------------
(* Opening and closing pools.                                              *)

(* Overlapping init() and close() calls: what they orphan, they record.    *)
LEMMA PoolSteps ==
    ASSUME PgInv, NEW p \in Procs,
           \/ InitBegins(p)
           \/ \E k \in opening[p] : InitReturns(p, k) \/ InitFails(p, k)
           \/ CloseOutbox(p)
    PROVE  PgInv'
<1> USE PostgresAssumption
<1>0. PgTyped /\ OneOpening /\ OrphanNeedsOverlap /\ DrainInv
  BY DEF PgInv, PoolInv
<1>1. UNCHANGED <<table, ripe, drainVars>>
  BY DEF InitBegins, InitReturns, InitFails, CloseOutbox
<1>2. DrainInv'
  BY <1>0, <1>1 DEF drainVars, DrainInv, BatchesAreDistinct, SharedIsKnown, BatchesArePresent, InBatch, MarkingHasARow,
     AbsentIsUntouched, SnapshotsHold, TriesAreOnRecord, Quiet, Marks
<1>3. CASE InitBegins(p)
  <2>1. made[p] + 1 \in 1..MaxPools /\ made'[p] = made[p] + 1 /\ made' \in [Procs -> 0..MaxPools]
    BY <1>0, <1>3 DEF InitBegins, PgTyped
  <2>2. PgTyped'
    BY <1>0, <1>1, <1>3, <2>1 DEF InitBegins, PgTyped, drainVars
  <2>3. OneOpening'
    BY <1>0, <1>3, <2>1 DEF InitBegins, PgTyped, OneOpening
  <2>4. OrphanNeedsOverlap'
    <3>1. /\ connection' = connection /\ initOverlapped \subseteq initOverlapped'
          /\ made'[p] \in opening'[p] /\ \A q \in Procs : opening[q] \subseteq opening'[q]
          /\ pools' = pools \cup {<<p, made'[p]>>}
      BY <1>0, <1>3 DEF InitBegins, PgTyped
    <3>2. \A c \in pools : c[1] \in Procs
      BY <1>0 DEF PgTyped
    <3> QED
      BY <1>0, <3>1, <3>2 DEF OrphanNeedsOverlap
  <2> QED
    BY <1>2, <2>2, <2>3, <2>4 DEF PgInv, PoolInv
<1>4. ASSUME NEW k \in opening[p], InitReturns(p, k) PROVE PgInv'
  <2>1. PgTyped'
    BY <1>0, <1>1, <1>4 DEF InitReturns, PgTyped, drainVars
  <2>2. OneOpening'
    BY <1>0, <1>4 DEF InitReturns, PgTyped, OneOpening
  <2>3. OrphanNeedsOverlap'
    <3> SUFFICES ASSUME NEW c \in pools, c[1] \notin initOverlapped
                 PROVE  c[2] = connection'[c[1]] \/ c[2] \in opening'[c[1]]
      BY <1>4 DEF InitReturns, OrphanNeedsOverlap
    <3>1. c[1] \in Procs /\ c[2] \in 1..MaxPools
      BY <1>0 DEF PgTyped
    <3>2. c[1] = p => c[2] \in opening[p]
      BY <1>0, <1>4, <3>1 DEF OneOpening, OrphanNeedsOverlap
    <3> QED
      BY <1>0, <1>4, <3>1, <3>2 DEF InitReturns, PgTyped, OrphanNeedsOverlap
  <2> QED
    BY <1>2, <2>1, <2>2, <2>3 DEF PgInv, PoolInv
<1>5. ASSUME NEW k \in opening[p], InitFails(p, k) PROVE PgInv'
  <2>1. PgTyped'
    BY <1>0, <1>1, <1>5 DEF InitFails, PgTyped, drainVars
  <2>2. OneOpening'
    BY <1>0, <1>5 DEF InitFails, PgTyped, OneOpening
  <2>3. OrphanNeedsOverlap'
    <3> SUFFICES ASSUME NEW c \in pools, c # <<p, k>>, c[1] \notin initOverlapped
                 PROVE  c[2] = connection[c[1]] \/ c[2] \in opening'[c[1]]
      BY <1>5 DEF InitFails, OrphanNeedsOverlap
    <3>1. c[1] \in Procs /\ c[2] \in 1..MaxPools /\ c = <<c[1], c[2]>>
      BY <1>0 DEF PgTyped
    <3> QED
      BY <1>0, <1>5, <3>1 DEF InitFails, PgTyped, OrphanNeedsOverlap
  <2> QED
    BY <1>2, <2>1, <2>2, <2>3 DEF PgInv, PoolInv
<1>6. CASE CloseOutbox(p)
  <2>1. PgTyped'
    BY <1>0, <1>1, <1>6 DEF CloseOutbox, PgTyped, drainVars
  <2>2. OneOpening'
    BY <1>0, <1>6 DEF CloseOutbox, PgTyped, OneOpening
  <2>3. OrphanNeedsOverlap'
    <3> SUFFICES ASSUME NEW c \in pools, c # <<p, connection[p]>>, c[1] \notin initOverlapped'
                 PROVE  c[2] = connection'[c[1]] \/ c[2] \in opening[c[1]]
      BY <1>6 DEF CloseOutbox, OrphanNeedsOverlap
    <3>1. c[1] \in Procs /\ c = <<c[1], c[2]>> /\ c[1] \notin initOverlapped
      BY <1>0, <1>6 DEF CloseOutbox, PgTyped
    <3> QED
      BY <1>0, <1>6, <3>1 DEF CloseOutbox, PgTyped, OrphanNeedsOverlap
  <2> QED
    BY <1>2, <2>1, <2>2, <2>3 DEF PgInv, PoolInv
<1> QED
  BY <1>3, <1>4, <1>5, <1>6

-----------------------------------------------------------------------------
(* Draining.                                                               *)

(* A batch names rows of the table.                                        *)
LEMMA BatchRows ==
    ASSUME PgInv, NEW p \in Procs
    PROVE  InBatch(p) \subseteq Rows
<1>1. batch[p] \in Seq(Snapshot)
  BY DEF PgInv, PgTyped
<1>2. \A k \in DOMAIN batch[p] : batch[p][k][1] \in Rows
  BY <1>1 DEF Snapshot
<1> QED
  BY <1>2 DEF InBatch

(* The head of a batch is a row of the table, snapshot with fewer attempts than*)
(* the most; the rest names other rows.                                    *)
LEMMA HeadOfBatch ==
    ASSUME PgInv, NEW p \in Procs, batch[p] # <<>>
    PROVE  /\ Head(batch[p]) = batch[p][1] /\ 1 \in DOMAIN batch[p]
           /\ Head(batch[p])[1] \in Rows /\ Head(batch[p])[2] \in 0..(MaxAttempts - 1)
           /\ Tail(batch[p]) \in Seq(Snapshot)
           /\ \A k \in DOMAIN Tail(batch[p]) :
                 /\ k + 1 \in DOMAIN batch[p] /\ Tail(batch[p])[k] = batch[p][k + 1]
                 /\ Tail(batch[p])[k][1] # Head(batch[p])[1]
<1>1. batch[p] \in Seq(Snapshot)
  BY DEF PgInv, PgTyped
<1>2. batch[p][1] \in Snapshot /\ 1 \in DOMAIN batch[p] /\ Head(batch[p]) = batch[p][1]
  BY <1>1
<1>3. Tail(batch[p]) \in Seq(Snapshot)
  BY <1>1
<1>4. \A k \in DOMAIN Tail(batch[p]) :
         k + 1 \in DOMAIN batch[p] /\ Tail(batch[p])[k] = batch[p][k + 1] /\ k # 0 /\ k \in Nat
  BY <1>1
<1>5. \A k \in DOMAIN Tail(batch[p]) : Tail(batch[p])[k][1] # Head(batch[p])[1]
  BY <1>2, <1>4 DEF PgInv, DrainInv, BatchesAreDistinct
<1> QED
  BY <1>2, <1>3, <1>4, <1>5 DEF Snapshot

(* A quiet row that heads a batch is in no other batch.                    *)
LEMMA OneMarker ==
    ASSUME PgInv, NEW p \in Procs, batch[p] # <<>>, NEW q \in Procs, q # p,
           Quiet(Head(batch[p])[1])
    PROVE  Head(batch[p])[1] \notin InBatch(q) /\ ~Marks(q, Head(batch[p])[1])
<1>1. Head(batch[p])[1] \in InBatch(p)
  BY HeadOfBatch DEF InBatch
<1>2. Head(batch[p])[1] \notin InBatch(q)
  BY <1>1 DEF PgInv, DrainInv, SharedIsKnown, Quiet
<1>3. ASSUME Marks(q, Head(batch[p])[1]) PROVE FALSE
  <2>1. batch[q] # <<>>
    BY <1>3 DEF Marks, PgInv, DrainInv, MarkingHasARow
  <2>2. Head(batch[q])[1] \in InBatch(q)
    BY <2>1, HeadOfBatch DEF InBatch
  <2> QED
    BY <1>2, <1>3, <2>2 DEF Marks
<1> QED
  BY <1>2, <1>3

(* A batch that loses rows stays distinct, and shares no more.             *)
LEMMA ShorterBatch ==
    ASSUME PgInv, NEW p \in Procs, NEW b \in Seq(Snapshot), batch' = [batch EXCEPT ![p] = b],
           \/ b = <<>>
           \/ batch[p] # <<>> /\ b = Tail(batch[p]),
           shared \subseteq shared', marking' = [marking EXCEPT ![p] = "none"]
    PROVE  /\ BatchesAreDistinct' /\ SharedIsKnown' /\ MarkingHasARow'
           /\ \A q \in Procs : InBatch(q)' \subseteq InBatch(q)
<1>0. /\ batch \in [Procs -> Seq(Snapshot)] /\ marking \in [Procs -> {"none", "processed", "failed"}]
      /\ BatchesAreDistinct /\ SharedIsKnown /\ MarkingHasARow
  BY DEF PgInv, PgTyped, DrainInv
<1>1. batch'[p] = b /\ \A q \in Procs : q # p => batch'[q] = batch[q]
  BY <1>0
<1>2. \A k \in DOMAIN b : k + 1 \in DOMAIN batch[p] /\ b[k] = batch[p][k + 1] /\ k \in Nat
  BY <1>0, HeadOfBatch
<1>3. BatchesAreDistinct'
  BY <1>0, <1>1, <1>2 DEF BatchesAreDistinct
<1>4. \A q \in Procs : InBatch(q)' \subseteq InBatch(q)
  BY <1>1, <1>2 DEF InBatch
<1> QED
  BY <1>0, <1>1, <1>3, <1>4 DEF SharedIsKnown, MarkingHasARow

(* A delivery that is inserted, or again, and time that passes.            *)
LEMMA RowSteps ==
    ASSUME PgInv, NEW p \in Procs, NEW r \in Rows, Insert(p, r) \/ CutoffPasses(r)
    PROVE  PgInv'
<1>0. /\ PgTyped /\ OneOpening /\ OrphanNeedsOverlap
      /\ BatchesAreDistinct /\ SharedIsKnown /\ BatchesArePresent /\ MarkingHasARow
      /\ AbsentIsUntouched /\ SnapshotsHold /\ TriesAreOnRecord
  BY DEF PgInv, PoolInv, DrainInv
<1>1. UNCHANGED <<poolVars, drainVars>>
  BY DEF Insert, CutoffPasses
<1>2. /\ table' \in [Rows -> RowType]
      /\ \A s \in Rows : /\ table[s].present => table'[s].present
                         /\ table'[s].processed = table[s].processed
                         /\ table'[s].attempts = table[s].attempts
  <2>1. CASE CutoffPasses(r)
    BY <1>0, <2>1 DEF CutoffPasses, PgTyped
  <2>2. CASE Insert(p, r)
    <3>1. table[r] \in RowType /\ table' = [table EXCEPT ![r] = insertRow(r)]
      BY <1>0, <2>2 DEF Insert, PgTyped
    <3>2. /\ insertRow(r) \in RowType /\ insertRow(r).present
          /\ insertRow(r).processed = table[r].processed
          /\ insertRow(r).attempts = table[r].attempts
      BY <1>0, <3>1, PostgresAssumption DEF insertRow, Unwritten, RowType, AbsentIsUntouched
    <3> QED
      BY <1>0, <3>1, <3>2 DEF PgTyped
  <2> QED
    BY <2>1, <2>2
<1>3. PgTyped'
  <2>1. ripe' \subseteq {s \in Rows : table'[s].present}
    BY <1>0, <1>2 DEF Insert, CutoffPasses, PgTyped
  <2> QED
    BY <1>0, <1>1, <1>2, <2>1 DEF PgTyped, poolVars, drainVars
<1>4. OneOpening' /\ OrphanNeedsOverlap'
  BY <1>0, <1>1 DEF OneOpening, OrphanNeedsOverlap, poolVars
<1>5. BatchesAreDistinct' /\ SharedIsKnown' /\ MarkingHasARow'
  BY <1>0, <1>1 DEF BatchesAreDistinct, SharedIsKnown, InBatch, MarkingHasARow, drainVars
<1>6. AbsentIsUntouched'
  BY <1>0, <1>2 DEF AbsentIsUntouched
<1>7. BatchesArePresent'
  <2>1. \A q \in Procs : InBatch(q)' = InBatch(q)
    BY <1>1 DEF InBatch, drainVars
  <2> QED
    BY <1>0, <1>2, <2>1, BatchRows DEF BatchesArePresent
<1>8. SnapshotsHold' /\ TriesAreOnRecord'
  BY <1>0, <1>1, <1>2 DEF SnapshotsHold, TriesAreOnRecord, Quiet, Marks, drainVars
<1> QED
  BY <1>3, <1>4, <1>5, <1>6, <1>7, <1>8 DEF PgInv, PoolInv, DrainInv

(* A batch is read: its rows are pending, and those another batch holds    *)
(* become shared.                                                          *)
LEMMA FetchStep ==
    ASSUME PgInv, NEW p \in Procs, NEW order \in pendingOrders, Fetch(p, order)
    PROVE  PgInv'
<1> USE PostgresAssumption
<1>0. /\ PgTyped /\ OneOpening /\ OrphanNeedsOverlap
      /\ BatchesAreDistinct /\ SharedIsKnown /\ BatchesArePresent /\ MarkingHasARow
      /\ AbsentIsUntouched /\ SnapshotsHold /\ TriesAreOnRecord
  BY DEF PgInv, PoolInv, DrainInv
<1> DEFINE found == {r \in Rows : pendingRow(r)}
           b == [k \in DOMAIN order |-> <<order[k], table[order[k]].attempts>>]
<1>1. PICK n \in Nat : order \in [1..n -> found] /\ \A i, j \in 1..n : order[i] = order[j] => i = j
  <2>1. Cardinality(found) \in Nat
    BY FS_Subset, FS_CardinalityType
  <2> QED
    BY <2>1 DEF pendingOrders
<1>2. \A k \in 1..n : /\ order[k] \in Rows /\ table[order[k]].present /\ ~table[order[k]].processed
                     /\ table[order[k]].attempts \in 0..(MaxAttempts - 1)
  BY <1>0, <1>1 DEF pendingRow, PgTyped, RowType
<1>3. b \in Seq(Snapshot) /\ DOMAIN b = 1..n
  BY <1>1, <1>2 DEF Snapshot
<1>4. \A k \in 1..n : b[k][1] = order[k] /\ b[k][2] = table[order[k]].attempts
  BY <1>1
<1>5. /\ batch' = [batch EXCEPT ![p] = b] /\ marking[p] = "none"
      /\ UNCHANGED <<table, ripe, poolVars, marking, emitted, tries, unmarked>>
      /\ shared' = shared \cup UNION {InBatch(p)' \cap InBatch(q) : q \in Procs \ {p}}
  BY DEF Fetch
<1> HIDE DEF b
<1>6. batch'[p] = b /\ \A q \in Procs : q # p => batch'[q] = batch[q]
  BY <1>0, <1>5 DEF PgTyped
<1>7. PgTyped'
  BY <1>0, <1>3, <1>5 DEF PgTyped, poolVars
<1>8. OneOpening' /\ OrphanNeedsOverlap' /\ AbsentIsUntouched'
  BY <1>0, <1>5 DEF OneOpening, OrphanNeedsOverlap, AbsentIsUntouched, poolVars
<1>9. BatchesAreDistinct'
  BY <1>0, <1>1, <1>3, <1>4, <1>6 DEF BatchesAreDistinct
<1>10. SharedIsKnown'
  <2>1. \A q \in Procs : q # p => InBatch(q)' = InBatch(q) /\ InBatch(p)' \cap InBatch(q) \subseteq shared'
    BY <1>5, <1>6 DEF InBatch
  <2> QED
    BY <1>0, <1>5, <2>1 DEF SharedIsKnown
<1>11. MarkingHasARow'
  BY <1>0, <1>5, <1>6 DEF MarkingHasARow
<1>12. BatchesArePresent'
  BY <1>0, <1>2, <1>3, <1>4, <1>5, <1>6 DEF BatchesArePresent, InBatch
<1>13. SnapshotsHold'
  <2>0. table' = table /\ \A r : Quiet(r)' => Quiet(r)
    BY <1>5 DEF Quiet
  <2>1. ASSUME NEW q \in Procs, NEW k \in DOMAIN batch'[q], Quiet(batch[q][k][1])'
        PROVE  /\ ~table[batch'[q][k][1]].processed
               /\ table[batch'[q][k][1]].attempts = batch'[q][k][2]
    <3>1. CASE q = p
      BY <1>2, <1>3, <1>4, <1>6, <3>1
    <3>2. CASE q # p
      <4>1. batch'[q] = batch[q]
        BY <1>6, <3>2
      <4>2. Quiet(batch'[q][k][1])
        BY <2>0, <2>1
      <4> QED
        BY <1>0, <4>1, <4>2 DEF SnapshotsHold
    <3> QED
      BY <3>1, <3>2
  <2> QED
    BY <2>0, <2>1 DEF SnapshotsHold
<1>14. TriesAreOnRecord'
  <2>1. \A q \in Procs : \A r \in Rows : Marks(q, r)' <=> Marks(q, r)
    BY <1>5, <1>6 DEF Marks
  <2>2. \A r \in Rows : Quiet(r)' => Quiet(r)
    BY <1>5 DEF Quiet
  <2> QED
    BY <1>0, <1>5, <2>1, <2>2 DEF TriesAreOnRecord, Count
<1> QED
  BY <1>7, <1>8, <1>9, <1>10, <1>11, <1>12, <1>13, <1>14 DEF PgInv, PoolInv, DrainInv

(* The head of a batch is emitted: a quiet row for the first time since its*)
(* last attempt was recorded.                                              *)
LEMMA EmitsStep ==
    ASSUME PgInv, NEW p \in Procs, NEW ok \in BOOLEAN, Emits(p, ok)
    PROVE  PgInv'
<1> USE PostgresAssumption
<1>0. /\ PgTyped /\ OneOpening /\ OrphanNeedsOverlap
      /\ BatchesAreDistinct /\ SharedIsKnown /\ BatchesArePresent /\ MarkingHasARow
      /\ AbsentIsUntouched /\ SnapshotsHold /\ TriesAreOnRecord
  BY DEF PgInv, PoolInv, DrainInv
<1> DEFINE r == Head(batch[p])[1]
<1>1. /\ batch[p] # <<>> /\ marking[p] = "none"
      /\ marking' = [marking EXCEPT ![p] = IF ok THEN "processed" ELSE "failed"]
      /\ tries' = [tries EXCEPT ![r] = @ + 1]
      /\ emitted' = IF ok THEN [emitted EXCEPT ![r] = @ + 1] ELSE emitted
      /\ UNCHANGED <<table, ripe, poolVars, batch, unmarked, shared>>
  BY DEF Emits
<1>2. r \in Rows /\ r = batch[p][1][1] /\ 1 \in DOMAIN batch[p]
  BY <1>1, HeadOfBatch
<1>3. \A q \in Procs \ {p} : Quiet(r) => ~Marks(q, r)
  BY <1>1, OneMarker
<1> HIDE DEF r
<1>4. /\ marking'[p] = IF ok THEN "processed" ELSE "failed"
      /\ \A q \in Procs : q # p => marking'[q] = marking[q]
      /\ tries'[r] = tries[r] + 1 /\ emitted'[r] = emitted[r] + Count(ok)
      /\ \A s \in Rows : s # r => tries'[s] = tries[s] /\ emitted'[s] = emitted[s]
  BY <1>0, <1>1, <1>2 DEF PgTyped, Count
<1>5. PgTyped'
  <2>1. marking' \in [Procs -> {"none", "processed", "failed"}]
    BY <1>0, <1>1 DEF PgTyped
  <2>2. tries' \in [Rows -> Nat] /\ emitted' \in [Rows -> Nat]
    <3>1. tries \in [Rows -> Nat] /\ emitted \in [Rows -> Nat] BY <1>0 DEF PgTyped
    <3>2. tries[r] + 1 \in Nat /\ emitted[r] + 1 \in Nat BY <1>2, <3>1
    <3>3. tries' \in [Rows -> Nat] BY <1>1, <3>1, <3>2, Zenon
    <3>4. [emitted EXCEPT ![r] = @ + 1] \in [Rows -> Nat] BY <3>1, <3>2, Zenon
    <3>5. emitted' \in [Rows -> Nat] BY <1>1, <3>1, <3>4, Zenon
    <3> QED BY <3>3, <3>5
  <2> QED
    BY <1>0, <1>1, <2>1, <2>2 DEF PgTyped, poolVars
<1>6. /\ OneOpening' /\ OrphanNeedsOverlap' /\ AbsentIsUntouched' /\ SnapshotsHold'
      /\ BatchesAreDistinct' /\ SharedIsKnown' /\ BatchesArePresent'
  BY <1>0, <1>1 DEF OneOpening, OrphanNeedsOverlap, AbsentIsUntouched, SnapshotsHold, Quiet,
     BatchesAreDistinct, SharedIsKnown, BatchesArePresent, InBatch, poolVars
<1>7. MarkingHasARow'
  BY <1>0, <1>1, <1>4 DEF MarkingHasARow
<1>8. TriesAreOnRecord'
  <2>1. \A s : Quiet(s)' <=> Quiet(s)
    BY <1>1 DEF Quiet
  <2>2. \A s \in Rows : ~Marks(p, s) /\ (Marks(p, s)' <=> s = r)
    BY <1>1, <1>4 DEF Marks, r
  <2>3. \A q \in Procs : q # p => \A s \in Rows : Marks(q, s)' <=> Marks(q, s)
    BY <1>1, <1>4 DEF Marks
  <2>4. ASSUME Quiet(r)
        PROVE  /\ ~table[r].processed /\ tries'[r] = table[r].attempts + 1
               /\ emitted'[r] = Count(marking'[p] = "processed")
    <3>1. ~table[r].processed
      BY <1>0, <1>2, <2>4 DEF SnapshotsHold
    <3>2. tries[r] = table[r].attempts /\ emitted[r] = 0
      <4>1. \A q \in Procs : ~Marks(q, r)
        BY <1>2, <1>3, <2>2, <2>4
      <4>2. tries[r] = table[r].attempts + 0 /\ emitted[r] = 0
        BY <1>0, <1>2, <2>4, <3>1, <4>1 DEF TriesAreOnRecord, Count
      <4> QED
        BY <1>0, <1>2, <4>2 DEF PgTyped, RowType
    <3> QED
      BY <1>4, <3>1, <3>2 DEF Count
  <2>5. ASSUME NEW s \in Rows, Quiet(s)
        PROVE  /\ table[s].processed => table[s].attempts < MaxAttempts
               /\ \A q \in Procs : Marks(q, s)' =>
                     /\ tries'[s] = table[s].attempts + 1
                     /\ emitted'[s] = Count(marking'[q] = "processed")
               /\ (\A q \in Procs : ~Marks(q, s)') =>
                     /\ tries'[s] = table[s].attempts + Count(table[s].processed)
                     /\ emitted'[s] = Count(table[s].processed)
    <3>1. CASE s = r
      BY <1>3, <2>2, <2>3, <2>4, <2>5, <3>1
    <3>2. CASE s # r
      BY <1>0, <1>4, <2>2, <2>3, <2>5, <3>2 DEF TriesAreOnRecord
    <3> QED
      BY <3>1, <3>2
  <2> QED
    BY <1>1, <2>1, <2>5 DEF TriesAreOnRecord, Count
<1> QED
  BY <1>5, <1>6, <1>7, <1>8 DEF PgInv, PoolInv, DrainInv

(* The update is made: what the row says and what was tried of it meet.    *)
LEMMA MarkStep ==
    ASSUME PgInv, NEW p \in Procs, Mark(p)
    PROVE  PgInv'
<1> USE PostgresAssumption
<1>0. /\ PgTyped /\ OneOpening /\ OrphanNeedsOverlap
      /\ BatchesAreDistinct /\ SharedIsKnown /\ BatchesArePresent /\ MarkingHasARow
      /\ AbsentIsUntouched /\ SnapshotsHold /\ TriesAreOnRecord
  BY DEF PgInv, PoolInv, DrainInv
<1> DEFINE r == Head(batch[p])[1]
           snapshot == Head(batch[p])[2]
           row == IF marking[p] = "processed" THEN markProcessed(table[r])
                  ELSE markFailed(table[r], snapshot + 1)
           b == Tail(batch[p])
<1>1. /\ marking[p] # "none" /\ batch[p] # <<>>
      /\ table' = [table EXCEPT ![r] = row]
      /\ batch' = [batch EXCEPT ![p] = b] /\ marking' = [marking EXCEPT ![p] = "none"]
      /\ UNCHANGED <<ripe, poolVars, emitted, tries, unmarked, shared>>
  BY <1>0 DEF Mark, MarkingHasARow
<1>2. /\ r \in Rows /\ snapshot \in 0..(MaxAttempts - 1) /\ b \in Seq(Snapshot)
      /\ 1 \in DOMAIN batch[p] /\ batch[p][1][1] = r /\ batch[p][1][2] = snapshot
      /\ \A k \in DOMAIN b : k + 1 \in DOMAIN batch[p] /\ b[k] = batch[p][k + 1] /\ b[k][1] # r
  BY <1>1, HeadOfBatch
<1>3. \A q \in Procs \ {p} : Quiet(r) => r \notin InBatch(q) /\ ~Marks(q, r)
  BY <1>1, OneMarker
<1>4. table[r] \in RowType /\ table[r].present
  BY <1>0, <1>2 DEF PgTyped, BatchesArePresent, InBatch
<1>6. /\ BatchesAreDistinct' /\ SharedIsKnown' /\ MarkingHasARow'
      /\ \A q \in Procs : InBatch(q)' \subseteq InBatch(q)
  BY <1>1, <1>2, ShorterBatch
<1>7. Marks(p, r) /\ \A s \in Rows : Marks(p, s) => s = r
  BY <1>1 DEF Marks
<1>8. marking[p] \in {"processed", "failed"}
  BY <1>0, <1>1 DEF PgTyped
<1>5. /\ row \in RowType /\ row.present
      /\ marking[p] = "processed" => row.processed /\ row.attempts = table[r].attempts
      /\ marking[p] = "failed" => row.processed = table[r].processed /\ row.attempts = snapshot + 1
  <2> HIDE DEF r, snapshot
  <2>1. snapshot + 1 \in 0..MaxAttempts
    BY <1>2
  <2>2. CASE marking[p] = "processed"
    BY <1>4, <2>2 DEF markProcessed, RowType
  <2>3. CASE marking[p] = "failed"
    BY <1>4, <2>1, <2>3 DEF markFailed, RowType
  <2> QED
    BY <1>8, <2>2, <2>3
<1> HIDE DEF r, snapshot, row, b
<1>9. /\ table' \in [Rows -> RowType] /\ table'[r] = row
      /\ \A s \in Rows : s # r => table'[s] = table[s]
      /\ batch'[p] = b /\ \A q \in Procs : q # p => batch'[q] = batch[q]
      /\ marking'[p] = "none" /\ \A q \in Procs : q # p => marking'[q] = marking[q]
  BY <1>0, <1>1, <1>2, <1>5 DEF PgTyped
<1>10. \A s \in Rows : table'[s].present <=> table[s].present
  BY <1>4, <1>5, <1>9
<1>11. PgTyped'
  <2>1. ripe' \subseteq {s \in Rows : table'[s].present}
    BY <1>0, <1>1, <1>10 DEF PgTyped
  <2>2. batch' \in [Procs -> Seq(Snapshot)]
    BY <1>0, <1>1, <1>2 DEF PgTyped
  <2>3. marking' \in [Procs -> {"none", "processed", "failed"}]
    BY <1>0, <1>1 DEF PgTyped
  <2> QED
    BY <1>0, <1>1, <1>9, <2>1, <2>2, <2>3 DEF PgTyped, poolVars
<1>12. OneOpening' /\ OrphanNeedsOverlap'
  BY <1>0, <1>1 DEF OneOpening, OrphanNeedsOverlap, poolVars
<1>13. AbsentIsUntouched'
  BY <1>0, <1>4, <1>9, <1>10 DEF AbsentIsUntouched
<1>14. BatchesArePresent'
  BY <1>0, <1>6, <1>10, BatchRows DEF BatchesArePresent
<1>15. \A s : Quiet(s)' <=> Quiet(s)
  BY <1>1 DEF Quiet
<1>16. SnapshotsHold'
  <2>1. ASSUME NEW q \in Procs, NEW k \in DOMAIN batch'[q], Quiet(batch[q][k][1])'
        PROVE  /\ ~table'[batch'[q][k][1]].processed
               /\ table'[batch'[q][k][1]].attempts = batch'[q][k][2]
    <3>0. Quiet(batch'[q][k][1]) /\ batch'[q][k][1] \in Rows
      BY <1>15, <2>1 DEF Quiet
    <3>1. CASE q = p
      <4>1. /\ k + 1 \in DOMAIN batch[p] /\ batch'[q][k] = batch[p][k + 1]
            /\ batch'[q][k][1] # r
        BY <1>2, <1>9, <3>1
      <4> QED
        BY <1>0, <1>9, <3>0, <4>1 DEF SnapshotsHold
    <3>2. CASE q # p
      <4>1. batch'[q] = batch[q] /\ batch[q][k][1] \in InBatch(q)
        BY <1>9, <3>2 DEF InBatch
      <4>2. batch'[q][k][1] # r
        BY <1>3, <3>0, <3>2, <4>1
      <4> QED
        BY <1>0, <1>9, <3>0, <4>1, <4>2 DEF SnapshotsHold
    <3> QED
      BY <3>1, <3>2
  <2> QED
    BY <2>1 DEF SnapshotsHold
<1>17. TriesAreOnRecord'
  <2>1. \A s \in Rows : Marks(p, s)' = FALSE
    BY <1>9 DEF Marks
  <2>2. \A q \in Procs : q # p => \A s \in Rows : Marks(q, s)' <=> Marks(q, s)
    BY <1>9 DEF Marks
  <2>3. ASSUME Quiet(r)
        PROVE  /\ row.processed => row.attempts < MaxAttempts
               /\ tries[r] = row.attempts + Count(row.processed)
               /\ emitted[r] = Count(row.processed)
    <3>1. ~table[r].processed /\ table[r].attempts = snapshot
      BY <1>0, <1>2, <2>3 DEF SnapshotsHold
    <3>2. tries[r] = table[r].attempts + 1 /\ emitted[r] = Count(marking[p] = "processed")
      BY <1>0, <1>2, <1>7, <2>3 DEF TriesAreOnRecord
    <3>3. CASE marking[p] = "processed"
      BY <1>2, <1>5, <3>1, <3>2, <3>3 DEF Count
    <3>4. CASE marking[p] = "failed"
      BY <1>2, <1>5, <3>1, <3>2, <3>4 DEF Count
    <3> QED
      BY <1>8, <3>3, <3>4
  <2>4. ASSUME NEW s \in Rows, Quiet(s)
        PROVE  /\ table'[s].processed => table'[s].attempts < MaxAttempts
               /\ \A q \in Procs : Marks(q, s)' =>
                     /\ tries[s] = table'[s].attempts + 1
                     /\ emitted[s] = Count(marking'[q] = "processed")
               /\ (\A q \in Procs : ~Marks(q, s)') =>
                     /\ tries[s] = table'[s].attempts + Count(table'[s].processed)
                     /\ emitted[s] = Count(table'[s].processed)
    <3>1. CASE s = r
      BY <1>3, <1>9, <2>1, <2>2, <2>3, <2>4, <3>1
    <3>2. CASE s # r
      BY <1>0, <1>7, <1>9, <2>1, <2>2, <2>4, <3>2 DEF TriesAreOnRecord
    <3> QED
      BY <3>1, <3>2
  <2> QED
    BY <1>1, <1>15, <2>4 DEF TriesAreOnRecord, Count
<1> QED
  BY <1>6, <1>11, <1>12, <1>13, <1>14, <1>16, <1>17 DEF PgInv, PoolInv, DrainInv

(* The update is rejected: its row is quiet no more, the rest of the batch *)
(* is given up.                                                            *)
LEMMA MarkRejectsStep ==
    ASSUME PgInv, NEW p \in Procs, MarkRejects(p)
    PROVE  PgInv'
<1> USE PostgresAssumption
<1>0. /\ PgTyped /\ OneOpening /\ OrphanNeedsOverlap
      /\ BatchesAreDistinct /\ SharedIsKnown /\ BatchesArePresent /\ MarkingHasARow
      /\ AbsentIsUntouched /\ SnapshotsHold /\ TriesAreOnRecord
  BY DEF PgInv, PoolInv, DrainInv
<1> DEFINE r == Head(batch[p])[1]
<1>1. /\ marking[p] # "none" /\ batch[p] # <<>>
      /\ batch' = [batch EXCEPT ![p] = <<>>] /\ marking' = [marking EXCEPT ![p] = "none"]
      /\ unmarked' = unmarked \cup {r}
      /\ UNCHANGED <<table, ripe, poolVars, emitted, tries, shared>>
  BY <1>0 DEF MarkRejects, MarkingHasARow
<1>2. <<>> \in Seq(Snapshot)
  OBVIOUS
<1>3. /\ BatchesAreDistinct' /\ SharedIsKnown' /\ MarkingHasARow'
      /\ \A q \in Procs : InBatch(q)' \subseteq InBatch(q)
  BY <1>1, <1>2, ShorterBatch
<1>4. /\ batch'[p] = <<>> /\ \A q \in Procs : q # p => batch'[q] = batch[q]
      /\ marking'[p] = "none" /\ \A q \in Procs : q # p => marking'[q] = marking[q]
  BY <1>0, <1>1 DEF PgTyped
<1>5. PgTyped'
  <2>1. batch' \in [Procs -> Seq(Snapshot)]
    BY <1>0, <1>1, <1>2 DEF PgTyped
  <2>2. marking' \in [Procs -> {"none", "processed", "failed"}]
    BY <1>0, <1>1 DEF PgTyped
  <2> QED
    BY <1>0, <1>1, <2>1, <2>2 DEF PgTyped, poolVars
<1>6. OneOpening' /\ OrphanNeedsOverlap' /\ AbsentIsUntouched' /\ BatchesArePresent'
  BY <1>0, <1>1, <1>3 DEF OneOpening, OrphanNeedsOverlap, AbsentIsUntouched, BatchesArePresent, poolVars
<1>7. \A s : Quiet(s)' => Quiet(s) /\ s # r
  BY <1>1 DEF Quiet
<1>8. SnapshotsHold'
  <2>1. ASSUME NEW q \in Procs, NEW k \in DOMAIN batch'[q], Quiet(batch[q][k][1])'
        PROVE  /\ ~table[batch'[q][k][1]].processed
               /\ table[batch'[q][k][1]].attempts = batch'[q][k][2]
    <3>1. q # p
      BY <1>4, <2>1
    <3>2. batch'[q] = batch[q] /\ Quiet(batch'[q][k][1])
      BY <1>4, <1>7, <2>1, <3>1
    <3> QED
      BY <1>0, <3>2 DEF SnapshotsHold
  <2> QED
    BY <1>1, <2>1 DEF SnapshotsHold
<1>9. TriesAreOnRecord'
  <2>1. \A s \in Rows : s # r => \A q \in Procs : Marks(q, s)' <=> Marks(q, s)
    BY <1>1, <1>4 DEF Marks
  <2>2. \A q \in Procs : q # p => marking'[q] = marking[q]
    BY <1>4
  <2>3. \A s \in Rows : s # r => ~Marks(p, s)
    BY DEF Marks
  <2> HIDE DEF r
  <2>4. ASSUME NEW s \in Rows, Quiet(s)'
        PROVE  /\ table[s].processed => table[s].attempts < MaxAttempts
               /\ \A q \in Procs : Marks(q, s)' =>
                     /\ tries[s] = table[s].attempts + 1
                     /\ emitted[s] = Count(marking'[q] = "processed")
               /\ (\A q \in Procs : ~Marks(q, s)') =>
                     /\ tries[s] = table[s].attempts + Count(table[s].processed)
                     /\ emitted[s] = Count(table[s].processed)
    <3>1. Quiet(s) /\ s # r
      BY <1>7, <2>4
    <3> QED
      BY <1>0, <2>1, <2>2, <2>3, <3>1 DEF TriesAreOnRecord
  <2> QED
    BY <1>1, <2>4 DEF TriesAreOnRecord, Count
<1> QED
  BY <1>3, <1>5, <1>6, <1>8, <1>9 DEF PgInv, PoolInv, DrainInv

(* A process dies: its pools and its batch are gone, and a row it was      *)
(* about to mark is quiet no more.                                         *)
LEMMA CrashStep ==
    ASSUME PgInv, NEW p \in Procs, ProcessCrashes(p)
    PROVE  PgInv'
<1> USE PostgresAssumption
<1>0. /\ PgTyped /\ OneOpening /\ OrphanNeedsOverlap
      /\ BatchesAreDistinct /\ SharedIsKnown /\ BatchesArePresent /\ MarkingHasARow
      /\ AbsentIsUntouched /\ SnapshotsHold /\ TriesAreOnRecord
  BY DEF PgInv, PoolInv, DrainInv
<1>1. /\ batch' = [batch EXCEPT ![p] = <<>>] /\ marking' = [marking EXCEPT ![p] = "none"]
      /\ unmarked' = IF marking[p] = "none" THEN unmarked ELSE unmarked \cup {Head(batch[p])[1]}
      /\ UNCHANGED <<made, table, ripe, emitted, tries, shared>>
      /\ connection' = [connection EXCEPT ![p] = 0] /\ opening' = [opening EXCEPT ![p] = {}]
      /\ pools' = {c \in pools : c[1] # p} /\ initOverlapped' = initOverlapped \ {p}
  BY DEF ProcessCrashes
<1>2. <<>> \in Seq(Snapshot)
  OBVIOUS
<1>3. /\ BatchesAreDistinct' /\ SharedIsKnown' /\ MarkingHasARow'
      /\ \A q \in Procs : InBatch(q)' \subseteq InBatch(q)
  BY <1>1, <1>2, ShorterBatch
<1>4. /\ batch'[p] = <<>> /\ \A q \in Procs : q # p => batch'[q] = batch[q]
      /\ marking'[p] = "none" /\ \A q \in Procs : q # p => marking'[q] = marking[q]
  BY <1>0, <1>1 DEF PgTyped
<1>5. /\ connection'[p] = 0 /\ \A q \in Procs : q # p => connection'[q] = connection[q]
      /\ opening'[p] = {} /\ \A q \in Procs : q # p => opening'[q] = opening[q]
  BY <1>0, <1>1 DEF PgTyped
<1>6. PgTyped'
  <2>1. batch' \in [Procs -> Seq(Snapshot)] /\ marking' \in [Procs -> {"none", "processed", "failed"}]
    BY <1>0, <1>1, <1>2 DEF PgTyped
  <2>2. connection' \in [Procs -> Nat] /\ opening' \in [Procs -> SUBSET (1..MaxPools)]
        /\ pools' \subseteq Procs \X (1..MaxPools)
    BY <1>0, <1>1 DEF PgTyped
  <2> QED
    BY <1>0, <1>1, <2>1, <2>2 DEF PgTyped
<1>7. OneOpening'
  <2>1. \A q \in Procs : made[q] \in Nat
    BY <1>0 DEF PgTyped
  <2> QED
    BY <1>0, <1>1, <1>5, <2>1 DEF OneOpening
<1>8. OrphanNeedsOverlap'
  <2>1. \A c \in pools : c[1] \in Procs
    BY <1>0 DEF PgTyped
  <2> QED
    BY <1>0, <1>1, <1>5, <2>1 DEF OrphanNeedsOverlap
<1>9. AbsentIsUntouched' /\ BatchesArePresent'
  BY <1>0, <1>1, <1>3 DEF AbsentIsUntouched, BatchesArePresent
<1>10. (\A s : Quiet(s)' => Quiet(s)) /\ \A s : Quiet(s)' => ~Marks(p, s)
  BY <1>1 DEF Quiet, Marks
<1>11. SnapshotsHold'
  <2>1. ASSUME NEW q \in Procs, NEW k \in DOMAIN batch'[q], Quiet(batch[q][k][1])'
        PROVE  /\ ~table[batch'[q][k][1]].processed
               /\ table[batch'[q][k][1]].attempts = batch'[q][k][2]
    <3>1. q # p
      BY <1>4, <2>1
    <3>2. batch'[q] = batch[q] /\ Quiet(batch'[q][k][1])
      <4>1. \A s : Quiet(s)' => Quiet(s)
        BY <1>10
      <4>2. batch'[q] = batch[q]
        BY <1>4, <3>1
      <4> QED
        BY <2>1, <4>1, <4>2
    <3> QED
      BY <1>0, <3>2 DEF SnapshotsHold
  <2>2. table' = table
    BY <1>1
  <2> QED
    BY <2>1, <2>2 DEF SnapshotsHold
<1>12. TriesAreOnRecord'
  <2>1. \A s, q : q \in Procs /\ q # p => (Marks(q, s)' <=> Marks(q, s))
    BY <1>4 DEF Marks
  <2>2. \A q \in Procs : q # p => marking'[q] = marking[q]
    BY <1>4
  <2>3. \A s : ~Marks(p, s)'
    BY <1>4 DEF Marks
  <2>4. ASSUME NEW s \in Rows, Quiet(s)'
        PROVE  /\ table[s].processed => table[s].attempts < MaxAttempts
               /\ \A q \in Procs : Marks(q, s)' =>
                     /\ tries[s] = table[s].attempts + 1
                     /\ emitted[s] = Count(marking'[q] = "processed")
               /\ (\A q \in Procs : ~Marks(q, s)') =>
                     /\ tries[s] = table[s].attempts + Count(table[s].processed)
                     /\ emitted[s] = Count(table[s].processed)
    <3>1. Quiet(s) /\ ~Marks(p, s)
      BY <1>10, <2>4
    <3>2. (\A q \in Procs : ~Marks(q, s)') => \A q \in Procs : ~Marks(q, s)
      BY <2>1, <3>1
    <3>3. \A q \in Procs : Marks(q, s)' => Marks(q, s) /\ marking'[q] = marking[q]
      BY <2>1, <2>2, <2>3
    <3> QED
      BY <1>0, <3>1, <3>2, <3>3 DEF TriesAreOnRecord
  <2> QED
    BY <1>1, <2>4 DEF TriesAreOnRecord, Count
<1> QED
  BY <1>3, <1>6, <1>7, <1>8, <1>9, <1>11, <1>12 DEF PgInv, PoolInv, DrainInv

-----------------------------------------------------------------------------
LEMMA PgInitInv == PgInit => PgInv
<1> SUFFICES ASSUME PgInit PROVE PgInv
  OBVIOUS
<1> USE PostgresAssumption
<1>1. PgTyped
  BY DEF PgInit, PgTyped, RowType, Unwritten
<1>2. PoolInv
  BY DEF PgInit, PoolInv, OneOpening, OrphanNeedsOverlap
<1>3. DrainInv
  BY DEF PgInit, DrainInv, BatchesAreDistinct, SharedIsKnown, BatchesArePresent, InBatch, MarkingHasARow,
     AbsentIsUntouched, SnapshotsHold, TriesAreOnRecord, Marks, Count, Unwritten
<1> QED
  BY <1>1, <1>2, <1>3 DEF PgInv

LEMMA PgNextInv == PgInv /\ [PgNext]_pgVars => PgInv'
<1> SUFFICES ASSUME PgInv, [PgNext]_pgVars PROVE PgInv'
  OBVIOUS
<1>1. CASE UNCHANGED pgVars
  <2>1. PgTyped'
    BY <1>1 DEF pgVars, PgInv, PgTyped
  <2>2. PoolInv'
    BY <1>1 DEF pgVars, PgInv, PoolInv, OneOpening, OrphanNeedsOverlap
  <2>3. BatchesAreDistinct' /\ SharedIsKnown' /\ BatchesArePresent' /\ MarkingHasARow'
    BY <1>1 DEF pgVars, PgInv, DrainInv, BatchesAreDistinct, SharedIsKnown, BatchesArePresent,
       InBatch, MarkingHasARow
  <2>4. AbsentIsUntouched' /\ SnapshotsHold'
    BY <1>1 DEF pgVars, PgInv, DrainInv, AbsentIsUntouched, SnapshotsHold, Quiet
  <2>5. TriesAreOnRecord'
    BY <1>1 DEF pgVars, PgInv, DrainInv, TriesAreOnRecord, Quiet, Marks, Count
  <2> QED
    BY <2>1, <2>2, <2>3, <2>4, <2>5 DEF PgInv, DrainInv
<1>2. CASE PgNext
  <2>1. PICK p \in Procs :
           \/ InitBegins(p)
           \/ \E k \in opening[p] : InitReturns(p, k) \/ InitFails(p, k)
           \/ CloseOutbox(p) \/ ProcessCrashes(p)
           \/ \E r \in Rows : Insert(p, r) \/ CutoffPasses(r)
           \/ \E order \in pendingOrders : Fetch(p, order)
           \/ \E ok \in BOOLEAN : Emits(p, ok)
           \/ Mark(p) \/ MarkRejects(p)
    BY <1>2 DEF PgNext
  <2> QED
    BY <2>1, PoolSteps, RowSteps, FetchStep, EmitsStep, MarkStep, MarkRejectsStep, CrashStep
<1> QED
  BY <1>1, <1>2

(* Whatever processes share the table: a pool is left behind only by       *)
(* overlapping init() and close() calls, and a row is emitted twice or     *)
(* tried more than maxAttempts times only if two batches held it at once or*)
(* its update was rejected or lost to a crash (postgres.ts, drainer.ts).   *)
THEOREM PgIsSafe == PgSpec => []PgSafe
<1>1. PgInit => PgInv
  BY PgInitInv
<1>2. PgInv /\ [PgNext]_pgVars => PgInv'
  BY PgNextInv
<1>3. PgInv => PgSafe
  BY InvIsSafe
<1> QED
  BY <1>1, <1>2, <1>3, PTL DEF PgSpec

-----------------------------------------------------------------------------
(* The Helius driver.                                                      *)

Config == [addresses : SUBSET Addresses, rest : 0..MaxEdits]
AdminStep ==
    [step : {"idle", "get", "put"}, op : {"none", "subscribe", "remove", "reconcile"},
     addresses : SUBSET Addresses, read : Config]

(* The configuration is what was asked for, call after call; a call that is*)
(* under way knows what it was asked for, and writes only if there is      *)
(* something to do.                                                        *)
AdminInv ==
    /\ webhook \in Config /\ wanted = webhook
    /\ admin \in [Calls -> AdminStep]
    /\ \A c \in Calls :
          /\ admin[c].step # "idle" => admin[c].op # "none"
          /\ admin[c].step = "put" => ~NothingToDo(admin[c], admin[c].read.addresses)

(* The events are those of the last body, and the probe knows the last time*)
(* that was recorded.                                                      *)
ReceiverInv ==
    /\ accepted = Secret
    /\ body \in Seq(HeliusTx) /\ events = normalizeAll(parseRawPayload(body))
    /\ clock \in Nat /\ clock >= 1 /\ recorded \in Seq(1..clock)
    /\ lastAt = IF recorded = <<>> THEN 0 ELSE recorded[Len(recorded)]

HeliusInv == AdminInv /\ ReceiverInv

LEMMA IdleCallTyped == IdleCall \in AdminStep /\ IdleCall.step = "idle"
  BY HeliusAssumption DEF IdleCall, AdminStep, Config

LEMMA HeliusInitInv == HeliusInit => HeliusInv
<1> SUFFICES ASSUME HeliusInit PROVE HeliusInv
  OBVIOUS
<1>1. AdminInv
  <2>1. webhook \in Config /\ wanted = webhook
    BY HeliusAssumption DEF HeliusInit, Config
  <2>2. \A c \in Calls : admin[c] = IdleCall
    BY DEF HeliusInit
  <2>3. admin \in [Calls -> AdminStep]
    BY IdleCallTyped DEF HeliusInit
  <2> QED
    BY <2>1, <2>2, <2>3, IdleCallTyped DEF AdminInv
<1>2. ReceiverInv
  <2>1. normalizeAll(parseRawPayload(<<>>)) = <<>>
    <3>1. parseRawPayload(<<>>) = <<>>
      BY OnlyEmpty DEF parseRawPayload
    <3>2. [k \in DOMAIN <<>> |-> normalizeHeliusTx(<<>>[k])] = <<>>
      OBVIOUS
    <3> QED
      BY <3>1, <3>2, FlattenEmpty, Zenon DEF normalizeAll
  <2> QED
    BY <2>1 DEF HeliusInit, ReceiverInv
<1> QED
  BY <1>1, <1>2 DEF HeliusInv

(* timingSafeEqual() of the padded values, with the comparison of the      *)
(* lengths, is equality.                                                   *)
LEMMA OnlyTheSecretIsEqual ==
    ASSUME NEW header \in Headers, verifyAuthHeader(header) PROVE header = Secret
<1>1. header \in Seq(0..255) /\ Secret \in Seq(0..255)
  BY HeliusAssumption
<1>2. Len(header) = Len(Secret) /\ padded(header, Len(header)) = padded(Secret, Len(header))
  BY <1>1 DEF verifyAuthHeader, constantTimeEquals
<1>3. \A k \in 1..Len(header) : header[k] = Secret[k]
  <2> TAKE k \in 1..Len(header)
  <2>1. padded(header, Len(header))[k] = padded(Secret, Len(header))[k]
    BY <1>2
  <2>2. k \in DOMAIN header /\ k \in DOMAIN Secret
    BY <1>1, <1>2
  <2> QED
    BY <2>1, <2>2 DEF padded
<1> QED
  BY <1>1, <1>2, <1>3

(* One event for every record that has a signature.                        *)
eventOf(tx) ==
    IF tx.failed \/ tx.type \notin DOMAIN Variant THEN unknownEvent(tx)
    ELSE [kind |-> Variant[tx.type], signature |-> tx.sig,
          programId |-> IF tx.type = "TRANSFER" THEN "UNKNOWN_PROGRAM" ELSE venueProgramId(tx)]

LEMMA OneEventEach ==
    ASSUME NEW txs0 \in Seq(HeliusTx)
    PROVE  /\ normalizeAll(txs0) = [k \in 1..Len(txs0) |-> eventOf(txs0[k])]
           /\ Len(normalizeAll(txs0)) = Len(txs0)
<1> DEFINE es == [k \in 1..Len(txs0) |-> eventOf(txs0[k])]
           T == {eventOf(tx) : tx \in HeliusTx}
<1>1. es \in Seq(T) /\ DOMAIN es = DOMAIN txs0 /\ Len(es) = Len(txs0)
  OBVIOUS
<1>2. \A tx : normalizeHeliusTx(tx) = <<eventOf(tx)>>
  BY Zenon DEF normalizeHeliusTx, eventOf
<1>3. [k \in DOMAIN txs0 |-> normalizeHeliusTx(txs0[k])] = [k \in DOMAIN es |-> <<es[k]>>]
  <2>1. \A k \in DOMAIN txs0 : es[k] = eventOf(txs0[k])
    OBVIOUS
  <2> HIDE DEF es
  <2> QED
    BY <1>1, <1>2, <2>1, Zenon
<1> HIDE DEF es
<1>4. FlattenSeq([k \in DOMAIN es |-> <<es[k]>>]) = es
  BY <1>1, FlattenSingletons
<1>5. normalizeAll(txs0) = es
  BY <1>3, <1>4, Zenon DEF normalizeAll
<1> QED
  BY <1>1, <1>5, Zenon DEF es

LEMMA EventTellsItsRecord ==
    ASSUME NEW tx \in HeliusTx
    PROVE  /\ eventOf(tx).signature = tx.sig
           /\ eventOf(tx).kind # "unknown" => ~tx.failed
           /\ eventOf(tx).programId # "UNKNOWN_PROGRAM" => tx.type \in {"SWAP", "TOKEN_MINT"}
<1>1. DOMAIN Variant = {"SWAP", "TOKEN_MINT", "TRANSFER"}
  BY DEF Variant
<1>2. CASE tx.failed \/ tx.type \notin DOMAIN Variant
  BY <1>2 DEF eventOf, unknownEvent
<1>3. CASE ~(tx.failed \/ tx.type \notin DOMAIN Variant)
  BY <1>1, <1>3 DEF eventOf
<1> QED
  BY <1>2, <1>3

(* The admin calls leave the receiver alone, and the receiver them.        *)
LEMMA AdminKeepsReceiver ==
    ASSUME ReceiverInv, UNCHANGED driverVars PROVE ReceiverInv'
  BY DEF ReceiverInv, driverVars

LEMMA ReceiverKeepsAdmin ==
    ASSUME AdminInv, UNCHANGED <<webhook, admin, wanted>> PROVE AdminInv'
  BY DEF AdminInv

LEMMA EndedKeepsCalls ==
    ASSUME AdminInv, NEW c \in Calls, Ended(c)
    PROVE  /\ admin' \in [Calls -> AdminStep]
           /\ \A d \in Calls :
                 /\ admin'[d].step # "idle" => admin'[d].op # "none"
                 /\ admin'[d].step = "put" => ~NothingToDo(admin'[d], admin'[d].read.addresses)
<1>1. admin' \in [Calls -> AdminStep]
  BY IdleCallTyped DEF AdminInv, Ended
<1>2. \A d \in Calls : admin'[d] = IF d = c THEN IdleCall ELSE admin[d]
  BY DEF AdminInv, Ended
<1> QED
  BY <1>1, <1>2, IdleCallTyped DEF AdminInv

LEMMA AdminCallKeepsInv ==
    ASSUME AdminInv, NEW c \in Calls, NEW op0 \in {"subscribe", "remove", "reconcile"},
           NEW given \in SUBSET Addresses, AdminCall(c, op0, given)
    PROVE  AdminInv'
<1> DEFINE new == [IdleCall EXCEPT !.step = "get", !.op = op0, !.addresses = given]
<1>1. new \in AdminStep /\ new.step = "get" /\ new.op = op0
  BY IdleCallTyped DEF AdminStep
<1>2. admin' = [admin EXCEPT ![c] = new]
  BY DEF AdminCall
<1> HIDE DEF new
<1>3. admin' \in [Calls -> AdminStep] /\ \A d \in Calls : admin'[d] = IF d = c THEN new ELSE admin[d]
  BY <1>1, <1>2 DEF AdminInv
<1>4. UNCHANGED <<webhook, wanted>>
  BY DEF AdminCall
<1> QED
  BY <1>1, <1>3, <1>4 DEF AdminInv

LEMMA GetConfigKeepsInv ==
    ASSUME AdminInv, NEW c \in Calls, GetConfig(c) PROVE AdminInv'
<1>0. UNCHANGED webhook /\ admin[c] \in AdminStep /\ webhook \in Config /\ wanted = webhook
  BY DEF AdminInv, GetConfig
<1>1. CASE NothingToDo(admin[c], webhook.addresses)
  <2>1. Ended(c) /\ wanted' = [wanted EXCEPT !.addresses = admin[c].addresses]
    BY <1>1 DEF GetConfig
  <2>2. wanted' = webhook
    BY <1>0, <1>1, <2>1 DEF NothingToDo, Config
  <2> QED
    BY <1>0, <2>1, <2>2, EndedKeepsCalls DEF AdminInv
<1>2. CASE ~NothingToDo(admin[c], webhook.addresses)
  <2> DEFINE new == [admin[c] EXCEPT !.step = "put", !.read = webhook]
  <2>1. admin' = [admin EXCEPT ![c] = new] /\ UNCHANGED wanted
    BY <1>2 DEF GetConfig, AdminInv
  <2>2. /\ new \in AdminStep /\ new.step = "put" /\ new.op = admin[c].op
        /\ new.addresses = admin[c].addresses /\ new.read = webhook
    BY <1>0 DEF AdminStep
  <2>3. new.op # "none" /\ ~NothingToDo(new, new.read.addresses)
    BY <1>2, <2>2 DEF AdminInv, GetConfig, NothingToDo
  <2> HIDE DEF new
  <2>4. admin' \in [Calls -> AdminStep] /\ \A d \in Calls : admin'[d] = IF d = c THEN new ELSE admin[d]
    BY <2>1, <2>2 DEF AdminInv
  <2> QED
    BY <1>0, <2>1, <2>2, <2>3, <2>4 DEF AdminInv
<1> QED
  BY <1>1, <1>2

(* A PUT that writes back what it read changes the addresses alone.        *)
LEMMA PutConfigKeepsInv ==
    ASSUME AdminInv, NEW c \in Calls, PutConfig(c) PROVE AdminInv'
<1> DEFINE call == admin[c]
           set == nextAddresses(call.op, call.read.addresses, call.addresses)
<1>0. call \in AdminStep /\ webhook \in Config /\ wanted = webhook /\ call.op # "none"
  BY DEF AdminInv, PutConfig
<1>1. /\ webhook' = [call.read EXCEPT !.addresses = set]
      /\ wanted' = IF webhook # call.read THEN webhook'
                   ELSE [wanted EXCEPT !.addresses =
                            nextAddresses(call.op, wanted.addresses, call.addresses)]
      /\ Ended(c)
  BY DEF PutConfig
<1>2. call.read \in Config /\ set \in SUBSET Addresses
  BY <1>0 DEF AdminStep, Config, nextAddresses
<1>3. webhook' \in Config
  BY <1>1, <1>2 DEF Config
<1>4. wanted' = webhook'
  BY <1>0, <1>1
<1> QED
  BY <1>1, <1>3, <1>4, EndedKeepsCalls DEF AdminInv

LEMMA DashboardEditKeepsInv ==
    ASSUME AdminInv, DashboardEdit PROVE AdminInv'
<1>1. webhook' = [webhook EXCEPT !.rest = @ + 1] /\ wanted' = [wanted EXCEPT !.rest = @ + 1]
      /\ UNCHANGED admin /\ webhook.rest < MaxEdits
  BY DEF DashboardEdit
<1>2. webhook' \in Config
  BY <1>1, HeliusAssumption DEF AdminInv, Config
<1> QED
  BY <1>1, <1>2 DEF AdminInv

LEMMA ReceiveKeepsInv ==
    ASSUME ReceiverInv, NEW header \in Headers, NEW b \in WebhookBodies, NEW at \in 1..clock,
           Receive(header, b, at)
    PROVE  ReceiverInv'
<1>1. header = Secret
  BY OnlyTheSecretIsEqual DEF Receive
<1>2. /\ body' = b /\ b \in Seq(HeliusTx) /\ events' = normalizeAll(parseRawPayload(body'))
      /\ accepted' = Secret /\ UNCHANGED clock
  BY <1>1, HeliusAssumption DEF Receive
<1>3. recorded' \in Seq(1..clock) /\ lastAt' = IF recorded' = <<>> THEN 0 ELSE recorded'[Len(recorded')]
  <2>1. CASE events' = <<>>
    BY <2>1 DEF Receive, ReceiverInv
  <2>2. CASE events' # <<>>
    <3>1. lastAt' = at /\ recorded' = Append(recorded, at)
      BY <2>2 DEF Receive, recordEvent
    <3> QED
      BY <3>1 DEF ReceiverInv
  <2> QED
    BY <2>1, <2>2
<1> QED
  BY <1>2, <1>3 DEF ReceiverInv

LEMMA HeliusNextInv == HeliusInv /\ [HeliusNext]_heliusVars => HeliusInv'
<1> SUFFICES ASSUME HeliusInv, [HeliusNext]_heliusVars PROVE HeliusInv'
  OBVIOUS
<1> USE DEF HeliusInv
<1>1. ASSUME NEW c \in Calls, NEW op0 \in {"subscribe", "remove", "reconcile"},
             NEW given \in SUBSET Addresses, AdminCall(c, op0, given)
      PROVE  HeliusInv'
  BY <1>1, AdminCallKeepsInv, AdminKeepsReceiver DEF AdminCall
<1>2. ASSUME NEW c \in Calls, GetConfig(c) PROVE HeliusInv'
  BY <1>2, GetConfigKeepsInv, AdminKeepsReceiver DEF GetConfig
<1>3. ASSUME NEW c \in Calls, PutConfig(c) PROVE HeliusInv'
  BY <1>3, PutConfigKeepsInv, AdminKeepsReceiver DEF PutConfig
<1>4. ASSUME NEW c \in Calls, AdminFails(c) PROVE HeliusInv'
  <2>1. Ended(c) /\ UNCHANGED <<webhook, wanted, driverVars>>
    BY <1>4 DEF AdminFails
  <2>2. AdminInv'
    BY <2>1, EndedKeepsCalls DEF AdminInv
  <2> QED
    BY <2>1, <2>2, AdminKeepsReceiver
<1>5. CASE DashboardEdit
  BY <1>5, DashboardEditKeepsInv, AdminKeepsReceiver DEF DashboardEdit
<1>6. ASSUME NEW header \in Headers, NEW b \in WebhookBodies, NEW at \in 1..clock,
             Receive(header, b, at)
      PROVE  HeliusInv'
  BY <1>6, ReceiveKeepsInv, ReceiverKeepsAdmin DEF Receive
<1>7. CASE HeliusTick
  <2>1. clock' = clock + 1 /\ UNCHANGED <<events, body, accepted, lastAt, recorded>>
    BY <1>7 DEF HeliusTick
  <2>2. clock \in Nat /\ 1..clock \subseteq 1..clock'
    BY <2>1 DEF ReceiverInv
  <2>3. recorded' \in Seq(1..clock')
    BY <2>1, <2>2 DEF ReceiverInv
  <2>4. ReceiverInv'
    BY <2>1, <2>2, <2>3 DEF ReceiverInv
  <2> QED
    BY <1>7, <2>4, ReceiverKeepsAdmin DEF HeliusTick
<1>8. CASE UNCHANGED heliusVars
  BY <1>8, AdminKeepsReceiver, ReceiverKeepsAdmin DEF heliusVars, driverVars
<1> QED
  BY <1>1, <1>2, <1>3, <1>4, <1>5, <1>6, <1>7, <1>8 DEF HeliusNext

LEMMA HeliusInvIsSafe == HeliusInv => HeliusSafe
<1> SUFFICES ASSUME HeliusInv PROVE HeliusSafe
  OBVIOUS
<1> DEFINE r == parseRawPayload(body)
           signed == {k \in DOMAIN body : body[k].sig # ""}
<1>0. body \in Seq(HeliusTx)
  BY DEF HeliusInv, ReceiverInv
<1>1. r \in Seq(HeliusTx) /\ Keeps(r, body, {tx \in ToSet(body) : tx.sig # ""})
  BY <1>0, OnlyKeeps DEF parseRawPayload
<1>2. {k \in 1..Len(body) : body[k] \in {tx \in ToSet(body) : tx.sig # ""}} = signed
  <2>1. DOMAIN body = 1..Len(body) /\ \A k \in DOMAIN body : body[k] \in ToSet(body)
    BY <1>0 DEF ToSet
  <2> QED
    BY <2>1
<1>3. events = [k \in 1..Len(r) |-> eventOf(r[k])] /\ Len(events) = Len(r)
  BY <1>1, OneEventEach, Zenon DEF HeliusInv, ReceiverInv
<1> HIDE DEF r
<1>4. DOMAIN events = 1..Len(r) /\ Len(events) = Len(r) /\ \A j \in 1..Len(r) : events[j] = eventOf(r[j])
  BY <1>1, <1>3
<1>5. HeliusTypeOK
  <2>1. /\ webhook \in [addresses : SUBSET Addresses, rest : 0..MaxEdits]
        /\ \A c \in Calls : /\ admin[c].step \in {"idle", "get", "put"}
                            /\ admin[c].step = "put" => ~NothingToDo(admin[c], admin[c].read.addresses)
    BY DEF HeliusInv, AdminInv, AdminStep, Config
  <2>2. lastAt \in 0..clock /\ recorded \in Seq(1..clock)
    BY DEF HeliusInv, ReceiverInv
  <2>3. Len(events) <= Len(parseRawPayload(body))
    <3>1. Len(events) = Len(r)
      BY <1>4, Zenon
    <3>2. Len(r) \in Nat
      <4>1. r \in Seq(HeliusTx)
        BY <1>1, Zenon
      <4> HIDE DEF r
      <4> QED
        BY <4>1
    <3>3. Len(events) <= Len(r)
      BY <3>1, <3>2
    <3> QED
      BY <3>3, Zenon DEF r
  <2> QED
    BY <2>1, <2>2, <2>3 DEF HeliusTypeOK
<1>6. CallsAreExact /\ OnlyTheSecretOpens
  BY DEF HeliusInv, AdminInv, ReceiverInv, CallsAreExact, OnlyTheSecretOpens
<1>7. NothingIsDropped
  <2>1. PICK f : KeptAt(f, r, body, {tx \in ToSet(body) : tx.sig # ""})
    BY <1>1, Zenon DEF Keeps
  <2>2. /\ f \in [DOMAIN events -> signed]
        /\ \A k \in signed : \E j \in DOMAIN events : f[j] = k
        /\ \A i, j \in DOMAIN events : i < j => f[i] < f[j]
        /\ \A j \in DOMAIN events : r[j] = body[f[j]] /\ body[f[j]] \in HeliusTx
    <3>1. /\ f \in [1..Len(r) -> signed]
          /\ \A i, j \in 1..Len(r) : i < j => f[i] < f[j]
          /\ \A j \in 1..Len(r) : r[j] = body[f[j]]
      BY <2>1, <1>2, Zenon DEF KeptAt
    <3>2. \A k \in signed : \E j \in 1..Len(r) : f[j] = k
      BY <2>1, <1>0, <1>2 DEF KeptAt
    <3>3. \A j \in 1..Len(r) : body[f[j]] \in HeliusTx
      <4>1. \A k \in DOMAIN body : body[k] \in HeliusTx
        BY <1>0
      <4> QED
        BY <3>1, <4>1, Zenon
    <3> QED
      BY <1>4, <3>1, <3>2, <3>3, Zenon
  <2>3. \A j \in DOMAIN events :
            LET tx == body[f[j]] IN
            /\ events[j].signature = tx.sig
            /\ events[j].kind # "unknown" => ~tx.failed
            /\ events[j].programId # "UNKNOWN_PROGRAM" => tx.type \in {"SWAP", "TOKEN_MINT"}
    <3> TAKE j \in DOMAIN events
    <3>1. events[j] = eventOf(body[f[j]]) /\ body[f[j]] \in HeliusTx
      BY <1>4, <2>2, Zenon
    <3> QED
      BY <3>1, EventTellsItsRecord, Zenon
  <2> QED
    BY <2>2, <2>3, Zenon DEF NothingIsDropped
<1>8. HealthTellsSilence
  <2> DEFINE n == Len(recorded)
  <2>1. /\ recorded \in Seq(1..clock) /\ clock \in Nat
        /\ lastAt = IF recorded = <<>> THEN 0 ELSE recorded[n]
    BY DEF HeliusInv, ReceiverInv
  <2>2. recorded # <<>> => n \in DOMAIN recorded /\ recorded[n] \in 1..clock /\ Last(recorded) = recorded[n]
    BY <2>1 DEF Last
  <2> HIDE DEF n
  <2> QED
    BY <2>1, <2>2, HeliusAssumption DEF HealthTellsSilence, isHealthy
<1> QED
  BY <1>5, <1>6, <1>7, <1>8 DEF HeliusSafe

(* HeliusSafe (helius admin.ts, receiver.ts, normalize.ts, health.ts): an  *)
(* admin call leaves what it was asked for, only the secret is accepted,   *)
(* every signed record becomes one event, and the probe tells silence, for *)
(* any calls, addresses, bodies, headers and threshold.                    *)
THEOREM HeliusIsSafe == HeliusSpec => []HeliusSafe
<1>1. HeliusInit => HeliusInv
  BY HeliusInitInv
<1>2. HeliusInv /\ [HeliusNext]_heliusVars => HeliusInv'
  BY HeliusNextInv
<1>3. HeliusInv => HeliusSafe
  BY HeliusInvIsSafe
<1> QED
  BY <1>1, <1>2, <1>3, PTL DEF HeliusSpec

-----------------------------------------------------------------------------
(* The readers and builders of pump.fun.                                   *)

(* Integer division.                                                       *)
LEMMA DivisionBounds ==
    ASSUME NEW n \in Int, NEW d \in Nat \ {0}
    PROVE  n \div d \in Int /\ (n \div d) * d <= n /\ n < (n \div d) * d + d
  OBVIOUS

LEMMA CancelFactor ==
    ASSUME NEW a \in Int, NEW b \in Int, NEW d \in Nat \ {0}, a * d < b * d PROVE a < b
  OBVIOUS

LEMMA DivisionIs ==
    ASSUME NEW n \in Int, NEW d \in Nat \ {0}, NEW q \in Int, q * d <= n, n < q * d + d
    PROVE  n \div d = q
<1> DEFINE p == n \div d
<1>1. p \in Int /\ p * d <= n /\ n < p * d + d
  BY DivisionBounds
<1> HIDE DEF p
<1>2. p * d < (q + 1) * d /\ q * d < (p + 1) * d
  BY <1>1
<1>3. p < q + 1 /\ q < p + 1
  BY <1>1, <1>2, CancelFactor
<1> QED
  BY <1>1, <1>3 DEF p

(* The reserve less the rounded-down quotient is the exact amount rounded  *)
(* up.                                                                     *)
LEMMA OutIsRoundedUp ==
    ASSUME NEW in \in Nat, NEW from \in Nat \ {0}, NEW to \in Nat
    PROVE  outOf(in, from, to) = CeilDiv(to * in, from + in)
<1> DEFINE d == from + in
           product == from * to
           a == to * in
           q == product \div d
<1>1. d \in Nat \ {0} /\ product \in Int /\ a \in Int
  OBVIOUS
<1>2. product + a = to * d
  OBVIOUS
<1> HIDE DEF d, product, a
<1>3. q \in Int /\ q * d <= product /\ product < q * d + d
  BY <1>1, DivisionBounds
<1> HIDE DEF q
<1>4. (to - q) * d = to * d - q * d /\ q * d \in Int
  BY <1>1, <1>3
<1>5. (to - q) * d <= a + d - 1 /\ a + d - 1 < (to - q) * d + d
  BY <1>1, <1>2, <1>3, <1>4
<1>6. (a + d - 1) \div d = to - q
  BY <1>1, <1>3, <1>5, DivisionIs
<1> QED
  BY <1>6 DEF outOf, CeilDiv, d, q, product, a

LEMMA FeeIsPart ==
    ASSUME NEW x \in Nat PROVE feeOf(x) \in Int /\ x - feeOf(x) \in Nat
<1> DEFINE n == x * FeeBps
           q == n \div BpsScale
<1>1. BpsScale \in Nat \ {0} /\ FeeBps \in Int /\ 0 <= FeeBps /\ FeeBps <= BpsScale
  BY PumpAssumption
<1>2. n \in Int /\ n <= x * BpsScale
  BY <1>1
<1> HIDE DEF n
<1>3. q \in Int /\ q * BpsScale <= n
  BY <1>1, <1>2, DivisionBounds
<1> HIDE DEF q
<1>4. q * BpsScale < (x + 1) * BpsScale
  BY <1>1, <1>2, <1>3
<1>5. q < x + 1
  BY <1>1, <1>3, <1>4, CancelFactor
<1> QED
  BY <1>3, <1>5 DEF feeOf, q, n

(* The curve after a trade of n keeps at least one token, and loses none it*)
(* did not have.                                                           *)
LEMMA LeftOver ==
    ASSUME NEW v \in Nat \ {0}, NEW w \in Nat \ {0}, NEW n \in Nat
    PROVE  CeilDiv(v * w, v + n) \in 1..w
<1> DEFINE d == v + n
           product == v * w
           q == (product + d - 1) \div d
<1>1. d \in Nat \ {0} /\ product \in Nat \ {0} /\ product <= w * d
  OBVIOUS
<1> HIDE DEF d, product
<1>2. q \in Int /\ q * d <= product + d - 1 /\ product + d - 1 < q * d + d
  BY <1>1, DivisionBounds
<1> HIDE DEF q
<1>3. q * d < (w + 1) * d /\ 0 * d < q * d
  BY <1>1, <1>2
<1>4. q < w + 1 /\ 0 < q
  BY <1>1, <1>2, <1>3, CancelFactor
<1> QED
  BY <1>2, <1>4 DEF CeilDiv, d, product, q

(* The accounts, whatever trades, migrates or is redeployed.               *)
CurveType == [vsol : Nat \ {0}, vtok : Nat \ {0}, real : Nat, complete : BOOLEAN, mayhem : BOOLEAN]
PoolType == [open : BOOLEAN, base : Nat \ {0}, quote : Nat \ {0}, virtual : Nat, moves : Nat]
RecipientLists == [open : SUBSET Recipients, reserved : SUBSET Recipients, buyback : SUBSET Recipients]
FeesType == [curve : RecipientLists, pool : RecipientLists, moves : Nat]

MarketInv ==
    /\ curve \in CurveType /\ curve.complete = (curve.real = 0)
    /\ pool \in PoolType /\ (pool.open => curve.complete)
    /\ fees \in FeesType
    /\ deployed \in [DOMAIN VerifiedPrograms -> 0..1]
    /\ txs \in Seq(0..2)

(* The reads an operation can be waiting for.                              *)
TradeReads ==
    {{"curve"}, {"global"}, {"pool", "config"}, {"vaults", "config"}, {"pool"}, {"vaults"}, {"config"}}
ReadsOf(o) ==
    CASE o \in {"buy", "sell"} -> TradeReads
      [] o = "poolState"       -> {{"pool"}, {"vaults"}}
      [] o = "upgrades"        -> {{"programs"}, {"headers"}}
      [] o = "trades"          -> {{"signatures"}, {"transaction"}}
      [] OTHER                 -> {}
ClientInv ==
    /\ op \in DOMAIN FirstRead \cup {"none"} /\ amount \in Nat
    /\ awaiting \in {{}} \cup ReadsOf(op)
    /\ "vaults" \in awaiting \/ awaiting = {"config"} => pool.open
    /\ DOMAIN got = {"mayhem", "virtual", "reserves", "config"}

(* What the call may have seen holds everything the market has shown since *)
(* it began, the present included while it is under way.                   *)
Sights == {"venues", "accepts", "reserves", "deploys"}
Covers(s, m) == DOMAIN s = Sights /\ \A k \in Sights : m[k] \subseteq s[k]
SeenInv ==
    /\ DOMAIN seen = Sights
    /\ awaiting # {} => Covers(seen, Moment(op, curve, pool, fees, deployed))

(* What a trade has read: the coin's mode, and recipients accepted for it; *)
(* and what pumpSwapPoolState() has: the virtual reserves of a moment.     *)
TradeInv ==
    /\ op \in {"buy", "sell"} /\ awaiting \notin {{}, {"curve"}} => got.mayhem = curve.mayhem
    /\ op \in {"buy", "sell"} /\ awaiting = {"global"} => "curve" \in seen.venues
    /\ op \in {"buy", "sell"} /\ awaiting \in {{"pool"}, {"vaults"}} =>
          LET r == got.config.recipient IN
          r # "none" => r \in Recipients /\ <<"pool", Mode(got.mayhem), r>> \in seen.accepts
    /\ built # NoInstruction =>
          /\ built.venue \in seen.venues \cap Venues /\ built.recipient \in Recipients
          /\ <<built.venue, built.mode, built.recipient>> \in seen.accepts
    /\ op = "poolState" /\ awaiting = {"vaults"} => \E n \in seen.reserves : n.virtual = got.virtual
    /\ OnlyVirtualIsOlder

(* The programs checked so far, and what was true of each.                 *)
ChecksInv ==
    /\ checks \in Seq([program : DOMAIN VerifiedPrograms, upgraded : BOOLEAN])
    /\ Len(checks) <= Len(VerifiedPrograms)
    /\ ChecksAreTrue

(* The pages read so far reach from their first trade down to the next     *)
(* transaction to read, or to the last trade, with nothing left out.       *)
Told(s) == s \in missed \/ \A k \in 1..txs[s] : \E i \in DOMAIN tradeLog : tradeLog[i] = <<s, k>>
LastSig == tradeLog[Len(tradeLog)][1]
PagesInv ==
    /\ missed \subseteq DOMAIN txs
    /\ tradeLog \in Seq((DOMAIN txs) \X (1..2))
    /\ todo \in Seq(DOMAIN txs) /\ \A k \in DOMAIN todo : todo[k] = todo[1] - k + 1
    /\ todo # <<>> <=> awaiting = {"transaction"}
    /\ op # "trades" => tradeLog = <<>>
    /\ \A i, j \in DOMAIN tradeLog :
          i < j => \/ tradeLog[i][1] > tradeLog[j][1]
                   \/ tradeLog[i][1] = tradeLog[j][1] /\ tradeLog[i][2] < tradeLog[j][2]
    /\ tradeLog # <<>> =>
          /\ todo # <<>> => todo[1] < LastSig
          /\ \A s \in DOMAIN txs :
                s <= tradeLog[1][1] /\ s >= (IF todo = <<>> THEN LastSig ELSE todo[1] + 1) => Told(s)

PumpInv == MarketInv /\ ClientInv /\ SeenInv /\ TradeInv /\ ChecksInv /\ PagesInv

-----------------------------------------------------------------------------
(* The market.                                                             *)

LEMMA CurveTradesKeepsMarket ==
    ASSUME MarketInv, NEW n \in 1..2, CurveTrades(n)
    PROVE  MarketInv' /\ curve'.mayhem = curve.mayhem
<1> DEFINE left == CeilDiv(curve.vsol * curve.vtok, curve.vsol + n)
           out == curve.vtok - left
           sold == IF out > curve.real THEN curve.real ELSE out
<1>1. /\ curve' = [curve EXCEPT !.vsol = @ + n, !.vtok = @ - sold, !.real = @ - sold,
                                !.complete = (sold = curve.real)]
      /\ txs' = Append(txs, n) /\ UNCHANGED <<pool, fees, deployed>> /\ ~curve.complete
  BY DEF CurveTrades
<1>2. curve \in CurveType /\ left \in 1..curve.vtok
  <2>1. curve \in CurveType /\ curve.vsol \in Nat \ {0} /\ curve.vtok \in Nat \ {0} /\ n \in Nat
    BY DEF MarketInv, CurveType
  <2> QED
    BY <2>1, LeftOver
<1> HIDE DEF left
<1>3. sold \in Nat /\ sold <= curve.real /\ sold <= out /\ out < curve.vtok /\ curve.vtok \in Nat
      /\ curve.real \in Nat
  BY <1>2 DEF CurveType
<1> HIDE DEF sold
<1>4. curve' \in CurveType /\ curve'.complete = (curve'.real = 0) /\ curve'.mayhem = curve.mayhem
  <2> DEFINE v == curve.vsol + n
             w == curve.vtok - sold
             r == curve.real - sold
             done == (sold = curve.real)
  <2>1. curve' = [vsol |-> v, vtok |-> w, real |-> r, complete |-> done, mayhem |-> curve.mayhem]
    BY <1>1, <1>2 DEF CurveType
  <2>2. v \in Nat \ {0} /\ w \in Nat \ {0} /\ r \in Nat /\ done = (r = 0) /\ done \in BOOLEAN
        /\ curve.mayhem \in BOOLEAN
    BY <1>2, <1>3 DEF CurveType
  <2> HIDE DEF v, w, r, done
  <2> QED
    BY <2>1, <2>2 DEF CurveType
<1>5. ~pool.open
  BY <1>1 DEF MarketInv
<1> QED
  BY <1>1, <1>4, <1>5 DEF MarketInv

LEMMA MarketKeepsInv ==
    ASSUME MarketInv, NEW n \in 1..2,
           \/ CurveTrades(n) \/ Migrates \/ PoolTrades(1)
           \/ \E v \in 0..1 : VirtualChanges(v)
           \/ \E v \in Venues, m \in Modes \cup {"buyback"}, R \in SUBSET Recipients : FeesChange(v, m, R)
           \/ \E i \in DOMAIN VerifiedPrograms : Redeploys(i)
    PROVE  /\ MarketInv' /\ curve'.mayhem = curve.mayhem /\ (pool.open => pool'.open)
           /\ txs' = txs \/ \E t \in 0..2 : txs' = Append(txs, t)
           /\ MarketMoves
<1>1. CASE CurveTrades(n)
  <2>1. MarketInv' /\ curve'.mayhem = curve.mayhem
    BY <1>1, CurveTradesKeepsMarket
  <2>2. txs' = Append(txs, n) /\ UNCHANGED pool /\ MarketMoves /\ n \in 0..2
    BY <1>1 DEF CurveTrades
  <2> QED
    BY <2>1, <2>2
<1>2. CASE Migrates
  <2>1. pool' = [pool EXCEPT !.open = TRUE] /\ txs' = Append(txs, 0) /\ UNCHANGED <<curve, fees, deployed>>
        /\ MarketMoves /\ curve.complete
    BY <1>2 DEF Migrates
  <2>2. pool' \in PoolType /\ pool'.open
    BY <2>1 DEF MarketInv, PoolType
  <2> QED
    BY <2>1, <2>2 DEF MarketInv
<1>3. CASE PoolTrades(1)
  <2> DEFINE q == pool.quote + pool.virtual
             left == CeilDiv(pool.base * q, q + 1)
  <2>1. /\ pool' = [pool EXCEPT !.base = left, !.quote = @ + 1, !.moves = @ + 1]
        /\ UNCHANGED <<curve, fees, deployed, txs>> /\ MarketMoves
    BY <1>3 DEF PoolTrades
  <2>2. q \in Nat \ {0} /\ pool.base \in Nat \ {0} /\ pool \in PoolType
    BY DEF MarketInv, PoolType
  <2> HIDE DEF q
  <2>3. left \in Nat \ {0}
    <3>1. pool.base * q = q * pool.base
      BY <2>2
    <3>2. CeilDiv(q * pool.base, q + 1) \in 1..pool.base
      BY <2>2, LeftOver
    <3> QED
      BY <2>2, <3>1, <3>2
  <2> HIDE DEF left
  <2>4. pool' \in PoolType /\ pool'.open = pool.open
    <3>1. pool' = [open |-> pool.open, base |-> left, quote |-> pool.quote + 1,
                   virtual |-> pool.virtual, moves |-> pool.moves + 1]
      BY <2>1, <2>2 DEF PoolType
    <3>2. pool.quote + 1 \in Nat /\ pool.moves + 1 \in Nat
      BY <2>2 DEF PoolType
    <3> QED
      BY <2>2, <2>3, <3>1, <3>2 DEF PoolType
  <2> QED
    BY <2>1, <2>4 DEF MarketInv
<1>4. ASSUME NEW v \in Venues, NEW m \in Modes \cup {"buyback"}, NEW R \in SUBSET Recipients,
             FeesChange(v, m, R)
      PROVE  /\ MarketInv' /\ MarketMoves /\ UNCHANGED <<curve, pool, txs>>
  <2>1. fees' = [fees EXCEPT ![v][m] = R, !.moves = @ + 1] /\ UNCHANGED <<curve, pool, deployed, txs>>
        /\ MarketMoves
    BY <1>4 DEF FeesChange
  <2>2. fees' \in FeesType
    <3>1. fees \in FeesType /\ fees.moves + 1 \in Nat /\ fees.curve \in RecipientLists /\ fees.pool \in RecipientLists
      BY DEF MarketInv, FeesType
    <3>2. m \in {"open", "reserved", "buyback"}
      BY DEF Modes
    <3>3. \A l \in RecipientLists : [l EXCEPT ![m] = R] \in RecipientLists
      BY <3>2 DEF RecipientLists
    <3>4. CASE v = "curve"
      <4>1. fees' = [curve |-> [fees.curve EXCEPT ![m] = R], pool |-> fees.pool, moves |-> fees.moves + 1]
        BY <2>1, <3>1, <3>4 DEF FeesType
      <4> QED
        BY <3>1, <3>3, <4>1 DEF FeesType
    <3>5. CASE v = "pool"
      <4>1. fees' = [curve |-> fees.curve, pool |-> [fees.pool EXCEPT ![m] = R], moves |-> fees.moves + 1]
        BY <2>1, <3>1, <3>5 DEF FeesType
      <4> QED
        BY <3>1, <3>3, <4>1 DEF FeesType
    <3> QED
      BY <3>4, <3>5 DEF Venues
  <2> QED
    BY <2>1, <2>2 DEF MarketInv
<1>5. ASSUME NEW i \in DOMAIN VerifiedPrograms, Redeploys(i)
      PROVE  /\ MarketInv' /\ MarketMoves /\ UNCHANGED <<curve, pool, txs>>
  BY <1>5 DEF Redeploys, MarketInv
<1>6. ASSUME NEW v \in 0..1, VirtualChanges(v)
      PROVE  /\ MarketInv' /\ MarketMoves /\ UNCHANGED <<curve, txs>> /\ pool'.open
  <2>1. /\ pool' = [pool EXCEPT !.virtual = v, !.moves = @ + 1] /\ pool.open
        /\ UNCHANGED <<curve, fees, deployed, txs>> /\ MarketMoves
    BY <1>6 DEF VirtualChanges
  <2>2. pool \in PoolType /\ pool.moves + 1 \in Nat /\ v \in Nat
    BY DEF MarketInv, PoolType
  <2>3. pool' = [open |-> pool.open, base |-> pool.base, quote |-> pool.quote, virtual |-> v,
                 moves |-> pool.moves + 1]
    BY <2>1, <2>2 DEF PoolType
  <2>4. pool' \in PoolType /\ pool'.open
    BY <2>1, <2>2, <2>3 DEF PoolType
  <2> QED
    BY <2>1, <2>4 DEF MarketInv
<1> QED
  BY <1>1, <1>2, <1>3, <1>4, <1>5, <1>6

LEMMA MomentSights == \A o, c, p, f, d : DOMAIN Moment(o, c, p, f, d) = Sights
  BY DEF Moment, Sights

Grew(s, t) == \A k \in Sights : s[k] \subseteq t[k]

LEMMA SeenGrows ==
    ASSUME SeenInv, ObserveMarket, UNCHANGED <<op, awaiting>>
    PROVE  SeenInv' /\ Grew(seen, seen')
<1>1. CASE awaiting = {}
  BY <1>1 DEF SeenInv, ObserveMarket, Grew
<1>2. CASE awaiting # {}
  <2> DEFINE m == Moment(op, curve', pool', fees', deployed')
  <2>1. seen' = [k \in DOMAIN seen |-> seen[k] \cup m[k]] /\ DOMAIN seen = Sights
    BY <1>2 DEF SeenInv, ObserveMarket, Join
  <2>2. m = Moment(op, curve, pool, fees, deployed)'
    OBVIOUS
  <2> HIDE DEF m
  <2>3. DOMAIN seen' = Sights /\ \A k \in Sights : m[k] \subseteq seen'[k] /\ seen[k] \subseteq seen'[k]
    BY <2>1
  <2> QED
    BY <2>2, <2>3, Zenon DEF SeenInv, Covers, Grew
<1> QED
  BY <1>1, <1>2

(* The client's variables, which the market leaves alone.                  *)
clientVars == <<op, amount, awaiting, got, built, checks, todo, tradeLog, missed>>

LEMMA MarketKeepsTrade ==
    ASSUME TradeInv, UNCHANGED clientVars, curve'.mayhem = curve.mayhem, Grew(seen, seen')
    PROVE  TradeInv'
<1>1. /\ seen.venues \subseteq seen'.venues /\ seen.accepts \subseteq seen'.accepts
      /\ seen.reserves \subseteq seen'.reserves
  BY DEF Grew, Sights
<1> QED
  BY <1>1 DEF TradeInv, OnlyVirtualIsOlder, clientVars, Mode

LEMMA SightsKeepChecks ==
    ASSUME ChecksInv, UNCHANGED checks, Grew(seen, seen') PROVE ChecksInv'
<1>1. seen.deploys \subseteq seen'.deploys
  BY DEF Grew, Sights
<1> QED
  BY <1>1 DEF ChecksInv, ChecksAreTrue

LEMMA MarketKeepsPages ==
    ASSUME PagesInv, txs \in Seq(0..2), UNCHANGED clientVars,
           txs' = txs \/ \E t \in 0..2 : txs' = Append(txs, t)
    PROVE  PagesInv'
<1>1. DOMAIN txs \subseteq DOMAIN txs' /\ \A s \in DOMAIN txs : txs'[s] = txs[s]
  OBVIOUS
<1>2. UNCHANGED <<op, awaiting, todo, tradeLog, missed>>
  BY DEF clientVars
<1>3. \A s \in DOMAIN txs : Told(s) => Told(s)'
  BY <1>1, <1>2 DEF Told
<1>4. LastSig' = LastSig
  BY <1>2 DEF LastSig
<1>5. missed' \subseteq DOMAIN txs' /\ tradeLog' \in Seq((DOMAIN txs') \X (1..2)) /\ todo' \in Seq(DOMAIN txs')
  <2>1. \A A, B : A \subseteq B => \A q \in Seq(A) : q \in Seq(B)
    OBVIOUS
  <2>2. (DOMAIN txs) \X (1..2) \subseteq (DOMAIN txs') \X (1..2)
    BY <1>1
  <2>3. missed \subseteq DOMAIN txs /\ tradeLog \in Seq((DOMAIN txs) \X (1..2)) /\ todo \in Seq(DOMAIN txs)
    BY DEF PagesInv
  <2> QED
    BY <1>1, <1>2, <2>1, <2>2, <2>3, Zenon
<1>6. tradeLog # <<>> => tradeLog[1][1] \in DOMAIN txs
  <2>1. tradeLog \in Seq((DOMAIN txs) \X (1..2))
    BY DEF PagesInv
  <2> QED
    BY <2>1
<1>7. tradeLog' # <<>> =>
         /\ todo' # <<>> => todo'[1] < LastSig'
         /\ \A s \in DOMAIN txs' :
               s <= tradeLog'[1][1] /\ s >= (IF todo' = <<>> THEN LastSig' ELSE todo'[1] + 1) => Told(s)'
  <2> SUFFICES ASSUME tradeLog # <<>>
               PROVE  /\ todo # <<>> => todo[1] < LastSig
                      /\ \A s \in DOMAIN txs' :
                            s <= tradeLog[1][1] /\ s >= (IF todo = <<>> THEN LastSig ELSE todo[1] + 1) => Told(s)'
    BY <1>2, <1>4
  <2>1. \A s \in DOMAIN txs' : s <= tradeLog[1][1] => s \in DOMAIN txs
    BY <1>6
  <2> QED
    BY <1>3, <2>1 DEF PagesInv
<1>8. /\ \A k \in DOMAIN todo' : todo'[k] = todo'[1] - k + 1
      /\ todo' # <<>> <=> awaiting' = {"transaction"}
      /\ op' # "trades" => tradeLog' = <<>>
      /\ \A i, j \in DOMAIN tradeLog' :
            i < j => \/ tradeLog'[i][1] > tradeLog'[j][1]
                     \/ tradeLog'[i][1] = tradeLog'[j][1] /\ tradeLog'[i][2] < tradeLog'[j][2]
  BY <1>2 DEF PagesInv
<1> QED
  BY <1>5, <1>7, <1>8 DEF PagesInv

LEMMA MarketKeepsPumpInv ==
    ASSUME PumpInv, MarketInv', curve'.mayhem = curve.mayhem, pool.open => pool'.open,
           txs' = txs \/ \E t \in 0..2 : txs' = Append(txs, t), MarketMoves
    PROVE  PumpInv'
<1>1. ObserveMarket /\ UNCHANGED clientVars /\ UNCHANGED <<op, awaiting, checks>>
  BY DEF MarketMoves, clientVars
<1>2. SeenInv' /\ Grew(seen, seen')
  BY <1>1, SeenGrows DEF PumpInv
<1>3. TradeInv' /\ ChecksInv'
  BY <1>1, <1>2, MarketKeepsTrade, SightsKeepChecks DEF PumpInv
<1>4. PagesInv'
  BY <1>1, MarketKeepsPages DEF PumpInv, MarketInv
<1>5. ClientInv'
  BY <1>1 DEF PumpInv, ClientInv, clientVars, ReadsOf
<1> QED
  BY <1>2, <1>3, <1>4, <1>5 DEF PumpInv

-----------------------------------------------------------------------------
(* The client.                                                             *)

LEMMA ReadsTell ==
    ASSUME ClientInv
    PROVE  /\ "curve" \in awaiting => op \in {"buy", "sell"} /\ awaiting = {"curve"}
           /\ "global" \in awaiting => op \in {"buy", "sell"} /\ awaiting = {"global"}
           /\ "pool" \in awaiting =>
                 \/ op \in {"buy", "sell"} /\ awaiting \in {{"pool", "config"}, {"pool"}}
                 \/ op = "poolState" /\ awaiting = {"pool"}
           /\ "vaults" \in awaiting =>
                 \/ op \in {"buy", "sell"} /\ awaiting \in {{"vaults", "config"}, {"vaults"}}
                 \/ op = "poolState" /\ awaiting = {"vaults"}
           /\ "config" \in awaiting =>
                 /\ op \in {"buy", "sell"}
                 /\ awaiting \in {{"pool", "config"}, {"vaults", "config"}, {"config"}}
           /\ "programs" \in awaiting => op = "upgrades" /\ awaiting = {"programs"}
           /\ "headers" \in awaiting => op = "upgrades" /\ awaiting = {"headers"}
           /\ "signatures" \in awaiting => op = "trades" /\ awaiting = {"signatures"}
           /\ "transaction" \in awaiting => op = "trades" /\ awaiting = {"transaction"}
<1>1. op \in {"buy", "sell", "poolState", "upgrades", "trades", "none"}
  BY DEF ClientInv, FirstRead
<1>2. CASE awaiting = {}
  BY <1>2
<1>3. CASE awaiting \in ReadsOf(op)
  <2>1. CASE op \in {"buy", "sell"}
    <3>1. awaiting \in TradeReads
      BY <1>3, <2>1 DEF ReadsOf
    <3> QED
      BY <2>1, <3>1 DEF TradeReads
  <2>2. CASE op = "poolState"
    <3>1. awaiting \in {{"pool"}, {"vaults"}}
      BY <1>3, <2>2 DEF ReadsOf
    <3> QED
      BY <2>2, <3>1
  <2>3. CASE op = "upgrades"
    <3>1. awaiting \in {{"programs"}, {"headers"}}
      BY <1>3, <2>3 DEF ReadsOf
    <3> QED
      BY <2>3, <3>1
  <2>4. CASE op = "trades"
    <3>1. awaiting \in {{"signatures"}, {"transaction"}}
      BY <1>3, <2>4 DEF ReadsOf
    <3> QED
      BY <2>4, <3>1
  <2>5. CASE op = "none"
    BY <1>3, <2>5 DEF ReadsOf
  <2> QED
    BY <1>1, <2>1, <2>2, <2>3, <2>4, <2>5
<1> QED
  BY <1>2, <1>3 DEF ClientInv

LEMMA ReadsAllowed ==
    /\ \A o \in {"buy", "sell"} : ReadsOf(o) = TradeReads
    /\ ReadsOf("poolState") = {{"pool"}, {"vaults"}}
    /\ ReadsOf("upgrades") = {{"programs"}, {"headers"}}
    /\ ReadsOf("trades") = {{"signatures"}, {"transaction"}}
  BY DEF ReadsOf

LEMMA SettledKeeps ==
    ASSUME MarketInv, SeenInv, Settled, awaiting # {} PROVE MarketInv' /\ SeenInv'
<1>1. UNCHANGED <<curve, pool, fees, deployed, txs, op, seen>>
  BY DEF Settled, market
<1>2. Moment(op, curve, pool, fees, deployed)' = Moment(op, curve, pool, fees, deployed)
  BY <1>1
<1>3. SeenInv'
  BY <1>1, <1>2 DEF SeenInv, Covers
<1> QED
  BY <1>1, <1>3 DEF MarketInv

LEMMA OtherReadsKeepPages ==
    ASSUME PagesInv, UNCHANGED <<txs, op, todo, tradeLog, missed>>,
           "transaction" \notin awaiting, "transaction" \notin awaiting'
    PROVE  PagesInv'
<1>1. \A s : Told(s)' <=> Told(s)
  BY DEF Told
<1>2. LastSig' = LastSig
  BY DEF LastSig
<1>3. todo = <<>>
  BY DEF PagesInv
<1> QED
  BY <1>1, <1>2, <1>3 DEF PagesInv

LEMMA OtherReadsKeepChecks ==
    ASSUME ChecksInv, UNCHANGED <<checks, seen>> PROVE ChecksInv'
  BY DEF ChecksInv, ChecksAreTrue

(* Everything but the call's own reads stays.                              *)
LEMMA ReadKeepsRest ==
    ASSUME PumpInv, Settled, awaiting # {}, UNCHANGED <<checks, todo, tradeLog, missed>>,
           "transaction" \notin awaiting, "transaction" \notin awaiting', ClientInv', TradeInv'
    PROVE  PumpInv'
<1>1. UNCHANGED <<curve, pool, fees, deployed, txs, op, amount, seen>>
  BY DEF Settled, market
<1> QED
  BY <1>1, SettledKeeps, OtherReadsKeepPages, OtherReadsKeepChecks DEF PumpInv

(* What a trade is shown at this moment is in what it may have seen.       *)
LEMMA TradeSees ==
    ASSUME PumpInv, op \in {"buy", "sell"}, awaiting # {}
    PROVE  /\ ~curve.complete => "curve" \in seen.venues
           /\ pool.open => "pool" \in seen.venues
           /\ \A v \in Venues, m \in Modes, r \in Recipients :
                 r \in fees[v][m] => <<v, m, r>> \in seen.accepts
<1> DEFINE M == Moment(op, curve, pool, fees, deployed)
<1>1. M.venues \subseteq seen.venues /\ M.accepts \subseteq seen.accepts
  BY DEF PumpInv, SeenInv, Covers, Sights
<1>2. /\ M.venues = {v \in Venues : IF v = "curve" THEN ~curve.complete ELSE pool.open}
      /\ M.accepts = {a \in Venues \X Modes \X Recipients : a[3] \in fees[a[1]][a[2]]}
  BY DEF Moment
<1> HIDE DEF M
<1> QED
  BY <1>1, <1>2 DEF Venues

LEMMA ReadCurveKeepsInv ==
    ASSUME PumpInv, ReadCurve PROVE PumpInv'
<1>1. op \in {"buy", "sell"} /\ awaiting = {"curve"} /\ op' = op /\ amount' = amount
  BY ReadsTell DEF PumpInv, ReadCurve, Settled
<1>2. awaiting' = {"pool", "config"} \/ awaiting' = {"global"}
  BY DEF ReadCurve, Route
<1>3. ClientInv'
  <2>1. awaiting' \in ReadsOf(op) /\ "vaults" \notin awaiting' /\ awaiting' # {"config"}
    <3>1. ReadsOf(op) = TradeReads
      BY <1>1, ReadsAllowed
    <3> QED
      BY <1>2, <3>1 DEF TradeReads
  <2>2. got' = [got EXCEPT !.mayhem = curve.mayhem]
    BY DEF ReadCurve
  <2> QED
    BY <1>1, <2>1, <2>2 DEF PumpInv, ClientInv
<1>4. TradeInv'
  <2>1. got' = [got EXCEPT !.mayhem = curve.mayhem] /\ UNCHANGED <<curve, built, seen>>
    BY DEF ReadCurve, Settled, market
  <2>2. got'.mayhem = curve.mayhem
    BY <2>1 DEF PumpInv, ClientInv
  <2>3. op' \notin {"poolState"} /\ awaiting' \notin {{"pool"}, {"vaults"}}
    BY <1>1, <1>2
  <2>4. awaiting' = {"global"} => "curve" \in seen.venues
    <3>1. awaiting' = {"global"} => ~curve.complete
      BY DEF ReadCurve, Route
    <3> QED
      BY <1>1, <3>1, TradeSees
  <2> QED
    BY <1>1, <2>1, <2>2, <2>3, <2>4 DEF PumpInv, TradeInv, OnlyVirtualIsOlder
<1> QED
  BY <1>1, <1>2, <1>3, <1>4, ReadKeepsRest DEF ReadCurve

(* A builder pays a recipient its venue accepts, on a venue that is open,  *)
(* or throws.                                                              *)
LEMMA BuildKeepsTrade ==
    ASSUME PumpInv, Settled, op \in {"buy", "sell"}, NEW venue \in Venues, NEW recipient, NEW buyback,
           Build(venue, recipient, buyback), venue \in seen.venues,
           recipient # "none" => <<venue, Mode(got.mayhem), recipient>> \in seen.accepts,
           recipient # "none" => recipient \in Recipients
    PROVE  PumpInv'
<1>1. UNCHANGED <<curve, pool, fees, deployed, txs, op, amount, seen, got>>
      /\ UNCHANGED <<checks, todo, tradeLog, missed>> /\ awaiting' = {}
  BY DEF Settled, market, Build, Throws, Answers
<1>2. ClientInv'
  BY <1>1 DEF PumpInv, ClientInv
<1>3. TradeInv'
  <2>1. CASE recipient = "none" \/ buyback = "none" \/ amount <= 0
    <3>1. built' = built
      BY <2>1 DEF Build, Throws
    <3> QED
      BY <1>1, <3>1 DEF PumpInv, TradeInv, OnlyVirtualIsOlder
  <2>2. CASE ~(recipient = "none" \/ buyback = "none" \/ amount <= 0)
    <3>1. built' = [venue |-> venue, mode |-> Mode(got.mayhem), recipient |-> recipient,
                    buyback |-> buyback]
      BY <2>2 DEF Build
    <3>2. /\ built'.venue \in seen.venues \cap Venues /\ built'.recipient \in Recipients
          /\ <<built'.venue, built'.mode, built'.recipient>> \in seen.accepts
      BY <2>2, <3>1
    <3> QED
      BY <1>1, <3>2 DEF PumpInv, TradeInv, OnlyVirtualIsOlder
  <2> QED
    BY <2>1, <2>2
<1>4. MarketInv' /\ SeenInv' /\ ChecksInv'
  BY <1>1, OtherReadsKeepChecks DEF PumpInv, MarketInv, SeenInv
<1>5. PagesInv'
  <2>1. "transaction" \notin awaiting
    BY ReadsTell DEF PumpInv
  <2> QED
    BY <1>1, <2>1, OtherReadsKeepPages DEF PumpInv
<1> QED
  BY <1>2, <1>3, <1>4, <1>5 DEF PumpInv

(* The first of a list is in it.                                           *)
LEMMA FirstIsListed ==
    ASSUME NEW R, first(R) # "none" PROVE first(R) \in R
<1>1. R # {}
  BY DEF first
<1>2. PICK r \in R : TRUE
  BY <1>1
<1>3. first(R) = CHOOSE x \in R : TRUE
  BY <1>1 DEF first
<1>4. (CHOOSE x \in R : TRUE) \in R
  BY <1>2, Zenon
<1> QED
  BY <1>3, <1>4

LEMMA RecipientIsListed ==
    ASSUME PumpInv, op \in {"buy", "sell"}, awaiting # {}, NEW v \in Venues, NEW m \in Modes,
           recipientFor(v, m) # "none"
    PROVE  recipientFor(v, m) \in Recipients /\ <<v, m, recipientFor(v, m)>> \in seen.accepts
<1>1. recipientFor(v, m) \in fees[v][m]
  BY FirstIsListed DEF recipientFor
<1>2. fees[v][m] \subseteq Recipients
  BY DEF PumpInv, MarketInv, FeesType, RecipientLists, Venues, Modes
<1> QED
  BY <1>1, <1>2, TradeSees

LEMMA ModeIsKnown == \A m : Mode(m) \in Modes
  BY DEF Mode, Modes

LEMMA ReadGlobalKeepsInv ==
    ASSUME PumpInv, ReadGlobal PROVE PumpInv'
<1>1. op \in {"buy", "sell"} /\ awaiting = {"global"}
  BY ReadsTell DEF PumpInv, ReadGlobal
<1>2. "curve" \in seen.venues /\ "curve" \in Venues
  BY <1>1 DEF PumpInv, TradeInv, Venues
<1> DEFINE r == recipientFor("curve", Mode(got.mayhem))
<1>3. r # "none" => r \in Recipients /\ <<"curve", Mode(got.mayhem), r>> \in seen.accepts
  BY <1>1, <1>2, ModeIsKnown, RecipientIsListed
<1>4. Settled /\ Build("curve", r, recipientFor("curve", "buyback"))
  BY DEF ReadGlobal
<1> HIDE DEF r
<1> QED
  BY <1>1, <1>2, <1>3, <1>4, BuildKeepsTrade

LEMMA ReadPoolKeepsInv ==
    ASSUME PumpInv, ReadPool PROVE PumpInv'
<1>0. /\ UNCHANGED <<curve, pool, fees, deployed, txs, op, amount, seen>> /\ Settled
      /\ UNCHANGED <<built, checks, todo, tradeLog, missed>>
  BY DEF ReadPool, Settled, market, Throws
<1>1. \/ op \in {"buy", "sell"} /\ awaiting \in {{"pool", "config"}, {"pool"}}
      \/ op = "poolState" /\ awaiting = {"pool"}
  BY ReadsTell DEF PumpInv, ReadPool
<1>2. CASE pool.open
  <2>1. awaiting' = (awaiting \ {"pool"}) \cup {"vaults"} /\ got' = [got EXCEPT !.virtual = pool.virtual]
    BY <1>2 DEF ReadPool
  <2>2. \/ op \in {"buy", "sell"} /\ awaiting = {"pool", "config"} /\ awaiting' = {"vaults", "config"}
        \/ op \in {"buy", "sell"} /\ awaiting = {"pool"} /\ awaiting' = {"vaults"}
        \/ op = "poolState" /\ awaiting = {"pool"} /\ awaiting' = {"vaults"}
    BY <1>1, <2>1
  <2>3. awaiting' \in ReadsOf(op)
    BY <2>2, ReadsAllowed DEF TradeReads
  <2>4. /\ DOMAIN got' = {"mayhem", "virtual", "reserves", "config"} /\ got'.mayhem = got.mayhem
        /\ got'.config = got.config /\ got'.reserves = got.reserves /\ got'.virtual = pool.virtual
    BY <2>1 DEF PumpInv, ClientInv
  <2>5. ClientInv'
    BY <1>0, <1>2, <2>3, <2>4 DEF PumpInv, ClientInv
  <2>6. op = "poolState" => \E n \in seen.reserves : n.virtual = pool.virtual
    <3> SUFFICES ASSUME op = "poolState" PROVE \E n \in seen.reserves : n.virtual = pool.virtual
      OBVIOUS
    <3>1. Moment(op, curve, pool, fees, deployed).reserves \subseteq seen.reserves
      BY <1>1 DEF PumpInv, SeenInv, Covers, Sights
    <3>2. [base |-> pool.base, quote |-> pool.quote, virtual |-> pool.virtual]
             \in Moment(op, curve, pool, fees, deployed).reserves
      BY <1>2 DEF Moment
    <3> QED
      BY <3>1, <3>2
  <2>7. TradeInv'
    <3>1. op \in {"buy", "sell"} => got.mayhem = curve.mayhem
      BY <1>1 DEF PumpInv, TradeInv
    <3>2. awaiting' # {"global"}
      BY <2>2
    <3>3. op \in {"buy", "sell"} /\ awaiting' \in {{"pool"}, {"vaults"}} => awaiting = {"pool"}
      BY <2>2
    <3>4. OnlyVirtualIsOlder'
      BY <1>0, <2>4 DEF PumpInv, TradeInv, OnlyVirtualIsOlder
    <3> QED
      BY <1>0, <2>4, <2>6, <3>1, <3>2, <3>3, <3>4 DEF PumpInv, TradeInv, Mode
  <2>8. "transaction" \notin awaiting /\ "transaction" \notin awaiting' /\ awaiting # {}
    BY <1>1, <2>2
  <2> QED
    BY <1>0, <2>5, <2>7, <2>8, ReadKeepsRest
<1>3. CASE ~pool.open
  <2>1. awaiting' = {} /\ got' = got
    BY <1>3 DEF ReadPool, Throws, Answers
  <2>2. ClientInv'
    BY <1>0, <2>1 DEF PumpInv, ClientInv
  <2>3. TradeInv'
    BY <1>0, <2>1 DEF PumpInv, TradeInv, OnlyVirtualIsOlder
  <2>4. "transaction" \notin awaiting /\ awaiting # {}
    BY <1>1
  <2> QED
    BY <1>0, <2>1, <2>2, <2>3, <2>4, ReadKeepsRest
<1> QED
  BY <1>2, <1>3

LEMMA ReadVaultsKeepsInv ==
    ASSUME PumpInv, ReadVaults PROVE PumpInv'
<1> DEFINE g == [got EXCEPT !.reserves = effectiveReserves(pool, got.virtual)]
<1>0. /\ UNCHANGED <<curve, pool, fees, deployed, txs, op, amount, seen>> /\ Settled
      /\ PoolRead(g, awaiting \ {"vaults"}) /\ pool.open
  BY DEF ReadVaults, Settled, market, PumpInv, ClientInv
<1>1. \/ op \in {"buy", "sell"} /\ awaiting \in {{"vaults", "config"}, {"vaults"}}
      \/ op = "poolState" /\ awaiting = {"vaults"}
  BY ReadsTell DEF PumpInv, ReadVaults
<1>2. /\ DOMAIN g = {"mayhem", "virtual", "reserves", "config"} /\ g.mayhem = got.mayhem
      /\ g.config = got.config /\ g.reserves = effectiveReserves(pool, got.virtual)
  BY DEF PumpInv, ClientInv
<1> HIDE DEF g
<1>3. CASE op \in {"buy", "sell"} /\ awaiting = {"vaults"}
  <2>1. Build("pool", got.config.recipient, got.config.buyback)
    <3>1. awaiting \ {"vaults"} = {} /\ op # "poolState"
      BY <1>3
    <3> QED
      BY <1>0, <1>2, <3>1 DEF PoolRead
  <2>2. "pool" \in seen.venues /\ "pool" \in Venues
    BY <1>0, <1>3, TradeSees DEF Venues
  <2>3. got.config.recipient # "none" =>
           <<"pool", Mode(got.mayhem), got.config.recipient>> \in seen.accepts
    BY <1>3 DEF PumpInv, TradeInv
  <2>4. got.config.recipient # "none" => got.config.recipient \in Recipients
    BY <1>3 DEF PumpInv, TradeInv
  <2> QED
    BY <1>0, <1>3, <2>1, <2>2, <2>3, <2>4, BuildKeepsTrade
<1>4. CASE \/ op \in {"buy", "sell"} /\ awaiting = {"vaults", "config"}
           \/ op = "poolState" /\ awaiting = {"vaults"}
  <2>1. /\ awaiting' = awaiting \ {"vaults"} /\ got' = g
        /\ UNCHANGED <<built, checks, todo, tradeLog, missed>>
    <3>1. ~(awaiting \ {"vaults"} = {} /\ op # "poolState")
      BY <1>4
    <3> QED
      BY <1>0, <3>1 DEF PoolRead
  <2>2. \/ op \in {"buy", "sell"} /\ awaiting' = {"config"}
        \/ op = "poolState" /\ awaiting' = {}
    BY <1>4, <2>1
  <2>3. ClientInv'
    <3>1. awaiting' \in {{}} \cup ReadsOf(op)
      BY <2>2, ReadsAllowed DEF TradeReads
    <3> QED
      BY <1>0, <1>2, <2>1, <3>1 DEF PumpInv, ClientInv
  <2>4. TradeInv'
    <3>1. op \in {"buy", "sell"} => got'.mayhem = curve'.mayhem
      BY <1>0, <1>2, <1>4, <2>1 DEF PumpInv, TradeInv
    <3>2. awaiting' \notin {{"pool"}, {"vaults"}, {"global"}}
      BY <2>2
    <3>3. OnlyVirtualIsOlder'
      <4>1. SUFFICES ASSUME op = "poolState"
                     PROVE  \E p, n \in seen.reserves : g.reserves = effectiveReserves(p, n.virtual)
        BY <1>0, <2>1 DEF OnlyVirtualIsOlder
      <4>2. PICK n \in seen.reserves : n.virtual = got.virtual
        BY <1>4, <4>1 DEF PumpInv, TradeInv
      <4> DEFINE p == [base |-> pool.base, quote |-> pool.quote, virtual |-> pool.virtual]
      <4>3. p \in Moment(op, curve, pool, fees, deployed).reserves
        BY <1>0, <4>1 DEF Moment
      <4>4. Moment(op, curve, pool, fees, deployed).reserves \subseteq seen.reserves
        BY <1>4 DEF PumpInv, SeenInv, Covers, Sights
      <4>5. g.reserves = effectiveReserves(p, n.virtual)
        BY <1>2, <4>2 DEF effectiveReserves
      <4> HIDE DEF p
      <4> QED
        BY <4>2, <4>3, <4>4, <4>5
    <3> QED
      BY <1>0, <2>1, <3>1, <3>2, <3>3 DEF PumpInv, TradeInv
  <2>5. "transaction" \notin awaiting /\ "transaction" \notin awaiting' /\ awaiting # {}
    BY <1>4, <2>2
  <2> QED
    BY <1>0, <2>1, <2>3, <2>4, <2>5, ReadKeepsRest
<1> QED
  BY <1>1, <1>3, <1>4

LEMMA ReadConfigKeepsInv ==
    ASSUME PumpInv, ReadConfig PROVE PumpInv'
<1> DEFINE r == recipientFor("pool", Mode(curve.mayhem))
           b == recipientFor("pool", "buyback")
           g == [got EXCEPT !.config = [recipient |-> r, buyback |-> b]]
<1>0. /\ UNCHANGED <<curve, pool, fees, deployed, txs, op, amount, seen>> /\ Settled
      /\ PoolRead(g, awaiting \ {"config"})
  BY DEF ReadConfig, Settled, market
<1>1. /\ op \in {"buy", "sell"} /\ awaiting # {}
      /\ awaiting \in {{"pool", "config"}, {"vaults", "config"}, {"config"}}
  BY ReadsTell DEF PumpInv, ReadConfig
<1>2. /\ DOMAIN g = {"mayhem", "virtual", "reserves", "config"} /\ g.mayhem = got.mayhem
      /\ g.config.recipient = r /\ g.config.buyback = b
  BY DEF PumpInv, ClientInv
<1>3. r # "none" => r \in Recipients /\ <<"pool", Mode(curve.mayhem), r>> \in seen.accepts
  BY <1>1, ModeIsKnown, RecipientIsListed DEF Venues
<1>4. got.mayhem = curve.mayhem
  <2>1. awaiting \notin {{}, {"curve"}}
    BY <1>1
  <2> QED
    BY <1>1, <2>1 DEF PumpInv, TradeInv
<1> HIDE DEF g, r, b
<1>5. CASE awaiting = {"config"}
  <2>1. Build("pool", r, b)
    <3>1. awaiting \ {"config"} = {} /\ op # "poolState"
      BY <1>1, <1>5
    <3> QED
      BY <1>0, <1>2, <3>1 DEF PoolRead
  <2>2. pool.open
    BY <1>5 DEF PumpInv, ClientInv
  <2>3. "pool" \in seen.venues /\ "pool" \in Venues
    BY <1>1, <2>2, TradeSees DEF Venues
  <2> QED
    BY <1>0, <1>1, <1>3, <1>4, <2>1, <2>3, BuildKeepsTrade
<1>6. CASE awaiting \in {{"pool", "config"}, {"vaults", "config"}}
  <2>1. /\ awaiting' = awaiting \ {"config"} /\ got' = g
        /\ UNCHANGED <<built, checks, todo, tradeLog, missed>>
    <3>1. ~(awaiting \ {"config"} = {} /\ op # "poolState")
      BY <1>6
    <3> QED
      BY <1>0, <3>1 DEF PoolRead
  <2>2. awaiting' \in {{"pool"}, {"vaults"}}
    BY <1>6, <2>1
  <2>3. ClientInv'
    <3>1. awaiting' \in {{}} \cup ReadsOf(op)
      BY <1>1, <2>2, ReadsAllowed DEF TradeReads
    <3>2. "vaults" \in awaiting' => "vaults" \in awaiting
      BY <2>1
    <3>3. awaiting' # {"config"}
      BY <2>2
    <3> QED
      BY <1>0, <1>2, <2>1, <3>1, <3>2, <3>3 DEF PumpInv, ClientInv
  <2>4. TradeInv'
    <3>1. got'.mayhem = curve'.mayhem /\ awaiting' # {"global"} /\ op # "poolState"
      BY <1>0, <1>1, <1>2, <1>4, <2>1, <2>2
    <3>2. got'.config.recipient # "none" =>
             <<"pool", Mode(got'.mayhem), got'.config.recipient>> \in seen.accepts
      BY <1>2, <1>3, <1>4, <2>1
    <3>3. got'.config.recipient # "none" => got'.config.recipient \in Recipients
      BY <1>2, <1>3, <2>1
    <3> QED
      BY <1>0, <2>1, <3>1, <3>2, <3>3 DEF PumpInv, TradeInv, OnlyVirtualIsOlder
  <2>5. "transaction" \notin awaiting /\ "transaction" \notin awaiting'
    BY <1>6, <2>2
  <2> QED
    BY <1>0, <1>1, <2>1, <2>3, <2>4, <2>5, ReadKeepsRest
<1> QED
  BY <1>1, <1>5, <1>6

(* Only a trade builds: the other operations leave what it has read.       *)
LEMMA OthersKeepTrade ==
    ASSUME TradeInv, op \notin {"buy", "sell", "poolState"}, UNCHANGED <<op, got, built, seen>> PROVE TradeInv'
  BY DEF TradeInv, OnlyVirtualIsOlder

LEMMA ReadProgramsKeepsInv ==
    ASSUME PumpInv, ReadPrograms PROVE PumpInv'
<1>0. /\ UNCHANGED <<curve, pool, fees, deployed, txs, op, amount, seen>> /\ Settled
      /\ UNCHANGED <<got, built, checks, todo, tradeLog, missed>> /\ awaiting' = {"headers"}
  BY DEF ReadPrograms, Settled, market
<1>1. op = "upgrades" /\ awaiting = {"programs"}
  BY ReadsTell DEF PumpInv, ReadPrograms
<1>2. ClientInv'
  <2>1. awaiting' \in ReadsOf(op)
    BY <1>0, <1>1, ReadsAllowed
  <2> QED
    BY <1>0, <2>1 DEF PumpInv, ClientInv
<1>3. TradeInv'
  BY <1>0, <1>1, OthersKeepTrade DEF PumpInv
<1> QED
  BY <1>0, <1>1, <1>2, <1>3, ReadKeepsRest

LEMMA ReadHeadersKeepsInv ==
    ASSUME PumpInv, ReadHeaders PROVE PumpInv'
<1> DEFINE L == Len(checks)
           N == Len(VerifiedPrograms)
           last == IF L + BatchSize < N THEN L + BatchSize ELSE N
           n == Cardinality(Batch)
           new == [k \in 1..n |-> headerCheck(L + k)]
<1>0. /\ UNCHANGED <<curve, pool, fees, deployed, txs, op, amount, seen>> /\ Settled
      /\ UNCHANGED <<got, built, todo, tradeLog, missed>>
      /\ checks' = checks \o new
      /\ awaiting' = IF Len(checks') < N THEN {"programs"} ELSE {}
  BY DEF ReadHeaders, Settled, market
<1>1. op = "upgrades" /\ awaiting = {"headers"}
  BY ReadsTell DEF PumpInv, ReadHeaders
<1>2. /\ checks \in Seq([program : DOMAIN VerifiedPrograms, upgraded : BOOLEAN])
      /\ L \in Nat /\ N \in Nat /\ L <= N /\ BatchSize \in Nat \ {0} /\ DOMAIN VerifiedPrograms = 1..N
  BY PumpAssumption DEF PumpInv, ChecksInv
<1>3. n = last - L /\ n \in Nat /\ L + n <= N
  <2>1. Batch = (L + 1)..last
    BY DEF Batch
  <2>2. L + 1 \in Int /\ last \in Int /\ L <= last /\ last <= N
    BY <1>2
  <2> HIDE DEF L, last
  <2>3. Cardinality((L + 1)..last) = IF L + 1 > last THEN 0 ELSE last - (L + 1) + 1
    BY <2>2, FS_Interval
  <2> QED
    BY <1>2, <2>1, <2>2, <2>3
<1> HIDE DEF L, N, n, last
<1>4. \A k \in 1..n : L + k \in DOMAIN VerifiedPrograms
  BY <1>2, <1>3
<1>5. new \in Seq([program : DOMAIN VerifiedPrograms, upgraded : BOOLEAN]) /\ Len(new) = n
  <2> DEFINE T == [program : DOMAIN VerifiedPrograms, upgraded : BOOLEAN]
  <2>1. \A k \in 1..n : headerCheck(L + k) \in T
    BY <1>4 DEF headerCheck
  <2> HIDE DEF T
  <2>2. new \in Seq(T) /\ Len(new) = n
    BY <1>3, <2>1
  <2> QED
    BY <2>2 DEF T
<1> HIDE DEF new
<1>6. /\ checks' \in Seq([program : DOMAIN VerifiedPrograms, upgraded : BOOLEAN])
      /\ Len(checks') = L + n
      /\ \A k \in 1..L : checks'[k] = checks[k]
      /\ \A k \in 1..(L + n) : k > L => checks'[k] = new[k - L]
  <2> DEFINE T == [program : DOMAIN VerifiedPrograms, upgraded : BOOLEAN]
  <2>1. checks \in Seq(T) /\ new \in Seq(T) /\ Len(new) = n /\ checks' = checks \o new /\ L = Len(checks)
    BY <1>0, <1>2, <1>5 DEF L
  <2> HIDE DEF T
  <2>2. checks' \in Seq(T) /\ Len(checks') = L + n /\ DOMAIN checks = 1..L
    <3>1. \A p, q \in Seq(T) : p \o q \in Seq(T) /\ Len(p \o q) = Len(p) + Len(q) /\ DOMAIN p = 1..Len(p)
      OBVIOUS
    <3> QED
      BY <2>1, <3>1, Zenon
  <2>3. \A k \in 1..L : checks'[k] = checks[k]
    BY <2>1, <2>2
  <2>4. \A k \in 1..(L + n) : k > L => checks'[k] = new[k - L]
    BY <2>1
  <2> QED
    BY <2>2, <2>3, <2>4 DEF T
<1>7. ChecksAreTrue'
  <2>1. DOMAIN checks' = 1..(L + n) /\ DOMAIN checks = 1..L
    BY <1>2, <1>6 DEF L
  <2>2. ASSUME NEW k \in 1..(L + n)
        PROVE  /\ checks'[k].program = k
               /\ \E d \in seen.deploys : d[1] = k /\ checks'[k].upgraded = (d[2] # 0)
    <3>1. CASE k <= L
      <4>1. k \in 1..L /\ checks'[k] = checks[k]
        BY <1>2, <1>3, <1>6, <3>1
      <4> QED
        BY <2>1, <4>1 DEF PumpInv, ChecksInv, ChecksAreTrue
    <3>2. CASE k > L
      <4>1. k - L \in 1..n /\ L + (k - L) = k
        BY <1>2, <1>3, <3>2
      <4>2. checks'[k] = headerCheck(k)
        <5>1. checks'[k] = new[k - L]
          BY <1>6, <3>2, Zenon
        <5>2. new[k - L] = headerCheck(L + (k - L))
          BY <4>1, Zenon DEF new
        <5> QED
          BY <4>1, <5>1, <5>2
      <4>3. <<k, deployed[k]>> \in seen.deploys
        <5>1. Moment(op, curve, pool, fees, deployed).deploys \subseteq seen.deploys
          BY <1>1 DEF PumpInv, SeenInv, Covers, Sights
        <5>2. Moment(op, curve, pool, fees, deployed).deploys = {<<i, deployed[i]>> : i \in DOMAIN deployed}
          BY <1>1 DEF Moment
        <5>3. k \in DOMAIN deployed
          BY <1>4, <4>1 DEF PumpInv, MarketInv
        <5> QED
          BY <5>1, <5>2, <5>3
      <4> QED
        BY <4>2, <4>3 DEF headerCheck
    <3> QED
      BY <1>2, <1>3, <3>1, <3>2
  <2> QED
    BY <1>0, <2>1, <2>2 DEF ChecksAreTrue
<1>8. ChecksInv'
  BY <1>3, <1>6, <1>7 DEF ChecksInv, N
<1>9. ClientInv'
  <2>1. awaiting' \in {{}} \cup ReadsOf(op)
    BY <1>0, <1>1, ReadsAllowed
  <2> QED
    BY <1>0, <2>1 DEF PumpInv, ClientInv
<1>10. TradeInv'
  BY <1>0, <1>1, OthersKeepTrade DEF PumpInv
<1>11. PagesInv'
  <2>1. "transaction" \notin awaiting /\ "transaction" \notin awaiting'
    BY <1>0, <1>1
  <2> QED
    BY <1>0, <2>1, OtherReadsKeepPages DEF PumpInv
<1>12. MarketInv' /\ SeenInv'
  BY <1>0, <1>1, SettledKeeps DEF PumpInv
<1> QED
  BY <1>8, <1>9, <1>10, <1>11, <1>12 DEF PumpInv

LEMMA BeginKeepsInv ==
    ASSUME PumpInv, NEW o \in DOMAIN FirstRead, NEW a \in Amounts, Begin(o, a) PROVE PumpInv'
<1>0. /\ op' = o /\ amount' = a /\ awaiting' = {FirstRead[o]}
      /\ got' = NothingRead
      /\ built' = NoInstruction /\ checks' = <<>> /\ todo' = <<>>
      /\ seen' = Moment(o, curve, pool, fees, deployed)
      /\ UNCHANGED <<curve, pool, fees, deployed, txs>>
  BY DEF Begin, market
<1>1. o \in {"buy", "sell", "poolState", "upgrades", "trades"} /\ a \in Nat
  BY PumpAssumption DEF FirstRead
<1>2. MarketInv'
  BY <1>0 DEF PumpInv, MarketInv
<1>3. SeenInv'
  <2>1. seen' = Moment(op, curve, pool, fees, deployed)'
    BY <1>0
  <2>2. DOMAIN seen' = Sights
    BY <1>0, MomentSights
  <2> QED
    BY <2>1, <2>2 DEF SeenInv, Covers
<1>4. ClientInv'
  <2>1. awaiting' \in ReadsOf(o) /\ "vaults" \notin awaiting' /\ awaiting' # {"config"}
    BY <1>0, <1>1, ReadsAllowed DEF TradeReads, FirstRead
  <2>2. DOMAIN got' = {"mayhem", "virtual", "reserves", "config"}
    BY <1>0 DEF NothingRead
  <2> QED
    BY <1>0, <1>1, <2>1, <2>2 DEF ClientInv
<1>5. TradeInv'
  <2>1. o \in {"buy", "sell"} => awaiting' = {"curve"}
    BY <1>0, <1>1 DEF FirstRead
  <2>2. got'.reserves = <<>>
    BY <1>0 DEF NothingRead
  <2>3. awaiting' # {"vaults"}
    BY <1>0, <1>1 DEF FirstRead
  <2> QED
    BY <1>0, <2>1, <2>2, <2>3 DEF TradeInv, OnlyVirtualIsOlder
<1>6. ChecksInv'
  BY <1>0, PumpAssumption DEF ChecksInv, ChecksAreTrue
<1>7. PagesInv'
  <2>1. awaiting' # {"transaction"}
    BY <1>0, <1>1, SMTT(30) DEF FirstRead
  <2>2. CASE tradeLog' = <<>>
    <3>1. missed' = {}
      BY <2>2 DEF Begin
    <3> QED
      BY <1>0, <2>1, <2>2, <3>1 DEF PagesInv
  <2>3. CASE tradeLog' # <<>>
    <3>1. o = "trades" /\ op = "trades" /\ tradeLog' = tradeLog /\ missed' = missed /\ awaiting = {}
      BY <2>3 DEF Begin
    <3>2. todo = <<>>
      BY <3>1 DEF PumpInv, PagesInv
    <3>3. \A s : Told(s)' <=> Told(s)
      BY <1>0, <3>1 DEF Told
    <3>4. LastSig' = LastSig
      BY <3>1 DEF LastSig
    <3> QED
      BY <1>0, <2>1, <3>1, <3>2, <3>3, <3>4 DEF PumpInv, PagesInv
  <2> QED
    BY <2>2, <2>3
<1> QED
  BY <1>2, <1>3, <1>4, <1>5, <1>6, <1>7 DEF PumpInv

-----------------------------------------------------------------------------
(* fetchRecentTrades().                                                    *)

LEMMA ReadSignaturesKeepsInv ==
    ASSUME PumpInv, ReadSignatures PROVE PumpInv'
<1>0. /\ UNCHANGED <<curve, pool, fees, deployed, txs, op, amount, seen>> /\ Settled
      /\ UNCHANGED <<got, built, checks, tradeLog, missed>>
      /\ todo' = pageBelow(Cursor) /\ awaiting' = IF todo' = <<>> THEN {} ELSE {"transaction"}
  BY DEF ReadSignatures, Settled, market
<1>1. op = "trades" /\ awaiting = {"signatures"}
  BY ReadsTell DEF PumpInv, ReadSignatures
<1>2. ClientInv'
  <2>1. awaiting' \in {{}} \cup ReadsOf(op) /\ "vaults" \notin awaiting' /\ awaiting' # {"config"}
    BY <1>0, <1>1, ReadsAllowed
  <2> QED
    BY <1>0, <2>1 DEF PumpInv, ClientInv
<1>3. TradeInv' /\ ChecksInv' /\ MarketInv' /\ SeenInv'
  BY <1>0, <1>1, OthersKeepTrade, OtherReadsKeepChecks, SettledKeeps DEF PumpInv
<1>4. /\ txs \in Seq(0..2) /\ tradeLog \in Seq((DOMAIN txs) \X (1..2)) /\ todo = <<>>
      /\ PageLimit \in Nat \ {0}
  BY <1>1, PumpAssumption DEF PumpInv, MarketInv, PagesInv
<1> DEFINE n == IF Cursor - 1 < PageLimit THEN Cursor - 1 ELSE PageLimit
<1>5. /\ Cursor \in Int /\ 1 <= Cursor /\ Cursor <= Len(txs) + 1 /\ Len(txs) \in Nat
      /\ tradeLog # <<>> => Cursor = LastSig
  <2>1. CASE tradeLog = <<>>
    BY <1>4, <2>1 DEF Cursor
  <2>2. CASE tradeLog # <<>>
    <3>1. Len(tradeLog) \in DOMAIN tradeLog /\ Last(tradeLog) = tradeLog[Len(tradeLog)]
      BY <1>4, <2>2 DEF Last
    <3>2. LastSig \in 1..Len(txs) /\ Cursor = LastSig
      BY <1>4, <2>2, <3>1 DEF Cursor, LastSig
    <3> QED
      BY <1>4, <3>2
  <2> QED
    BY <2>1, <2>2
<1>6. todo' = [k \in 1..n |-> Cursor - k] /\ n \in Nat /\ n <= Cursor - 1
  BY <1>0, <1>4, <1>5 DEF pageBelow
<1> HIDE DEF n
<1>7. todo' \in Seq(DOMAIN txs) /\ \A k \in DOMAIN todo' : todo'[k] = Cursor - k
  <2>1. DOMAIN txs = 1..Len(txs)
    BY <1>4
  <2>2. \A k \in 1..n : Cursor - k \in DOMAIN txs
    BY <1>5, <1>6, <2>1
  <2> QED
    BY <1>6, <2>2
<1>8. todo' # <<>> => 1 \in DOMAIN todo' /\ todo'[1] = Cursor - 1
  BY <1>7
<1>9. PagesInv'
  <2>1. \A s : Told(s)' <=> Told(s)
    BY <1>0 DEF Told
  <2>2. LastSig' = LastSig
    BY <1>0 DEF LastSig
  <2>3. \A k \in DOMAIN todo' : todo'[k] = todo'[1] - k + 1
    <3>1. \A k \in DOMAIN todo' : todo' # <<>> /\ k \in Int
      BY <1>7
    <3> QED
      BY <1>5, <1>7, <1>8, <3>1
  <2>4. tradeLog # <<>> =>
           /\ todo' # <<>> => todo'[1] < LastSig /\ todo'[1] + 1 = LastSig
           /\ \A s \in DOMAIN txs : s <= tradeLog[1][1] /\ s >= LastSig => Told(s)
    BY <1>4, <1>5, <1>8 DEF PumpInv, PagesInv
  <2>5. todo' # <<>> <=> awaiting' = {"transaction"}
    BY <1>0
  <2> QED
    BY <1>0, <1>7, <2>1, <2>2, <2>3, <2>4, <2>5 DEF PumpInv, PagesInv
<1> QED
  BY <1>2, <1>3, <1>9 DEF PumpInv

(* The signatures still to read, and the trades of one transaction put     *)
(* after the others.                                                       *)
LEMMA TailDescends ==
    ASSUME NEW D \in SUBSET Nat, NEW q \in Seq(D), q # <<>>,
           \A k \in DOMAIN q : q[k] = q[1] - k + 1
    PROVE  /\ Head(q) = q[1] /\ q[1] \in D
           /\ Tail(q) \in Seq(D) /\ \A k \in DOMAIN Tail(q) : Tail(q)[k] = q[1] - k
           /\ Tail(q) # <<>> => 1 \in DOMAIN Tail(q)
<1>1. Len(q) \in Nat \ {0} /\ DOMAIN q = 1..Len(q) /\ Head(q) = q[1] /\ q[1] \in D
  OBVIOUS
<1>2. Tail(q) \in Seq(D) /\ Len(Tail(q)) = Len(q) - 1 /\ DOMAIN Tail(q) = 1..(Len(q) - 1)
  OBVIOUS
<1>3. \A k \in 1..(Len(q) - 1) : Tail(q)[k] = q[k + 1] /\ k + 1 \in DOMAIN q /\ k \in Nat
  BY <1>1
<1>4. \A k \in DOMAIN Tail(q) : Tail(q)[k] = q[1] - k
  <2> SUFFICES ASSUME NEW k \in DOMAIN Tail(q) PROVE Tail(q)[k] = q[1] - k
    OBVIOUS
  <2>1. Tail(q)[k] = q[k + 1] /\ k + 1 \in DOMAIN q /\ k \in Nat
    BY <1>2, <1>3
  <2>2. q[k + 1] = q[1] - (k + 1) + 1
    BY <2>1
  <2>3. q[1] \in Nat
    BY <1>1
  <2>4. \A a, b \in Nat : a - (b + 1) + 1 = a - b
    OBVIOUS
  <2> QED
    BY <2>1, <2>2, <2>3, <2>4
<1>5. Tail(q) # <<>> => 1 \in DOMAIN Tail(q)
  BY <1>2
<1> QED
  BY <1>1, <1>2, <1>4, <1>5

LEMMA PutAfter ==
    ASSUME NEW T, NEW p \in Seq(T), NEW q \in Seq(T)
    PROVE  /\ p \o q \in Seq(T) /\ Len(p \o q) = Len(p) + Len(q)
           /\ Len(p) \in Nat /\ Len(q) \in Nat
           /\ DOMAIN p = 1..Len(p) /\ DOMAIN (p \o q) = 1..(Len(p) + Len(q))
           /\ \A i \in 1..Len(p) : (p \o q)[i] = p[i]
           /\ \A i \in 1..(Len(p) + Len(q)) : i > Len(p) => (p \o q)[i] = q[i - Len(p)]
OBVIOUS

(* Reading one transaction lists its trades after the others, or notes     *)
(* that it was not found.                                                  *)
LEMMA ReadTransactionKeepsPages ==
    ASSUME PagesInv, txs \in Seq(0..2), NEW found \in BOOLEAN, ReadTransaction(found),
           op = "trades", awaiting = {"transaction"}, UNCHANGED <<op, txs>>
    PROVE  PagesInv'
<1> DEFINE sig == Head(todo)
           own == [k \in 1..txs[sig] |-> <<sig, k>>]
           last == Len(tradeLog)
           m == Len(tradeLog')
<1>0. /\ tradeLog' = IF found THEN tradeLog \o own ELSE tradeLog
      /\ missed' = IF found THEN missed ELSE missed \cup {sig}
      /\ todo' = Tail(todo) /\ awaiting' = IF todo' = <<>> THEN {} ELSE {"transaction"}
  BY DEF ReadTransaction
<1>1. /\ tradeLog \in Seq((DOMAIN txs) \X (1..2)) /\ todo \in Seq(DOMAIN txs) /\ todo # <<>>
      /\ \A k \in DOMAIN todo : todo[k] = todo[1] - k + 1
      /\ missed \subseteq DOMAIN txs
  BY <1>0 DEF PagesInv, ReadTransaction
<1>2. sig \in DOMAIN txs /\ sig = todo[1] /\ sig \in Nat /\ txs[sig] \in 0..2
  BY <1>1
<1>3. /\ todo' \in Seq(DOMAIN txs) /\ (todo' # <<>> => todo'[1] = sig - 1)
      /\ \A k \in DOMAIN todo' : todo'[k] = sig - k
  <2>1. DOMAIN txs \in SUBSET Nat
    OBVIOUS
  <2>2. /\ Tail(todo) \in Seq(DOMAIN txs) /\ \A k \in DOMAIN Tail(todo) : Tail(todo)[k] = todo[1] - k
        /\ Tail(todo) # <<>> => 1 \in DOMAIN Tail(todo)
    <3>1. todo \in Seq(DOMAIN txs) /\ todo # <<>> /\ \A k \in DOMAIN todo : todo[k] = todo[1] - k + 1
      BY <1>1
    <3> QED
      BY <2>1, <3>1, TailDescends, Zenon
  <2> QED
    BY <1>0, <1>2, <2>2, Zenon
<1>5. own \in Seq((DOMAIN txs) \X (1..2)) /\ Len(own) = txs[sig] /\ \A k \in 1..txs[sig] : own[k] = <<sig, k>>
  BY <1>2
<1> HIDE DEF sig, own
<1>4. \A k \in DOMAIN todo' : todo'[k] = todo'[1] - k + 1
  <2>1. \A k \in DOMAIN todo' : todo' # <<>> /\ k \in Int
    BY <1>3
  <2> QED
    BY <1>2, <1>3, <2>1
<1>6. /\ last \in Nat /\ m \in Nat /\ last <= m /\ DOMAIN tradeLog = 1..last /\ DOMAIN tradeLog' = 1..m
      /\ tradeLog' \in Seq((DOMAIN txs) \X (1..2))
      /\ \A i \in 1..last : tradeLog'[i] = tradeLog[i]
      /\ \A i \in 1..m : i > last => i - last \in 1..txs[sig] /\ tradeLog'[i] = own[i - last]
      /\ found => m = last + txs[sig]
  <2>1. CASE found
    <3>1. tradeLog' = tradeLog \o own
      BY <1>0, <2>1
    <3>2. /\ tradeLog' \in Seq((DOMAIN txs) \X (1..2)) /\ m = last + txs[sig] /\ last \in Nat
          /\ DOMAIN tradeLog = 1..last /\ DOMAIN tradeLog' = 1..(last + txs[sig])
          /\ \A i \in 1..last : tradeLog'[i] = tradeLog[i]
          /\ \A i \in 1..(last + txs[sig]) : i > last => tradeLog'[i] = own[i - last]
      <4>1. tradeLog \in Seq((DOMAIN txs) \X (1..2)) /\ own \in Seq((DOMAIN txs) \X (1..2))
        BY <1>1, <1>5
      <4>2. /\ tradeLog \o own \in Seq((DOMAIN txs) \X (1..2))
            /\ Len(tradeLog \o own) = Len(tradeLog) + Len(own) /\ Len(tradeLog) \in Nat
            /\ DOMAIN tradeLog = 1..Len(tradeLog)
            /\ DOMAIN (tradeLog \o own) = 1..(Len(tradeLog) + Len(own))
            /\ \A i \in 1..Len(tradeLog) : (tradeLog \o own)[i] = tradeLog[i]
            /\ \A i \in 1..(Len(tradeLog) + Len(own)) :
                  i > Len(tradeLog) => (tradeLog \o own)[i] = own[i - Len(tradeLog)]
        <5> DEFINE T == (DOMAIN txs) \X (1..2)
        <5>1. tradeLog \in Seq(T) /\ own \in Seq(T)
          BY <4>1
        <5> HIDE DEF T
        <5>2. \A p, q \in Seq(T) :
                 /\ p \o q \in Seq(T) /\ Len(p \o q) = Len(p) + Len(q) /\ Len(p) \in Nat
                 /\ DOMAIN p = 1..Len(p) /\ DOMAIN (p \o q) = 1..(Len(p) + Len(q))
                 /\ \A i \in 1..Len(p) : (p \o q)[i] = p[i]
                 /\ \A i \in 1..(Len(p) + Len(q)) : i > Len(p) => (p \o q)[i] = q[i - Len(p)]
          BY PutAfter
        <5> QED
          BY <5>1, <5>2, Zenon DEF T
      <4> QED
        BY <1>5, <3>1, <4>2, Zenon
    <3> HIDE DEF last, m
    <3>3. \A i \in 1..(last + txs[sig]) : i > last => i - last \in 1..txs[sig]
      BY <1>2, <3>2
    <3>4. m \in Nat /\ last <= m
      BY <1>2, <3>2
    <3> QED
      BY <3>2, <3>3, <3>4
  <2>2. CASE ~found
    <3>1. tradeLog' = tradeLog /\ m = last /\ last \in Nat /\ DOMAIN tradeLog = 1..last
      BY <1>0, <1>1, <2>2
    <3> HIDE DEF last, m
    <3>2. \A i \in 1..m : ~(i > last)
      BY <3>1
    <3> QED
      BY <1>1, <2>2, <3>1, <3>2
  <2> QED
    BY <2>1, <2>2
<1>7. missed' \subseteq DOMAIN txs /\ missed \subseteq missed' /\ (~found => sig \in missed')
  BY <1>0, <1>1, <1>2 DEF sig
<1>8. \A i \in 1..m : i > last => tradeLog'[i] = <<sig, i - last>>
  BY <1>5, <1>6, Zenon
<1>9. found => \A k \in 1..txs[sig] : last + k \in 1..m /\ tradeLog'[last + k] = <<sig, k>>
  <2> HAVE found
  <2> TAKE k \in 1..txs[sig]
  <2>1. last + k \in 1..m /\ last + k > last /\ (last + k) - last = k
    <3> HIDE DEF last, m
    <3> QED
      BY <1>2, <1>6
  <2> QED
    BY <1>8, <2>1, Zenon
<1>a. /\ \A i, j \in 1..last :
            i < j => \/ tradeLog[i][1] > tradeLog[j][1]
                     \/ tradeLog[i][1] = tradeLog[j][1] /\ tradeLog[i][2] < tradeLog[j][2]
      /\ LastSig = tradeLog[last][1] /\ (tradeLog # <<>> => todo[1] < LastSig)
  BY <1>1, <1>6 DEF PagesInv, LastSig
<1>b. tradeLog # <<>> <=> last # 0
  BY <1>1
<1>c. LastSig' = tradeLog'[m][1] /\ (tradeLog' # <<>> <=> m # 0)
  BY <1>6 DEF LastSig
<1> HIDE DEF last, m
<1>10. \A i \in 1..last : tradeLog[i][1] \in Nat /\ tradeLog[i][1] > sig
  <2>1. last # 0 => last \in 1..last
    BY <1>6
  <2>2. \A i \in 1..last : last # 0 /\ tradeLog[i][1] \in Nat
    BY <1>1, <1>6
  <2> SUFFICES ASSUME NEW i \in 1..last PROVE tradeLog[i][1] > sig
    BY <2>2
  <2>3. tradeLog[last][1] \in Nat /\ tradeLog[last][1] > sig /\ tradeLog[i][1] \in Nat
    BY <1>2, <1>a, <1>b, <2>1, <2>2
  <2>4. i = last \/ i < last
    BY <1>6
  <2>5. tradeLog[i][1] >= tradeLog[last][1]
    BY <1>a, <2>1, <2>2, <2>3, <2>4
  <2> QED
    BY <1>2, <2>3, <2>5
<1>11. \A i, j \in DOMAIN tradeLog' :
          i < j => \/ tradeLog'[i][1] > tradeLog'[j][1]
                   \/ tradeLog'[i][1] = tradeLog'[j][1] /\ tradeLog'[i][2] < tradeLog'[j][2]
  <2> SUFFICES ASSUME NEW i \in 1..m, NEW j \in 1..m, i < j
               PROVE  \/ tradeLog'[i][1] > tradeLog'[j][1]
                      \/ tradeLog'[i][1] = tradeLog'[j][1] /\ tradeLog'[i][2] < tradeLog'[j][2]
    BY <1>6
  <2>1. CASE j <= last
    <3>1. i \in 1..last /\ j \in 1..last
      BY <1>6, <2>1
    <3>2. tradeLog'[i] = tradeLog[i] /\ tradeLog'[j] = tradeLog[j]
      BY <1>6, <3>1
    <3> QED
      BY <1>a, <3>1, <3>2
  <2>2. CASE i <= last /\ j > last
    <3>1. i \in 1..last /\ tradeLog'[j] = <<sig, j - last>> /\ tradeLog'[i] = tradeLog[i]
      BY <1>6, <1>8, <2>2
    <3> QED
      BY <1>10, <3>1
  <2>3. CASE i > last
    <3>1. tradeLog'[i] = <<sig, i - last>> /\ tradeLog'[j] = <<sig, j - last>>
      BY <1>6, <1>8, <2>3
    <3> QED
      BY <1>6, <3>1
  <2> QED
    BY <1>6, <2>1, <2>2, <2>3
<1>d. \A s : Told(s)' <=> (s \in missed' \/ \A k \in 1..txs[s] : \E i \in 1..m : tradeLog'[i] = <<s, k>>)
  BY <1>6 DEF Told
<1>12. \A s : s = sig => Told(s)'
  BY <1>7, <1>9, <1>d, Zenon
<1>13. \A s : Told(s) => Told(s)'
  <2>1. \A i \in DOMAIN tradeLog : i \in 1..m /\ tradeLog'[i] = tradeLog[i]
    BY <1>6
  <2> SUFFICES ASSUME NEW s, Told(s)
               PROVE  s \in missed' \/ \A k \in 1..txs[s] : \E i \in 1..m : tradeLog'[i] = <<s, k>>
    BY <1>d, Zenon
  <2>2. CASE s \in missed
    BY <1>7, <2>2
  <2>3. CASE \A k \in 1..txs[s] : \E i \in DOMAIN tradeLog : tradeLog[i] = <<s, k>>
    BY <2>1, <2>3, Zenon
  <2> QED
    BY <2>2, <2>3 DEF Told
<1>14. tradeLog' # <<>> =>
          /\ todo' # <<>> => todo'[1] < LastSig'
          /\ \A s \in DOMAIN txs' :
                s <= tradeLog'[1][1] /\ s >= (IF todo' = <<>> THEN LastSig' ELSE todo'[1] + 1) => Told(s)'
  <2> SUFFICES ASSUME tradeLog' # <<>>
               PROVE  /\ LastSig' \in Nat /\ LastSig' >= sig
                      /\ \A s \in DOMAIN txs : s <= tradeLog'[1][1] /\ s >= sig => Told(s)'
    <3> DEFINE GoOn(s) == Told(s)'
    <3> HIDE DEF GoOn
    <3>1. ASSUME NEW l \in Nat, l >= sig, NEW f, \A s \in DOMAIN txs : s <= f /\ s >= sig => GoOn(s)
          PROVE  /\ todo' # <<>> => todo'[1] < l
                 /\ \A s \in DOMAIN txs : s <= f /\ s >= (IF todo' = <<>> THEN l ELSE todo'[1] + 1) => GoOn(s)
      <4>1. todo' # <<>> => todo'[1] < l /\ todo'[1] + 1 = sig
        BY <1>2, <1>3, <3>1
      <4>2. \A s \in DOMAIN txs : s \in Nat /\ (s >= l => s >= sig)
        BY <1>2, <3>1
      <4> QED
        BY <3>1, <4>1, <4>2
    <3> QED
      BY <3>1, Zenon DEF GoOn
  <2>1. m \in 1..m /\ 1 \in 1..m
    BY <1>6, <1>c
  <2>2. LastSig' \in Nat /\ LastSig' >= sig
    <3>1. CASE m > last
      BY <1>2, <1>8, <1>c, <2>1, <3>1
    <3>2. CASE m = last
      BY <1>2, <1>6, <1>10, <1>c, <2>1, <3>2
    <3> QED
      BY <1>6, <3>1, <3>2
  <2>3. CASE last = 0
    <3>1. tradeLog'[1][1] = sig
      BY <1>8, <2>1, <2>3
    <3>2. \A s \in DOMAIN txs : s <= sig /\ s >= sig => s = sig
      BY <1>2
    <3> QED
      BY <1>12, <2>2, <3>1, <3>2, Zenon
  <2>4. CASE last # 0
    <3>1. tradeLog'[1] = tradeLog[1] /\ tradeLog # <<>>
      BY <1>6, <1>b, <2>4
    <3>2. \A s \in DOMAIN txs : s <= tradeLog[1][1] /\ s >= sig + 1 => Told(s)
      BY <1>1, <1>2, <3>1 DEF PagesInv
    <3>3. \A s \in DOMAIN txs : s >= sig => s = sig \/ s >= sig + 1
      BY <1>2
    <3> QED
      BY <1>12, <1>13, <2>2, <3>1, <3>2, <3>3, Zenon
  <2> QED
    BY <2>3, <2>4
<1>15. todo' # <<>> <=> awaiting' = {"transaction"}
  BY <1>0
<1> QED
  BY <1>3, <1>4, <1>6, <1>7, <1>11, <1>14, <1>15 DEF PagesInv

LEMMA ReadTransactionKeepsInv ==
    ASSUME PumpInv, NEW found \in BOOLEAN, ReadTransaction(found) PROVE PumpInv'
<1>0. /\ UNCHANGED <<curve, pool, fees, deployed, txs, op, amount, seen>> /\ Settled
      /\ UNCHANGED <<got, built, checks>>
      /\ awaiting' = IF todo' = <<>> THEN {} ELSE {"transaction"}
  BY DEF ReadTransaction, Settled, market
<1>1. op = "trades" /\ awaiting = {"transaction"}
  BY ReadsTell DEF PumpInv, ReadTransaction
<1>2. ClientInv'
  <2>1. awaiting' \in {{}} \cup ReadsOf(op) /\ "vaults" \notin awaiting' /\ awaiting' # {"config"}
    BY <1>0, <1>1, ReadsAllowed
  <2> QED
    BY <1>0, <2>1 DEF PumpInv, ClientInv
<1>3. TradeInv' /\ ChecksInv' /\ MarketInv' /\ SeenInv'
  BY <1>0, <1>1, OthersKeepTrade, OtherReadsKeepChecks, SettledKeeps DEF PumpInv
<1>4. PagesInv'
  BY <1>0, <1>1, ReadTransactionKeepsPages DEF PumpInv, MarketInv
<1> QED
  BY <1>2, <1>3, <1>4 DEF PumpInv

-----------------------------------------------------------------------------
(* Where the market starts, and every step.                                *)

LEMMA PumpInitInv == PumpInit => PumpInv
<1> SUFFICES ASSUME PumpInit PROVE PumpInv
  OBVIOUS
<1>0. /\ \E mayhem \in BOOLEAN :
            curve = [vsol |-> 3, vtok |-> 5, real |-> 2, complete |-> FALSE, mayhem |-> mayhem]
      /\ pool = [open |-> FALSE, base |-> 3, quote |-> 4, virtual |-> 1, moves |-> 0]
      /\ fees = [curve |-> [open |-> Recipients, reserved |-> Recipients, buyback |-> Recipients],
                 pool |-> [open |-> Recipients, reserved |-> Recipients, buyback |-> Recipients],
                 moves |-> 0]
      /\ deployed = [i \in DOMAIN VerifiedPrograms |-> 0] /\ txs = <<>>
      /\ op = "none" /\ amount = 0 /\ awaiting = {}
      /\ got = NothingRead
      /\ built = NoInstruction
      /\ checks = <<>> /\ todo = <<>> /\ tradeLog = <<>> /\ missed = {}
      /\ seen = Moment(op, curve, pool, fees, deployed)
  BY DEF PumpInit
<1>1. MarketInv
  <2>1. curve \in CurveType /\ curve.complete = (curve.real = 0)
    <3>1. PICK mayhem \in BOOLEAN :
             curve = [vsol |-> 3, vtok |-> 5, real |-> 2, complete |-> FALSE, mayhem |-> mayhem]
      BY <1>0
    <3>2. curve \in CurveType
      BY <3>1 DEF CurveType
    <3>3. curve.complete = FALSE /\ curve.real = 2
      BY <3>1
    <3>4. (curve.real = 0) = FALSE
      BY <3>3
    <3> QED
      BY <3>2, <3>3, <3>4, Zenon
  <2>2. pool \in PoolType /\ ~pool.open /\ txs \in Seq(0..2)
    BY <1>0 DEF PoolType
  <2>3. fees \in FeesType /\ deployed \in [DOMAIN VerifiedPrograms -> 0..1]
    BY <1>0 DEF FeesType, RecipientLists
  <2> QED
    BY <2>1, <2>2, <2>3 DEF MarketInv
<1>2. ClientInv
  BY <1>0 DEF ClientInv, NothingRead
<1>3. SeenInv
  BY <1>0 DEF SeenInv, Moment, Sights
<1>4. TradeInv
  BY <1>0 DEF TradeInv, OnlyVirtualIsOlder
<1>5. ChecksInv
  <2>1. VerifiedPrograms \in Seq(STRING)
    BY PumpAssumption
  <2> QED
    BY <1>0, <2>1 DEF ChecksInv, ChecksAreTrue
<1>6. PagesInv
  BY <1>0 DEF PagesInv
<1> QED
  BY <1>1, <1>2, <1>3, <1>4, <1>5, <1>6 DEF PumpInv

LEMMA PumpNextInv == PumpInv /\ [PumpNext]_pumpVars => PumpInv'
<1> SUFFICES ASSUME PumpInv, [PumpNext]_pumpVars PROVE PumpInv'
  OBVIOUS
<1>1. ASSUME NEW n \in 1..2,
             \/ CurveTrades(n) \/ Migrates \/ PoolTrades(1)
             \/ \E v \in 0..1 : VirtualChanges(v)
             \/ \E v \in Venues, m \in Modes \cup {"buyback"}, R \in SUBSET Recipients : FeesChange(v, m, R)
             \/ \E i \in DOMAIN VerifiedPrograms : Redeploys(i)
      PROVE  PumpInv'
  <2>1. MarketInv
    BY DEF PumpInv
  <2> QED
    BY <1>1, <2>1, MarketKeepsInv, MarketKeepsPumpInv, Zenon
<1>2. CASE \E o \in DOMAIN FirstRead, a \in Amounts : Begin(o, a)
  BY <1>2, BeginKeepsInv, Zenon
<1>3. CASE \E found \in BOOLEAN : ReadTransaction(found)
  BY <1>3, ReadTransactionKeepsInv, Zenon
<1>4. CASE UNCHANGED pumpVars
  <2>1. UNCHANGED <<curve, pool, fees, deployed, txs, op, amount, awaiting, got, built, checks, todo,
                    tradeLog, missed, seen>>
    BY <1>4 DEF pumpVars
  <2>2. MarketInv' /\ ClientInv'
    BY <2>1 DEF PumpInv, MarketInv, ClientInv
  <2>3. SeenInv'
    BY <2>1 DEF PumpInv, SeenInv, Covers
  <2>4. TradeInv' /\ ChecksInv'
    BY <2>1 DEF PumpInv, TradeInv, OnlyVirtualIsOlder, ChecksInv, ChecksAreTrue
  <2>5. PagesInv'
    <3>1. \A s : Told(s)' <=> Told(s)
      BY <2>1 DEF Told
    <3>2. LastSig' = LastSig
      BY <2>1 DEF LastSig
    <3> QED
      BY <2>1, <3>1, <3>2 DEF PumpInv, PagesInv
  <2> QED
    BY <2>2, <2>3, <2>4, <2>5 DEF PumpInv
<1>5. 1 \in 1..2
  OBVIOUS
<1> QED
  BY <1>1, <1>2, <1>3, <1>4, <1>5, ReadCurveKeepsInv, ReadGlobalKeepsInv, ReadPoolKeepsInv,
     ReadVaultsKeepsInv, ReadConfigKeepsInv, ReadProgramsKeepsInv, ReadHeadersKeepsInv,
     ReadSignaturesKeepsInv, Zenon DEF PumpNext

(* The quotes round up by arithmetic, whatever the reserves.               *)
LEMMA QuotesRoundUp ==
    ASSUME MarketInv PROVE QuotesAreExact
<1> SUFFICES ASSUME NEW x \in 0..4
             PROVE  LET after == x - feeOf(x)
                        p == effectiveReserves(pool, pool.virtual)
                        sold == CeilDiv(curve.vsol * x, curve.vtok + x)
                        swapped == CeilDiv(p.quote * x, p.base + x)
                    IN /\ tokensOutForSolIn(x, curve) = CeilDiv(curve.vtok * after, curve.vsol + after)
                       /\ solOutForTokensIn(x, curve) = sold - feeOf(sold)
                       /\ ammTokensOut(x, p) = CeilDiv(p.base * after, p.quote + after)
                       /\ ammSolOut(x, p) = swapped - feeOf(swapped)
  BY DEF QuotesAreExact
<1> DEFINE after == x - feeOf(x)
           p == effectiveReserves(pool, pool.virtual)
<1>1. x \in Nat /\ after \in Nat
  BY FeeIsPart
<1>2. /\ curve.vsol \in Nat \ {0} /\ curve.vtok \in Nat \ {0}
      /\ p.base \in Nat \ {0} /\ p.quote \in Nat \ {0}
  BY DEF MarketInv, CurveType, PoolType, effectiveReserves
<1>3. \A from, to \in Nat \ {0} : \A in \in {x, after} :
         outOf(in, from, to) = CeilDiv(to * in, from + in)
  <2> TAKE from, to \in Nat \ {0}
  <2> TAKE in \in {x, after}
  <2>1. in \in Nat /\ to \in Nat
    BY <1>1, Zenon
  <2> QED
    BY <2>1, OutIsRoundedUp, Zenon
<1>4. /\ tokensOutForSolIn(x, curve) = outOf(after, curve.vsol, curve.vtok)
      /\ ammTokensOut(x, p) = outOf(after, p.quote, p.base)
  BY DEF tokensOutForSolIn, ammTokensOut
<1>5. /\ outOf(after, curve.vsol, curve.vtok) = CeilDiv(curve.vtok * after, curve.vsol + after)
      /\ outOf(after, p.quote, p.base) = CeilDiv(p.base * after, p.quote + after)
      /\ outOf(x, curve.vtok, curve.vsol) = CeilDiv(curve.vsol * x, curve.vtok + x)
      /\ outOf(x, p.base, p.quote) = CeilDiv(p.quote * x, p.base + x)
  BY <1>2, <1>3, Zenon
<1> HIDE DEF p, after
<1>6. /\ solOutForTokensIn(x, curve) =
            CeilDiv(curve.vsol * x, curve.vtok + x) - feeOf(CeilDiv(curve.vsol * x, curve.vtok + x))
      /\ ammSolOut(x, p) =
            CeilDiv(p.quote * x, p.base + x) - feeOf(CeilDiv(p.quote * x, p.base + x))
  BY <1>5, Zenon DEF solOutForTokensIn, ammSolOut
<1> QED
  BY <1>4, <1>5, <1>6, Zenon DEF after, p

LEMMA PumpInvIsSafe == PumpInv => PumpSafe
<1> SUFFICES ASSUME PumpInv PROVE PumpSafe
  OBVIOUS
<1>1. PumpTypeOK
  <2>1. awaiting \in {{}} \cup TradeReads \cup {{"programs"}, {"headers"}, {"signatures"}, {"transaction"}}
    <3>1. op \in {"buy", "sell", "poolState", "upgrades", "trades", "none"}
      BY DEF PumpInv, ClientInv, FirstRead
    <3>2. awaiting = {} \/ awaiting \in ReadsOf(op)
      BY DEF PumpInv, ClientInv
    <3>3. ReadsOf("none") = {}
      BY DEF ReadsOf
    <3> QED
      BY <3>1, <3>2, <3>3, ReadsAllowed DEF TradeReads
  <2>2. /\ {"curve"} = {FirstRead["buy"]} /\ {"pool"} = {FirstRead["poolState"]}
        /\ {"programs"} = {FirstRead["upgrades"]} /\ {"signatures"} = {FirstRead["trades"]}
        /\ {"buy", "poolState", "upgrades", "trades"} \subseteq DOMAIN FirstRead
    BY DEF FirstRead
  <2>3. \A r \in {"curve", "pool", "programs", "signatures"} :
           {r} \in {{q} : q \in {FirstRead[o] : o \in DOMAIN FirstRead}}
    BY <2>2
  <2>4. \/ awaiting \in {{}} \cup {{r} : r \in {FirstRead[o] : o \in DOMAIN FirstRead}}
        \/ awaiting \in {{"global"}, {"headers"}, {"transaction"}, {"vaults"}, {"config"},
                         {"pool", "config"}, {"vaults", "config"}}
    BY <2>1, <2>3, Zenon DEF TradeReads
  <2>5. /\ curve.complete = (curve.real = 0) /\ (pool.open => curve.complete) /\ txs \in Seq(0..2)
        /\ op \in DOMAIN FirstRead \cup {"none"} /\ amount \in Nat
    BY DEF PumpInv, MarketInv, ClientInv
  <2>6. built # NoInstruction => built.venue \in Venues /\ built.recipient \in Recipients
    BY DEF PumpInv, TradeInv
  <2>7. missed \subseteq DOMAIN txs /\ \A k \in DOMAIN todo : todo[k] \in DOMAIN txs
    BY DEF PumpInv, PagesInv
  <2> QED
    BY <2>4, <2>5, <2>6, <2>7 DEF PumpTypeOK
<1>2. BuiltForALiveVenue /\ RecipientIsAccepted /\ OnlyVirtualIsOlder
  BY DEF PumpInv, TradeInv, BuiltForALiveVenue, RecipientIsAccepted
<1>3. ChecksAreTrue
  BY DEF PumpInv, ChecksInv
<1>4. PagesJoinUp
  <2>1. \A i, j \in DOMAIN tradeLog :
           i < j => \/ tradeLog[i][1] > tradeLog[j][1]
                    \/ tradeLog[i][1] = tradeLog[j][1] /\ tradeLog[i][2] < tradeLog[j][2]
    BY DEF PumpInv, PagesInv
  <2>2. ASSUME tradeLog # <<>>, NEW s \in Last(tradeLog)[1]..Head(tradeLog)[1]
        PROVE  s \in missed \/ \A k \in 1..txs[s] : \E i \in DOMAIN tradeLog : tradeLog[i] = <<s, k>>
    <3>1. tradeLog \in Seq((DOMAIN txs) \X (1..2)) /\ txs \in Seq(0..2)
      BY DEF PumpInv, PagesInv, MarketInv
    <3>2. Last(tradeLog)[1] = LastSig /\ Head(tradeLog) = tradeLog[1]
      BY <2>2, <3>1 DEF Last, LastSig
    <3>3. /\ tradeLog[1] \in (DOMAIN txs) \X (1..2) /\ tradeLog[Len(tradeLog)] \in (DOMAIN txs) \X (1..2)
      BY <2>2, <3>1
    <3>4. tradeLog[1][1] \in 1..Len(txs) /\ LastSig \in 1..Len(txs) /\ DOMAIN txs = 1..Len(txs) /\ Len(txs) \in Nat
      BY <3>1, <3>3 DEF LastSig
    <3>5. s \in DOMAIN txs /\ s \in Nat /\ s <= tradeLog[1][1] /\ s >= LastSig
      BY <2>2, <3>2, <3>4
    <3>6. todo # <<>> => todo[1] \in Nat /\ todo[1] < LastSig
      BY <2>2 DEF PumpInv, PagesInv, MarketInv
    <3>7. s >= (IF todo = <<>> THEN LastSig ELSE todo[1] + 1)
      BY <3>4, <3>5, <3>6
    <3> QED
      BY <2>2, <3>5, <3>7 DEF PumpInv, PagesInv, Told
  <2> QED
    BY <2>1, <2>2 DEF PagesJoinUp
<1>5. QuotesAreExact
  BY QuotesRoundUp DEF PumpInv
<1> QED
  BY <1>1, <1>2, <1>3, <1>4, <1>5 DEF PumpSafe

(* What buy(), sell(), checkProgramUpgrades() and fetchRecentTrades()      *)
(* answer is true of a moment of the call, pumpSwapPoolState() mixes       *)
(* moments only in the virtual reserves, and pages join up, for every      *)
(* market, batch and page size.                                            *)
THEOREM PumpIsSafe == PumpSpec => []PumpSafe
<1>1. PumpInit => PumpInv
  BY PumpInitInv
<1>2. PumpInv /\ [PumpNext]_pumpVars => PumpInv'
  BY PumpNextInv
<1>3. PumpInv => PumpSafe
  BY PumpInvIsSafe
<1> QED
  BY <1>1, <1>2, <1>3, PTL DEF PumpSpec
-----------------------------------------------------------------------------
(* The database of observed events.                                        *)

EventRow == Buys \union Milestones \union TierRows \union Verdicts

DbTyped == eventRows \in Seq(EventRow)

LEMMA RowHasMoment == \A row \in EventRow : row.at \in Nat
BY DbAssumption DEF EventRow, Buys, Milestones, TierRows, Verdicts

(* A row that was observed after a moment is in no result as of that moment*)
(* (the WHERE clauses of sqlite.ts:197-220).                               *)
LEMMA LateRowIsUnread ==
    ASSUME NEW t \in Seq(EventRow), NEW row \in EventRow, NEW asOf \in Times, row.at > asOf,
           NEW type, NEW from
    PROVE  RowsAsOf(Append(t, row), type, from, asOf) = RowsAsOf(t, type, from, asOf)
<1> DEFINE u == Append(t, row)
           Found(s) == {i \in DOMAIN s : s[i].type = type /\ s[i].at >= from /\ s[i].at <= asOf}
<1>1. row.at \in Nat /\ asOf \in Nat BY RowHasMoment, DbAssumption
<1>2. /\ DOMAIN t = 1..Len(t) /\ Len(t) \in Nat
      /\ DOMAIN u = 1..(Len(t) + 1)
      /\ \A i \in 1..Len(t) : u[i] = t[i]
      /\ u[Len(t) + 1] = row
    OBVIOUS
<1>3. Found(u) = Found(t)
    <2>1. ~(row.at <= asOf) BY <1>1
    <2>2. Len(t) + 1 \notin Found(u) BY <1>2, <2>1
    <2>3. \A i \in DOMAIN u : i \in DOMAIN t \/ i = Len(t) + 1 BY <1>2
    <2>4. \A i \in DOMAIN t : i \in DOMAIN u /\ u[i] = t[i] BY <1>2
    <2> HIDE DEF u
    <2> QED BY <2>2, <2>3, <2>4
<1>4. \A i \in Found(t) : u[i] = t[i] BY <1>2
<1>5. RowsAsOf(u, type, from, asOf) = [i \in Found(u) |-> u[i]] BY DEF RowsAsOf
<1>6. RowsAsOf(t, type, from, asOf) = [i \in Found(t) |-> t[i]] BY DEF RowsAsOf
<1> HIDE DEF u, Found
<1>7. [i \in Found(u) |-> u[i]] = [i \in Found(t) |-> t[i]] BY <1>3, <1>4
<1> QED BY <1>5, <1>6, <1>7 DEF u

LEMMA DbIsTyped == DbSpec => []DbTyped
<1>1. DbInit => DbTyped BY DEF DbInit, DbTyped
<1>2. DbTyped /\ [DbNext]_dbVars => DbTyped'
    <2> SUFFICES ASSUME DbTyped, [DbNext]_dbVars PROVE DbTyped' OBVIOUS
    <2>1. ASSUME NEW row \in EventRow, Ingest(row) PROVE DbTyped'
        BY <2>1 DEF Ingest, DbTyped
    <2>2. CASE UNCHANGED eventRows BY <2>2 DEF DbTyped
    <2>3. InitDb \/ Opens \/ OpenFails \/ CloseDb \/ UNCHANGED dbVars => UNCHANGED eventRows
        BY DEF InitDb, Opens, OpenFails, CloseDb, dbVars
    <2> QED BY <2>1, <2>2, <2>3 DEF DbNext, EventRow
<1> QED BY <1>1, <1>2, PTL DEF DbSpec

(* No event observed after a moment changes what the database answers as of*)
(* that moment, whichever event comes in and in whatever order             *)
(* (sqlite.ts:148-152).                                                    *)
THEOREM DbSeesNoFuture == DbSpec => NoLookahead
<1> DEFINE Same(asOf) ==
        /\ \A w \in Wallets : walletTier(eventRows', w, asOf) = walletTier(eventRows, w, asOf)
        /\ \A m \in Mints :
             /\ safetyVerdict(eventRows', m, asOf) = safetyVerdict(eventRows, m, asOf)
             /\ \A n \in Times :
                  /\ milestoneEvents(eventRows', m, n, asOf) = milestoneEvents(eventRows, m, n, asOf)
                  /\ convergenceState(eventRows', m, asOf, n) = convergenceState(eventRows, m, asOf, n)
           Later(asOf) == Len(eventRows') > Len(eventRows) /\ Last(eventRows').at > asOf
<1>1. ASSUME DbTyped, [DbNext]_dbVars, NEW asOf \in Times, Later(asOf)
      PROVE  Same(asOf)
    <2>1. PICK row \in EventRow : eventRows' = Append(eventRows, row)
        <3>1. InitDb \/ Opens \/ OpenFails \/ CloseDb \/ UNCHANGED dbVars => UNCHANGED eventRows
            BY DEF InitDb, Opens, OpenFails, CloseDb, dbVars
        <3>2. ~ UNCHANGED eventRows BY <1>1 DEF DbTyped
        <3>3. \A row : Ingest(row) => eventRows' = Append(eventRows, row) BY DEF Ingest
        <3> QED BY <1>1, <3>1, <3>2, <3>3 DEF DbNext, EventRow
    <2>2. row.at > asOf
        <3>1. Len(eventRows') = Len(eventRows) + 1 /\ eventRows'[Len(eventRows) + 1] = row
            BY <2>1, <1>1 DEF DbTyped
        <3> QED BY <3>1, <1>1 DEF Last
    <2>3. \A type, from : RowsAsOf(eventRows', type, from, asOf) = RowsAsOf(eventRows, type, from, asOf)
        BY <2>1, <2>2, <1>1, LateRowIsUnread DEF DbTyped
    <2> QED BY <2>3 DEF walletTier, safetyVerdict, milestoneEvents, convergenceState
<1>2. DbTyped /\ [DbNext]_dbVars => [\A asOf \in Times : Later(asOf) => Same(asOf)]_dbVars
    BY <1>1
<1>3. DbSpec => [][\A asOf \in Times : Later(asOf) => Same(asOf)]_dbVars
    <2> HIDE DEF Later, Same
    <2> QED BY <1>2, DbIsTyped, PTL DEF DbSpec
<1> QED BY <1>3 DEF NoLookahead
-----------------------------------------------------------------------------
(* The two caches of off-chain metadata.                                   *)

CacheEntry == [uri : Uris, at : Nat, parsed : BOOLEAN, parseErrors : BOOLEAN]
InFlight == [uri : Uris, at : Nat]

CacheTyped ==
    /\ memory \in Seq(CacheEntry) /\ recent \in Seq(Uris)
    /\ files \in [Uris -> {<<>>} \union {<<e>> : e \in CacheEntry}]
    /\ fetching \subseteq InFlight /\ fetches \in Nat /\ fetched \subseteq CacheEntry

(* m holds the last URIs of r, cap of them or all, in their order; no URI  *)
(* is in r twice.  lm and lr are the lengths.                              *)
Order(m, lm, r, lr) ==
    /\ lm = IF lr > cap THEN cap ELSE lr
    /\ \A k \in 1..lm : m[k].uri = r[k + (lr - lm)]
Distinct(r, lr) == \A j, k \in 1..lr : r[j] = r[k] => j = k

KeepsNewest(m, r) == Order(m, Len(m), r, Len(r))
OnceEach(r) == Distinct(r, Len(r))

FilesOnlyWithDir == \A u \in Uris : Whole(u) => fileCacheDir

CacheInv ==
    /\ CacheTyped
    /\ OnceEach(recent) /\ KeepsNewest(memory, recent)
    /\ FilesOnlyWithDir
    /\ ServedWasFetched
    /\ CachesAgree

LEMMA WithoutNone == \A seq : Without(seq, {}) = seq
BY DEF Without

LEMMA WithoutOne ==
    ASSUME NEW S, NEW seq \in Seq(S), NEW p \in 1..Len(seq)
    PROVE  /\ Without(seq, {p}) \in Seq(S)
           /\ Len(Without(seq, {p})) = Len(seq) - 1
           /\ \A i \in 1..(Len(seq) - 1) :
                Without(seq, {p})[i] = IF i < p THEN seq[i] ELSE seq[i + 1]
<1>1. (CHOOSE k \in {p} : TRUE) = p OBVIOUS
<1> DEFINE a == SubSeq(seq, 1, p - 1)
           b == SubSeq(seq, p + 1, Len(seq))
           n == Len(seq)
<1>2. Without(seq, {p}) = a \o b BY <1>1 DEF Without, RemoveAt
<1>3. n \in Nat /\ p \in 1..n OBVIOUS
<1>4. a \in Seq(S) /\ Len(a) = p - 1 - 1 + 1 /\ \A k \in 1..(p - 1 - 1 + 1) : a[k] = seq[k + 1 - 1]
    <2>1. 1 \in 1..(n + 1) /\ p - 1 \in 0..n /\ 1 <= p - 1 + 1 BY <1>3
    <2> HIDE DEF a
    <2> QED BY <2>1, CutAt DEF a
<1>5. /\ b \in Seq(S) /\ Len(b) = n - (p + 1) + 1
      /\ \A k \in 1..(n - (p + 1) + 1) : b[k] = seq[k + (p + 1) - 1]
    <2>1. p + 1 \in 1..(n + 1) /\ n \in 0..n /\ p + 1 <= n + 1 BY <1>3
    <2> QED BY <2>1, CutAt
<1> HIDE DEF a, b, n
<1>6. /\ a \o b \in Seq(S) /\ Len(a \o b) = Len(a) + Len(b)
      /\ \A i \in 1..(Len(a) + Len(b)) : (a \o b)[i] = IF i <= Len(a) THEN a[i] ELSE b[i - Len(a)]
    BY <1>4, <1>5, JoinedAt
<1> DEFINE w == a \o b
<1> HIDE DEF w
<1>7. w \in Seq(S) /\ Len(w) = n - 1 BY <1>3, <1>4, <1>5, <1>6 DEF w
<1>8. ASSUME NEW i \in 1..(n - 1) PROVE w[i] = IF i < p THEN seq[i] ELSE seq[i + 1]
    <2>1. i \in 1..(Len(a) + Len(b)) /\ Len(a) = p - 1 BY <1>3, <1>4, <1>5
    <2>2. w[i] = IF i <= Len(a) THEN a[i] ELSE b[i - Len(a)] BY <1>6, <2>1 DEF w
    <2>3. CASE i < p
        <3>1. i <= Len(a) /\ i \in 1..(p - 1 - 1 + 1) /\ i + 1 - 1 = i BY <1>3, <2>1, <2>3
        <3> QED BY <1>4, <2>2, <2>3, <3>1
    <2>4. CASE ~(i < p)
        <3>1. /\ ~(i <= Len(a)) /\ i - Len(a) \in 1..(n - (p + 1) + 1)
              /\ (i - Len(a)) + (p + 1) - 1 = i + 1
            BY <1>3, <2>1, <2>4
        <3>2. b[i - Len(a)] = seq[(i - Len(a)) + (p + 1) - 1] BY <1>5, <3>1
        <3> QED BY <2>2, <2>4, <3>1, <3>2
    <2> QED BY <2>3, <2>4
<1> QED BY <1>2, <1>7, <1>8 DEF w, n

LEMMA NewestAre ==
    ASSUME NEW S, NEW n \in Nat, NEW seq \in Seq(S)
    PROVE  /\ Newest(n, seq) \in Seq(S)
           /\ Len(Newest(n, seq)) = IF Len(seq) > n THEN n ELSE Len(seq)
           /\ \A i \in 1..Len(Newest(n, seq)) :
                Newest(n, seq)[i] = seq[i + (Len(seq) - Len(Newest(n, seq)))]
<1> DEFINE l == Len(seq)
           from == IF l > n THEN l - n + 1 ELSE 1
           w == SubSeq(seq, from, l)
<1>1. l \in Nat /\ n \in Nat OBVIOUS
<1>2. Newest(n, seq) = w BY DEF Newest
<1>3. from \in 1..(l + 1) /\ l \in 0..l /\ from <= l + 1
    <2> HIDE DEF l
    <2> QED BY <1>1
<1>4. w \in Seq(S) /\ Len(w) = l - from + 1 /\ \A k \in 1..(l - from + 1) : w[k] = seq[k + from - 1]
    <2> HIDE DEF from
    <2> QED BY <1>3, CutAt
<1> HIDE DEF w, l
<1>5. Len(w) = IF l > n THEN n ELSE l BY <1>1, <1>4
<1>6. \A k \in 1..Len(w) : w[k] = seq[k + (l - Len(w))]
    <2> TAKE k \in 1..Len(w)
    <2> DEFINE f == from
    <2>1. f \in Int BY <1>1
    <2>2. k \in 1..(l - f + 1) /\ Len(w) = l - f + 1 BY <1>4
    <2>3. w[k] = seq[k + f - 1] BY <1>4, <2>2
    <2> HIDE DEF f
    <2>4. k + f - 1 = k + (l - Len(w)) BY <1>1, <2>1, <2>2
    <2> QED BY <2>3, <2>4
<1> QED BY <1>2, <1>4, <1>5, <1>6 DEF l

(* What append, a move to the end and the newest n do to the positions.    *)
Appended(s, ls, x, t) == t[ls + 1] = x /\ \A i \in 1..ls : t[i] = s[i]
Shifted(s, ls, p, x, t) ==
    t[ls] = x /\ \A i \in 1..(ls - 1) : t[i] = IF i < p THEN s[i] ELSE s[i + 1]
LastOf(n, s, ls, t, lt) ==
    lt = (IF ls > n THEN n ELSE ls) /\ \A i \in 1..lt : t[i] = s[i + (ls - lt)]

LEMMA PutAppends ==
    ASSUME NEW S, NEW s \in Seq(S), NEW x \in S
    PROVE  LET t == Append(Without(s, {}), x) IN
           t \in Seq(S) /\ Len(t) = Len(s) + 1 /\ Appended(s, Len(s), x, t)
BY WithoutNone DEF Appended

LEMMA PutShifts ==
    ASSUME NEW S, NEW s \in Seq(S), NEW x \in S, NEW p \in 1..Len(s)
    PROVE  LET t == Append(Without(s, {p}), x) IN
           t \in Seq(S) /\ Len(t) = Len(s) /\ Shifted(s, Len(s), p, x, t)
<1> DEFINE w == Without(s, {p})
<1>1. /\ w \in Seq(S) /\ Len(w) = Len(s) - 1
      /\ \A i \in 1..(Len(s) - 1) : w[i] = IF i < p THEN s[i] ELSE s[i + 1]
    BY WithoutOne
<1> HIDE DEF w
<1>2. Len(s) \in Nat OBVIOUS
<1>3. Append(w, x) \in Seq(S) /\ Len(Append(w, x)) = Len(s) BY <1>1, <1>2
<1>4. Append(w, x)[Len(s)] = x BY <1>1, <1>2
<1>5. \A i \in 1..(Len(s) - 1) : Append(w, x)[i] = w[i] BY <1>1, <1>2
<1> QED BY <1>1, <1>3, <1>4, <1>5 DEF w, Shifted

LEMMA NewestIsLast ==
    ASSUME NEW S, NEW n \in Nat, NEW seq \in Seq(S)
    PROVE  /\ Newest(n, seq) \in Seq(S)
           /\ LastOf(n, seq, Len(seq), Newest(n, seq), Len(Newest(n, seq)))
BY NewestAre DEF LastOf

LEMMA NewUriKeepsOrder ==
    ASSUME cap \in Nat, NEW lr \in Nat, NEW lm \in Nat, NEW m, NEW r, NEW e,
           Order(m, lm, r, lr), Distinct(r, lr), \A k \in 1..lr : r[k] # e.uri,
           NEW r2, NEW m1, NEW m2, NEW l2 \in Nat,
           Appended(r, lr, e.uri, r2), Appended(m, lm, e, m1), LastOf(cap, m1, lm + 1, m2, l2)
    PROVE  Distinct(r2, lr + 1) /\ Order(m2, l2, r2, lr + 1)
<1>1. Distinct(r2, lr + 1)
    <2> SUFFICES ASSUME NEW j \in 1..(lr + 1), NEW k \in 1..(lr + 1), r2[j] = r2[k] PROVE j = k
        BY DEF Distinct
    <2>1. CASE j = lr + 1 /\ k = lr + 1 BY <2>1
    <2>2. CASE j = lr + 1 /\ k \in 1..lr BY <2>2 DEF Appended
    <2>3. CASE k = lr + 1 /\ j \in 1..lr BY <2>3 DEF Appended
    <2>4. CASE k \in 1..lr /\ j \in 1..lr BY <2>4 DEF Appended, Distinct
    <2> QED BY <2>1, <2>2, <2>3, <2>4
<1>2. l2 = IF lr + 1 > cap THEN cap ELSE lr + 1 BY DEF Order, LastOf
<1>3. ASSUME NEW k \in 1..l2 PROVE m2[k].uri = r2[k + (lr + 1 - l2)]
    <2> DEFINE i == k + (lm + 1 - l2)
    <2>1. i \in 1..(lm + 1) BY DEF Order, LastOf
    <2>2. m2[k] = m1[i] BY DEF LastOf
    <2>3. k + (lr + 1 - l2) = i + (lr - lm) BY DEF Order, LastOf
    <2>4. lr - lm \in Nat BY DEF Order
    <2> HIDE DEF i
    <2>5. CASE i = lm + 1
        <3>1. i + (lr - lm) = lr + 1 BY <2>5
        <3> QED BY <2>2, <2>3, <2>5, <3>1 DEF Appended
    <2>6. CASE i \in 1..lm
        <3>1. i + (lr - lm) \in 1..lr BY <2>4, <2>6
        <3>2. m1[i] = m[i] /\ r2[i + (lr - lm)] = r[i + (lr - lm)] BY <2>6, <3>1 DEF Appended
        <3> QED BY <2>2, <2>3, <2>6, <3>2 DEF Order
    <2> QED BY <2>1, <2>5, <2>6
<1> QED BY <1>1, <1>2, <1>3 DEF Order

LEMMA ShiftedDistinct ==
    ASSUME NEW lr \in Nat, NEW r, NEW u, Distinct(r, lr), NEW p \in 1..lr, r[p] = u,
           NEW r2, Shifted(r, lr, p, u, r2)
    PROVE  Distinct(r2, lr)
<1> SUFFICES ASSUME NEW j \in 1..lr, NEW k \in 1..lr, r2[j] = r2[k] PROVE j = k
    BY DEF Distinct
<1> DEFINE old(i) == IF i = lr THEN p ELSE IF i < p THEN i ELSE i + 1
<1>1. \A i \in 1..lr : old(i) \in 1..lr /\ r2[i] = r[old(i)]
    <2> TAKE i \in 1..lr
    <2>1. CASE i = lr BY <2>1 DEF Shifted
    <2>2. CASE i # lr
        <3>1. i \in 1..(lr - 1) BY <2>2
        <3>2. CASE i < p BY <2>2, <3>1, <3>2 DEF Shifted
        <3>3. CASE ~(i < p) BY <2>2, <3>1, <3>3 DEF Shifted
        <3> QED BY <3>2, <3>3
    <2> QED BY <2>1, <2>2
<1>2. \A i1, i2 \in 1..lr : old(i1) = old(i2) => i1 = i2 OBVIOUS
<1> HIDE DEF old
<1>3. old(j) = old(k) BY <1>1 DEF Distinct
<1> QED BY <1>2, <1>3

LEMMA KnownUriKeepsOrder ==
    ASSUME cap \in Nat, NEW lr \in Nat, NEW lm \in Nat, NEW m, NEW r, NEW e,
           Order(m, lm, r, lr), NEW q \in 1..lm,
           NEW r2, NEW m1, Shifted(r, lr, q + (lr - lm), e.uri, r2), Shifted(m, lm, q, e, m1)
    PROVE  Order(m1, lm, r2, lr)
<1>1. lr - lm \in Nat BY DEF Order
<1>2. ASSUME NEW k \in 1..lm PROVE m1[k].uri = r2[k + (lr - lm)]
    <2>1. CASE k = lm
        <3>1. k + (lr - lm) = lr BY <2>1
        <3> QED BY <2>1, <3>1 DEF Shifted
    <2>2. CASE k # lm /\ k < q
        <3>1. /\ k \in 1..(lm - 1) /\ k + (lr - lm) \in 1..(lr - 1) /\ k + (lr - lm) < q + (lr - lm)
            BY <1>1, <2>2
        <3>2. m1[k] = m[k] /\ r2[k + (lr - lm)] = r[k + (lr - lm)] BY <2>2, <3>1 DEF Shifted
        <3> QED BY <3>2 DEF Order
    <2>3. CASE k # lm /\ ~(k < q)
        <3>1. /\ k \in 1..(lm - 1) /\ k + (lr - lm) \in 1..(lr - 1) /\ ~(k + (lr - lm) < q + (lr - lm))
              /\ k + 1 \in 1..lm /\ k + (lr - lm) + 1 = (k + 1) + (lr - lm)
            BY <1>1, <2>3
        <3>2. m1[k] = m[k + 1] /\ r2[k + (lr - lm)] = r[k + (lr - lm) + 1] BY <2>3, <3>1 DEF Shifted
        <3> QED BY <3>1, <3>2 DEF Order
    <2> QED BY <2>1, <2>2, <2>3
<1> QED BY <1>2 DEF Order

LEMMA ForgottenUriKeepsOrder ==
    ASSUME cap \in Nat, NEW lr \in Nat, NEW lm \in Nat, NEW m, NEW r, NEW e,
           Order(m, lm, r, lr), NEW p \in 1..(lr - lm),
           NEW r2, NEW m1, NEW m2, NEW l2 \in Nat,
           Shifted(r, lr, p, e.uri, r2), Appended(m, lm, e, m1), LastOf(cap, m1, lm + 1, m2, l2)
    PROVE  Order(m2, l2, r2, lr)
<1>1. lm = cap /\ l2 = cap /\ lr > cap BY DEF Order, LastOf
<1>2. ASSUME NEW k \in 1..cap PROVE m2[k].uri = r2[k + (lr - cap)]
    <2>1. m2[k] = m1[k + 1]
        <3>1. k + (lm + 1 - l2) = k + 1 BY <1>1
        <3> QED BY <1>1, <3>1 DEF LastOf
    <2>2. CASE k = cap
        <3>1. k + (lr - cap) = lr BY <2>2
        <3> QED BY <1>1, <2>1, <2>2, <3>1 DEF Appended, Shifted
    <2>3. CASE k # cap
        <3>1. /\ k + 1 \in 1..cap /\ k + (lr - cap) \in 1..(lr - 1) /\ ~(k + (lr - cap) < p)
              /\ k + (lr - cap) + 1 = (k + 1) + (lr - lm)
            BY <1>1, <2>3
        <3>2. m1[k + 1] = m[k + 1] BY <1>1, <3>1 DEF Appended
        <3>3. r2[k + (lr - cap)] = r[k + (lr - cap) + 1] BY <3>1 DEF Shifted
        <3>4. m[k + 1].uri = r[(k + 1) + (lr - lm)] BY <1>1, <3>1 DEF Order
        <3> QED BY <2>1, <3>1, <3>2, <3>3, <3>4
    <2> QED BY <2>2, <2>3
<1> QED BY <1>1, <1>2 DEF Order

(* The entry that was answered goes to the end, and the others keep their  *)
(* order, in the memory (resolver.ts:220-230) and among the URIs answered. *)
Recency(r, u) == Append(Without(r, {k \in DOMAIN r : r[k] = u}), u)
Put(m, e) == Append(Others(m, e.uri), e)

LEMMA AnsweredGoesLast ==
    ASSUME cap \in Nat,
           NEW m \in Seq(CacheEntry), NEW r \in Seq(Uris), OnceEach(r), KeepsNewest(m, r),
           NEW e \in CacheEntry
    PROVE  /\ Recency(r, e.uri) \in Seq(Uris) /\ OnceEach(Recency(r, e.uri))
           /\ Put(m, e) \in Seq(CacheEntry) /\ Newest(cap, Put(m, e)) \in Seq(CacheEntry)
           /\ (\E k \in 1..Len(m) : m[k].uri = e.uri) => KeepsNewest(Put(m, e), Recency(r, e.uri))
           /\ KeepsNewest(Newest(cap, Put(m, e)), Recency(r, e.uri))
<1> DEFINE u == e.uri
           at == {k \in DOMAIN r : r[k] = u}
           in == {k \in DOMAIN m : m[k].uri = u}
           lr == Len(r)
           lm == Len(m)
           r2 == Append(Without(r, at), u)
           m1 == Append(Without(m, in), e)
           m2 == Newest(cap, m1)
<1>1. u \in Uris BY DEF CacheEntry
<1>2. lr \in Nat /\ lm \in Nat /\ DOMAIN r = 1..lr /\ DOMAIN m = 1..lm OBVIOUS
<1>3. Recency(r, e.uri) = r2 /\ Put(m, e) = m1 BY DEF Recency, Put, Others
<1>4. Order(m, lm, r, lr) /\ Distinct(r, lr) BY DEF KeepsNewest, OnceEach
<1>5. at = {k \in 1..lr : r[k] = u} /\ in = {k \in 1..lm : m[k].uri = u} BY <1>2
<1>6. m1 \in Seq(CacheEntry) => m2 \in Seq(CacheEntry) /\ Len(m2) \in Nat /\ LastOf(cap, m1, Len(m1), m2, Len(m2))
    <2> HIDE DEF m1
    <2>1. ASSUME m1 \in Seq(CacheEntry) PROVE m2 \in Seq(CacheEntry) /\ LastOf(cap, m1, Len(m1), m2, Len(m2))
        BY <2>1, NewestIsLast
    <2> HIDE DEF m2
    <2> QED BY <2>1
<1> DEFINE Result == /\ r2 \in Seq(Uris) /\ Distinct(r2, Len(r2)) /\ m1 \in Seq(CacheEntry)
                     /\ in # {} => Order(m1, Len(m1), r2, Len(r2))
                     /\ Order(m2, Len(m2), r2, Len(r2))
<1>7. ASSUME at = {} PROVE Result
    <2>1. in = {}
        <3> SUFFICES ASSUME NEW k \in in PROVE FALSE OBVIOUS
        <3>1. k \in 1..lm /\ m[k].uri = u BY <1>5
        <3>2. k + (lr - lm) \in 1..lr BY <1>2, <1>4, <3>1 DEF Order
        <3>3. r[k + (lr - lm)] = u BY <1>4, <3>1 DEF Order
        <3> HIDE DEF at, lr, lm, u
        <3> QED BY <1>5, <1>7, <3>2, <3>3
    <2>2. r2 \in Seq(Uris) /\ Len(r2) = lr + 1 /\ Appended(r, lr, u, r2) BY <1>1, <1>7, PutAppends
    <2>3. m1 \in Seq(CacheEntry) /\ Len(m1) = lm + 1 /\ Appended(m, lm, e, m1) BY <2>1, PutAppends
    <2>4. \A k \in 1..lr : r[k] # u BY <1>5, <1>7
    <2>5. m2 \in Seq(CacheEntry) /\ Len(m2) \in Nat /\ LastOf(cap, m1, lm + 1, m2, Len(m2)) BY <1>6, <2>3
    <2> HIDE DEF r2, m1, m2, lr, lm, at, in
    <2>6. Distinct(r2, lr + 1) /\ Order(m2, Len(m2), r2, lr + 1)
        BY <1>2, <1>4, <2>2, <2>3, <2>4, <2>5, NewUriKeepsOrder
    <2> QED BY <2>1, <2>2, <2>3, <2>6
<1>8. ASSUME at # {} PROVE Result
    <2>1. PICK p \in 1..lr : r[p] = u BY <1>5, <1>8
    <2>2. at = {p}
        <3> HIDE DEF lr, u
        <3> QED BY <1>4, <1>5, <2>1 DEF Distinct
    <2>3. r2 \in Seq(Uris) /\ Len(r2) = lr /\ Shifted(r, lr, p, u, r2)
        <3> HIDE DEF at
        <3> QED BY <1>1, <2>1, <2>2, PutShifts
    <2>4. Distinct(r2, lr)
        <3> HIDE DEF r2, lr, u
        <3> QED BY <1>2, <1>4, <2>1, <2>3, ShiftedDistinct
    <2>5. lr - lm \in Nat BY <1>2, <1>4 DEF Order
    <2>6. CASE p > lr - lm
        <3> DEFINE q == p - (lr - lm)
        <3>1. q \in 1..lm /\ q + (lr - lm) = p BY <1>2, <2>1, <2>5, <2>6
        <3> HIDE DEF q
        <3>2. in = {q}
            <4> HIDE DEF lr, lm, u
            <4>1. m[q].uri = u BY <1>4, <2>1, <3>1 DEF Order
            <4>2. ASSUME NEW k \in 1..lm, m[k].uri = u PROVE k = q
                <5>1. r[k + (lr - lm)] = u BY <1>4, <4>2 DEF Order
                <5>2. k + (lr - lm) \in 1..lr BY <1>2, <2>5
                <5>3. k + (lr - lm) = p BY <1>4, <2>1, <5>1, <5>2 DEF Distinct
                <5> QED BY <1>2, <3>1, <5>3
            <4> QED BY <1>5, <3>1, <4>1, <4>2
        <3>3. m1 \in Seq(CacheEntry) /\ Len(m1) = lm /\ Shifted(m, lm, q, e, m1)
            <4> HIDE DEF in
            <4> QED BY <3>1, <3>2, PutShifts
        <3>4. Order(m1, lm, r2, lr)
            <4> HIDE DEF lr, lm, r2, m1
            <4>1. Shifted(r, lr, q + (lr - lm), e.uri, r2) BY <2>3, <3>1
            <4> QED BY <1>2, <1>4, <3>1, <3>3, <4>1, KnownUriKeepsOrder
        <3>5. Len(m2) = lm /\ Order(m2, lm, r2, lr)
            <4>1. LastOf(cap, m1, lm, m2, Len(m2)) BY <1>6, <3>3
            <4> HIDE DEF lr, lm, r2, m1, m2
            <4>2. Len(m2) = lm BY <1>2, <1>4, <4>1 DEF LastOf, Order
            <4>3. \A i \in 1..lm : m2[i] = m1[i]
                <5>1. \A i \in 1..lm : i + (lm - lm) = i BY <1>2
                <5> QED BY <4>1, <4>2, <5>1 DEF LastOf
            <4> QED BY <3>4, <4>2, <4>3 DEF Order
        <3> HIDE DEF lr, lm, r2, m1, m2
        <3> QED BY <2>3, <2>4, <3>3, <3>4, <3>5
    <2>7. CASE ~(p > lr - lm)
        <3>1. p \in 1..(lr - lm) BY <1>2, <2>1, <2>5, <2>7
        <3>2. in = {}
            <4> SUFFICES ASSUME NEW k \in in PROVE FALSE OBVIOUS
            <4> HIDE DEF lr, lm, u
            <4>1. k \in 1..lm /\ m[k].uri = u BY <1>5
            <4>2. r[k + (lr - lm)] = u BY <1>4, <4>1 DEF Order
            <4>3. k + (lr - lm) \in 1..lr BY <1>2, <2>5, <4>1
            <4>4. k + (lr - lm) = p BY <1>4, <2>1, <4>2, <4>3 DEF Distinct
            <4> QED BY <1>2, <2>5, <3>1, <4>1, <4>4
        <3>3. m1 \in Seq(CacheEntry) /\ Len(m1) = lm + 1 /\ Appended(m, lm, e, m1)
            <4> HIDE DEF in
            <4> QED BY <3>2, PutAppends
        <3>4. Len(m2) \in Nat /\ LastOf(cap, m1, lm + 1, m2, Len(m2)) BY <1>6, <3>3
        <3> HIDE DEF lr, lm, r2, m1, m2, in
        <3>5. Order(m2, Len(m2), r2, lr)
            BY <1>2, <1>4, <2>3, <3>1, <3>3, <3>4, ForgottenUriKeepsOrder
        <3> QED BY <2>3, <2>4, <3>2, <3>3, <3>5
    <2> QED BY <2>6, <2>7
<1>9. Result BY <1>7, <1>8
<1>10. (\E k \in 1..lm : m[k].uri = u) => in # {} BY <1>5
<1> HIDE DEF r2, m1, m2, in, lr
<1> QED BY <1>3, <1>6, <1>9, <1>10 DEF KeepsNewest, OnceEach, m2

(* What the memory holds after an answer: the entry answered, and some of  *)
(* the others, under other URIs.                                           *)
LEMMA PutHolds ==
    ASSUME cap \in Nat, NEW m \in Seq(CacheEntry), NEW e \in CacheEntry,
           \A j, k \in 1..Len(m) : m[j].uri = m[k].uri => j = k
    PROVE  /\ \A j \in 1..Len(Put(m, e)) :
                Put(m, e)[j] = e \/ \E i \in 1..Len(m) : Put(m, e)[j] = m[i] /\ m[i].uri # e.uri
           /\ \A j \in 1..Len(Newest(cap, Put(m, e))) :
                \E i \in 1..Len(Put(m, e)) : Newest(cap, Put(m, e))[j] = Put(m, e)[i]
<1> DEFINE in == {k \in DOMAIN m : m[k].uri = e.uri}
           m1 == Append(Without(m, in), e)
<1>1. Put(m, e) = m1 BY DEF Put, Others
<1>2. Len(m) \in Nat /\ DOMAIN m = 1..Len(m) OBVIOUS
<1> DEFINE Held(s) == \A j \in 1..Len(s) :
               s[j] = e \/ \E i \in 1..Len(m) : s[j] = m[i] /\ m[i].uri # e.uri
<1>3. ASSUME in = {} PROVE m1 \in Seq(CacheEntry) /\ Held(m1)
    <2>1. m1 \in Seq(CacheEntry) /\ Len(m1) = Len(m) + 1 /\ Appended(m, Len(m), e, m1) BY <1>3, PutAppends
    <2>2. \A i \in 1..Len(m) : m[i].uri # e.uri BY <1>2, <1>3
    <2> HIDE DEF m1, in
    <2>3. ASSUME NEW j \in 1..Len(m1)
          PROVE  m1[j] = e \/ \E i \in 1..Len(m) : m1[j] = m[i] /\ m[i].uri # e.uri
        <3>1. j = Len(m) + 1 \/ j \in 1..Len(m) BY <1>2, <2>1
        <3> QED BY <2>1, <2>2, <3>1 DEF Appended
    <2> QED BY <2>1, <2>3
<1>4. ASSUME in # {} PROVE m1 \in Seq(CacheEntry) /\ Held(m1)
    <2>1. PICK p \in 1..Len(m) : m[p].uri = e.uri BY <1>2, <1>4
    <2>2. in = {p} BY <1>2, <2>1
    <2>3. m1 \in Seq(CacheEntry) /\ Len(m1) = Len(m) /\ Shifted(m, Len(m), p, e, m1)
        <3> HIDE DEF in
        <3> QED BY <2>2, PutShifts
    <2> DEFINE l == Len(m)
    <2>5. l \in Nat OBVIOUS
    <2> HIDE DEF m1, in, l
    <2>4. ASSUME NEW j \in 1..Len(m1)
          PROVE  m1[j] = e \/ \E i \in 1..Len(m) : m1[j] = m[i] /\ m[i].uri # e.uri
        <3>1. CASE j = Len(m) BY <2>3, <3>1 DEF Shifted
        <3>2. CASE j # l /\ j < p
            <4>1. j \in 1..l /\ p \in 1..l BY <2>1, <2>3 DEF l
            <4>2. j \in 1..(l - 1) /\ j # p BY <2>5, <3>2, <4>1
            <4>3. m1[j] = m[j] BY <2>3, <3>2, <4>2 DEF Shifted, l
            <4> QED BY <2>1, <4>1, <4>2, <4>3 DEF l
        <3>3. CASE j # l /\ ~(j < p)
            <4>1. j \in 1..l /\ p \in 1..l BY <2>1, <2>3 DEF l
            <4>2. j \in 1..(l - 1) /\ j + 1 \in 1..l /\ j + 1 # p BY <2>5, <3>3, <4>1
            <4>3. m1[j] = m[j + 1] BY <2>3, <3>3, <4>2 DEF Shifted, l
            <4> QED BY <2>1, <4>2, <4>3 DEF l
        <3> QED BY <3>1, <3>2, <3>3 DEF l
    <2> QED BY <2>3, <2>4
<1>5. m1 \in Seq(CacheEntry) /\ Held(m1) BY <1>3, <1>4
<1>6. \A j \in 1..Len(Newest(cap, m1)) : \E i \in 1..Len(m1) : Newest(cap, m1)[j] = m1[i]
    <2> HIDE DEF m1
    <2>1. /\ Newest(cap, m1) \in Seq(CacheEntry)
          /\ LastOf(cap, m1, Len(m1), Newest(cap, m1), Len(Newest(cap, m1)))
        BY <1>5, NewestIsLast
    <2> DEFINE n == Newest(cap, m1)
    <2> HIDE DEF n
    <2> SUFFICES ASSUME NEW j \in 1..Len(n) PROVE \E i \in 1..Len(m1) : n[j] = m1[i] BY DEF n
    <2>2. Len(m1) \in Nat BY <1>5
    <2>3. j + (Len(m1) - Len(n)) \in 1..Len(m1) BY <2>1, <2>2 DEF LastOf, n
    <2>4. n[j] = m1[j + (Len(m1) - Len(n))] BY <2>1 DEF LastOf, n
    <2> QED BY <2>3, <2>4
<1> HIDE DEF m1
<1> QED BY <1>1, <1>5, <1>6


LEMMA CacheInvIsSafe == CacheAssumption /\ CacheInv => CacheSafe
<1> SUFFICES ASSUME CacheAssumption, CacheInv PROVE CacheSafe OBVIOUS
<1> DEFINE lm == Len(memory)
           lr == Len(recent)
<1>1. cap \in Nat BY DEF CacheAssumption
<1>2. /\ memory \in Seq(CacheEntry) /\ recent \in Seq(Uris)
      /\ lm \in Nat /\ lr \in Nat /\ DOMAIN memory = 1..lm
    BY DEF CacheInv, CacheTyped
<1>3. Order(memory, lm, recent, lr) /\ Distinct(recent, lr) BY DEF CacheInv, KeepsNewest, OnceEach
<1>4. CacheTypeOK
    <2>1. lm <= cap BY <1>1, <1>2, <1>3 DEF Order
    <2>2. ASSUME NEW j \in 1..lm, NEW k \in 1..lm, memory[j].uri = memory[k].uri PROVE j = k
        <3> HIDE DEF lm, lr
        <3>1. j + (lr - lm) \in 1..lr /\ k + (lr - lm) \in 1..lr BY <1>1, <1>2, <1>3 DEF Order
        <3>2. recent[j + (lr - lm)] = recent[k + (lr - lm)] BY <1>3, <2>2 DEF Order
        <3>3. j + (lr - lm) = k + (lr - lm) BY <1>3, <3>1, <3>2 DEF Distinct
        <3> QED BY <1>2, <3>3
    <2> QED BY <1>2, <2>1, <2>2 DEF CacheTypeOK, CacheInv, FilesOnlyWithDir
<1>5. MemoryIsMostRecent
    <2> DEFINE n == Newest(cap, recent)
    <2>1. n \in Seq(Uris) /\ LastOf(cap, recent, lr, n, Len(n)) BY <1>1, <1>2, NewestIsLast
    <2>2. n = [k \in 1..Len(n) |-> n[k]] BY <2>1
    <2> HIDE DEF n, lm, lr
    <2>3. Len(n) = lm BY <1>3, <2>1 DEF LastOf, Order
    <2>4. \A k \in 1..lm : memory[k].uri = n[k] BY <1>3, <2>1, <2>3 DEF LastOf, Order
    <2>5. [k \in 1..lm |-> memory[k].uri] = [k \in 1..lm |-> n[k]] BY <2>4
    <2> QED BY <1>2, <2>2, <2>3, <2>5 DEF MemoryIsMostRecent, n
<1> QED BY <1>4, <1>5 DEF CacheInv, CacheSafe

(* An answer given from the memory, a file or a response: the two lists and*)
(* what they hold after it.                                                *)
LEMMA AnswerKeepsOrder ==
    ASSUME CacheAssumption, CacheInv, NEW e \in CacheEntry, Touch(e.uri),
           \/ memory' = putInMemory(memory, e)
           \/ /\ memory' = Put(memory, e)
              /\ \E k \in 1..Len(memory) : memory[k].uri = e.uri
    PROVE  /\ memory' \in Seq(CacheEntry) /\ recent' \in Seq(Uris)
           /\ OnceEach(recent') /\ KeepsNewest(memory', recent')
           /\ \A j \in DOMAIN memory' :
                memory'[j] = e \/ \E i \in DOMAIN memory : memory'[j] = memory[i] /\ memory[i].uri # e.uri
<1>1. cap \in Nat BY DEF CacheAssumption
<1>2. memory \in Seq(CacheEntry) /\ recent \in Seq(Uris) /\ OnceEach(recent) /\ KeepsNewest(memory, recent)
    BY DEF CacheInv, CacheTyped
<1>3. DOMAIN memory = 1..Len(memory) BY <1>2
<1>4. \A j, k \in 1..Len(memory) : memory[j].uri = memory[k].uri => j = k
    <2>1. CacheSafe BY CacheInvIsSafe
    <2> QED BY <1>3, <2>1 DEF CacheSafe, CacheTypeOK
<1> DEFINE m1 == Put(memory, e)
           m2 == Newest(cap, m1)
           r2 == Recency(recent, e.uri)
<1>5. recent' = r2 BY DEF Touch, Recency
<1>6. memory' = m2 \/ (memory' = m1 /\ \E k \in 1..Len(memory) : memory[k].uri = e.uri)
    BY DEF putInMemory, Put
<1>7. /\ r2 \in Seq(Uris) /\ OnceEach(r2) /\ m1 \in Seq(CacheEntry) /\ m2 \in Seq(CacheEntry)
      /\ (\E k \in 1..Len(memory) : memory[k].uri = e.uri) => KeepsNewest(m1, r2)
      /\ KeepsNewest(m2, r2)
    BY <1>1, <1>2, AnsweredGoesLast
<1>8. /\ \A j \in 1..Len(m1) : m1[j] = e \/ \E i \in 1..Len(memory) : m1[j] = memory[i] /\ memory[i].uri # e.uri
      /\ \A j \in 1..Len(m2) : \E i \in 1..Len(m1) : m2[j] = m1[i]
    BY <1>1, <1>2, <1>4, PutHolds
<1>9. DOMAIN m1 = 1..Len(m1) /\ DOMAIN m2 = 1..Len(m2) BY <1>7
<1> HIDE DEF m1, m2, r2
<1>10. CASE memory' = m2
    <2>1. ASSUME NEW j \in 1..Len(m2)
          PROVE m2[j] = e \/ \E i \in 1..Len(memory) : m2[j] = memory[i] /\ memory[i].uri # e.uri
        BY <1>8
    <2> QED BY <1>3, <1>5, <1>7, <1>9, <1>10, <2>1
<1>11. CASE memory' = m1 /\ \E k \in 1..Len(memory) : memory[k].uri = e.uri
    BY <1>3, <1>5, <1>7, <1>8, <1>9, <1>11
<1> QED BY <1>6, <1>10, <1>11

LEMMA CacheStarts == CacheAssumption /\ CacheInit => CacheInv
<1> SUFFICES ASSUME CacheAssumption, CacheInit PROVE CacheInv OBVIOUS
<1>1. memory = <<>> /\ recent = <<>> /\ Len(<<>>) = 0 /\ cap \in Nat BY DEF CacheInit, CacheAssumption
<1>2. CacheTyped BY <1>1 DEF CacheInit, CacheTyped
<1>3. OnceEach(recent) /\ KeepsNewest(memory, recent) BY <1>1 DEF OnceEach, Distinct, KeepsNewest, Order
<1>4. FilesOnlyWithDir /\ ServedWasFetched /\ CachesAgree
    BY <1>1 DEF CacheInit, FilesOnlyWithDir, ServedWasFetched, CachesAgree, Whole
<1> QED BY <1>2, <1>3, <1>4 DEF CacheInv

LEMMA HitKeepsCache ==
    ASSUME CacheAssumption, CacheInv, NEW uri \in Uris, MemoryHit(uri)
    PROVE  CacheInv'
<1>1. PICK k \in DOMAIN memory : /\ memory[k].uri = uri
                                 /\ memory' = Append(Others(memory, uri), memory[k])
                                 /\ Serve(uri, memory[k])
    BY DEF MemoryHit
<1>2. UNCHANGED <<files, fetching, fetches, restarts, fetched, unwritten>> BY DEF MemoryHit
<1> DEFINE e == memory[k]
<1>3. memory \in Seq(CacheEntry) BY DEF CacheInv, CacheTyped
<1>4. e \in CacheEntry /\ k \in 1..Len(memory) BY <1>1, <1>3
<1>5. memory' = Put(memory, e) /\ e.uri = uri /\ Touch(e.uri) BY <1>1 DEF Put, Serve
<1>6. served' = {e} 
    <2>1. served' = {[e EXCEPT !.uri = uri]} BY <1>1 DEF Serve
    <2>2. [e EXCEPT !.uri = uri] = e BY <1>4, <1>5 DEF CacheEntry
    <2> QED BY <2>1, <2>2
<1>7. e \in fetched BY <1>1 DEF CacheInv, ServedWasFetched
<1>8. \A j \in DOMAIN memory' : memory'[j] = e \/ \E i \in DOMAIN memory : memory'[j] = memory[i]
    BY <1>4, <1>5, AnswerKeepsOrder
<1>9. memory' \in Seq(CacheEntry) /\ recent' \in Seq(Uris) /\ OnceEach(recent') /\ KeepsNewest(memory', recent')
    BY <1>4, <1>5, AnswerKeepsOrder
<1>10. \A j \in DOMAIN memory' : \E i \in DOMAIN memory : memory'[j] = memory[i] BY <1>1, <1>8
<1> HIDE DEF e
<1>11. CacheTyped' BY <1>2, <1>9 DEF CacheTyped, CacheInv
<1>12. FilesOnlyWithDir' BY <1>2 DEF FilesOnlyWithDir, CacheInv, Whole
<1>13. ServedWasFetched' BY <1>2, <1>6, <1>7, <1>10 DEF ServedWasFetched, CacheInv, Whole
<1>14. CachesAgree' BY <1>2, <1>10 DEF CachesAgree, CacheInv, Whole
<1> QED BY <1>9, <1>11, <1>12, <1>13, <1>14 DEF CacheInv

LEMMA FileHitKeepsCache ==
    ASSUME CacheAssumption, CacheInv, NEW uri \in Uris, FileHit(uri)
    PROVE  CacheInv'
<1> DEFINE e == files[uri][1]
<1>1. /\ Whole(uri) /\ memory' = putInMemory(memory, e) /\ Serve(uri, e)
      /\ UNCHANGED <<files, fetching, fetches, restarts, fetched, unwritten>>
    BY DEF FileHit
<1>2. files[uri] \in {<<>>} \union {<<x>> : x \in CacheEntry} BY DEF CacheInv, CacheTyped
<1>3. files[uri] = <<e>> /\ e \in CacheEntry BY <1>1, <1>2 DEF Whole
<1>4. e \in fetched /\ e.uri = uri BY <1>1 DEF CacheInv, ServedWasFetched
<1>5. Touch(e.uri) /\ served' = {e}
    <2>1. served' = {[e EXCEPT !.uri = uri]} /\ Touch(uri) BY <1>1 DEF Serve
    <2> HIDE DEF e
    <2>2. [e EXCEPT !.uri = uri] = e BY <1>3, <1>4 DEF CacheEntry
    <2> QED BY <2>1, <2>2, <1>4
<1> HIDE DEF e
<1>6. /\ memory' \in Seq(CacheEntry) /\ recent' \in Seq(Uris) /\ OnceEach(recent') /\ KeepsNewest(memory', recent')
      /\ \A j \in DOMAIN memory' : memory'[j] = e \/ \E i \in DOMAIN memory : memory'[j] = memory[i]
    BY <1>1, <1>3, <1>5, AnswerKeepsOrder
<1>7. CacheTyped' BY <1>1, <1>6 DEF CacheTyped, CacheInv
<1>8. FilesOnlyWithDir' BY <1>1 DEF FilesOnlyWithDir, CacheInv, Whole
<1>9. ServedWasFetched' BY <1>1, <1>4, <1>5, <1>6 DEF ServedWasFetched, CacheInv, Whole
<1>10. CachesAgree' BY <1>1, <1>3, <1>4, <1>6 DEF CachesAgree, CacheInv, Whole
<1> QED BY <1>6, <1>7, <1>8, <1>9, <1>10 DEF CacheInv

LEMMA FetchedKeepsCache ==
    ASSUME CacheAssumption, CacheInv, NEW f \in fetching, NEW text \in Bodies, NEW writable \in BOOLEAN,
           Fetched(f, text, writable)
    PROVE  CacheInv'
<1> DEFINE e == buildResult(f.uri, f.at, text)
<1>1. f \in InFlight BY DEF CacheInv, CacheTyped
<1>2. e \in CacheEntry /\ e.uri = f.uri /\ f.uri \in Uris BY <1>1 DEF buildResult, CacheEntry, InFlight
<1>3. /\ fetching' = fetching \ {f} /\ fetched' = fetched \union {e}
      /\ memory' = putInMemory(memory, e) /\ Serve(f.uri, e)
      /\ files' = IF fileCacheDir /\ writable THEN [files EXCEPT ![f.uri] = <<e>>] ELSE files
      /\ unwritten' = IF writable THEN unwritten \ {f.uri} ELSE unwritten \union {f.uri}
      /\ UNCHANGED <<fetches, restarts>>
    BY DEF Fetched, writeToFileCache
<1>4. Touch(e.uri) /\ served' = {e}
    <2>1. served' = {[e EXCEPT !.uri = f.uri]} /\ Touch(f.uri) BY <1>3 DEF Serve
    <2> HIDE DEF e
    <2>2. [e EXCEPT !.uri = f.uri] = e BY <1>2 DEF CacheEntry
    <2> QED BY <2>1, <2>2, <1>2
<1> HIDE DEF e
<1>5. /\ memory' \in Seq(CacheEntry) /\ recent' \in Seq(Uris) /\ OnceEach(recent') /\ KeepsNewest(memory', recent')
      /\ \A j \in DOMAIN memory' :
            memory'[j] = e \/ \E i \in DOMAIN memory : memory'[j] = memory[i] /\ memory[i].uri # e.uri
    BY <1>2, <1>3, <1>4, AnswerKeepsOrder
<1>6. files \in [Uris -> {<<>>} \union {<<x>> : x \in CacheEntry}] /\ fetched \subseteq CacheEntry
    BY DEF CacheInv, CacheTyped
<1>7. /\ files' \in [Uris -> {<<>>} \union {<<x>> : x \in CacheEntry}]
      /\ \A u \in Uris : u # f.uri => files'[u] = files[u]
      /\ files'[f.uri] = IF fileCacheDir /\ writable THEN <<e>> ELSE files[f.uri]
    BY <1>2, <1>3, <1>6
<1>8. CacheTyped'
    <2>1. fetching' \subseteq InFlight /\ fetches' \in Nat /\ fetched' \subseteq CacheEntry
        BY <1>2, <1>3, <1>6 DEF CacheInv, CacheTyped
    <2> QED BY <1>5, <1>7, <2>1 DEF CacheTyped
<1>9. FilesOnlyWithDir' BY <1>7 DEF FilesOnlyWithDir, CacheInv, Whole
<1>10. ServedWasFetched'
    <2>1. served' \subseteq fetched' BY <1>3, <1>4
    <2>2. \A j \in DOMAIN memory' : memory'[j] \in fetched' BY <1>3, <1>5 DEF CacheInv, ServedWasFetched
    <2>3. ASSUME NEW u \in Uris, files'[u] # <<>> PROVE files'[u][1] \in fetched' /\ files'[u][1].uri = u
        <3>1. CASE files'[u] = <<e>> /\ u = f.uri
            <4>1. files'[u][1] = e BY <3>1
            <4> QED BY <4>1, <3>1, <1>2, <1>3
        <3>2. CASE files'[u] = files[u] BY <2>3, <3>2, <1>3 DEF CacheInv, ServedWasFetched, Whole
        <3> QED BY <1>7, <3>1, <3>2
    <2> QED BY <2>1, <2>2, <2>3 DEF ServedWasFetched, Whole
<1>11. CachesAgree'
    <2> SUFFICES ASSUME NEW j \in DOMAIN memory', files'[memory'[j].uri] # <<>>,
                        memory'[j].uri \notin unwritten'
                 PROVE  files'[memory'[j].uri] = <<memory'[j]>>
        BY DEF CachesAgree, Whole
    <2>1. CASE memory'[j] = e
        <3>1. writable BY <2>1, <1>2, <1>3
        <3>2. fileCacheDir
            <4>1. files'[f.uri] # <<>> BY <2>1, <1>2
            <4> QED BY <1>9, <4>1, <1>2 DEF FilesOnlyWithDir, Whole
        <3> QED BY <2>1, <3>1, <3>2, <1>2, <1>7
    <2>2. ASSUME NEW i \in DOMAIN memory, memory'[j] = memory[i], memory[i].uri # f.uri
          PROVE  files'[memory'[j].uri] = <<memory'[j]>>
        <3>1. memory[i] \in CacheEntry BY DEF CacheInv, CacheTyped
        <3>2. memory[i].uri \in Uris BY <3>1 DEF CacheEntry
        <3>3. files'[memory[i].uri] = files[memory[i].uri] BY <1>7, <2>2, <3>2
        <3>4. memory[i].uri \notin unwritten BY <1>3, <2>2
        <3> QED BY <2>2, <3>3, <3>4 DEF CacheInv, CachesAgree, Whole
    <2> QED BY <1>2, <1>5, <2>1, <2>2
<1> QED BY <1>5, <1>8, <1>9, <1>10, <1>11 DEF CacheInv

LEMMA RestartKeepsCache ==
    ASSUME CacheAssumption, CacheInv, NEW torn, Restart(torn)
    PROVE  CacheInv'
<1>1. /\ memory' = <<>> /\ recent' = <<>> /\ fetching' = {} /\ served' = served
      /\ files' = [u \in Uris |-> IF fileCacheDir /\ u \in torn THEN <<>> ELSE files[u]]
      /\ fetches' = fetches /\ fetched' = fetched /\ cap \in Nat /\ Len(<<>>) = 0
    BY DEF Restart, CacheAssumption
<1>2. /\ files \in [Uris -> {<<>>} \union {<<e>> : e \in CacheEntry}]
      /\ fetches \in Nat /\ fetched \subseteq CacheEntry
    BY DEF CacheInv, CacheTyped
<1>3. /\ files' \in [Uris -> {<<>>} \union {<<e>> : e \in CacheEntry}]
      /\ \A u \in Uris : files'[u] # <<>> => files'[u] = files[u]
    BY <1>1, <1>2
<1>4. CacheTyped' BY <1>1, <1>2, <1>3 DEF CacheTyped
<1>5. OnceEach(recent') /\ KeepsNewest(memory', recent') BY <1>1 DEF OnceEach, Distinct, KeepsNewest, Order
<1>6. FilesOnlyWithDir' BY <1>3 DEF FilesOnlyWithDir, CacheInv, Whole
<1>7. ServedWasFetched' BY <1>1, <1>3 DEF ServedWasFetched, CacheInv, Whole
<1>8. CachesAgree' BY <1>1 DEF CachesAgree
<1> QED BY <1>4, <1>5, <1>6, <1>7, <1>8 DEF CacheInv

LEMMA CacheStep == CacheAssumption /\ CacheInv /\ [CacheNext]_cacheVars => CacheInv'
<1> SUFFICES ASSUME CacheAssumption, CacheInv, [CacheNext]_cacheVars PROVE CacheInv' OBVIOUS
<1>1. ASSUME NEW uri \in Uris, FetchUri(uri) PROVE CacheInv'
    <2>1. /\ fetches' = fetches + 1
          /\ fetching' = fetching \union {[uri |-> uri, at |-> fetches + 1]}
          /\ UNCHANGED <<memory, files, restarts, served, fetched, recent, unwritten>>
        BY <1>1 DEF FetchUri
    <2>2. CacheTyped' BY <2>1 DEF CacheInv, CacheTyped, InFlight
    <2> QED BY <2>1, <2>2 DEF CacheInv, FilesOnlyWithDir, ServedWasFetched, CachesAgree, Whole
<1>2. ASSUME NEW f, FetchFailed(f) PROVE CacheInv'
    <2>1. /\ fetching' = fetching \ {f}
          /\ UNCHANGED <<memory, files, fetches, restarts, served, fetched, recent, unwritten>>
        BY <1>2 DEF FetchFailed
    <2>2. CacheTyped' BY <2>1 DEF CacheInv, CacheTyped
    <2> QED BY <2>1, <2>2 DEF CacheInv, FilesOnlyWithDir, ServedWasFetched, CachesAgree, Whole
<1>3. ASSUME ClearCache PROVE CacheInv'
    <2>1. /\ memory' = <<>> /\ recent' = <<>> /\ cap \in Nat /\ Len(<<>>) = 0
          /\ UNCHANGED <<files, fetching, fetches, restarts, served, fetched, unwritten>>
        BY <1>3 DEF ClearCache, CacheAssumption
    <2>2. CacheTyped' BY <2>1 DEF CacheInv, CacheTyped
    <2>3. OnceEach(recent') /\ KeepsNewest(memory', recent')
        BY <2>1 DEF OnceEach, Distinct, KeepsNewest, Order
    <2> QED BY <2>1, <2>2, <2>3 DEF CacheInv, FilesOnlyWithDir, ServedWasFetched, CachesAgree, Whole
<1>4. CASE UNCHANGED cacheVars
    BY <1>4 DEF cacheVars, CacheInv, CacheTyped, FilesOnlyWithDir, ServedWasFetched, CachesAgree, Whole
<1> QED BY <1>1, <1>2, <1>3, <1>4, HitKeepsCache, FileHitKeepsCache, FetchedKeepsCache, RestartKeepsCache
        DEF CacheNext

(* The metadata cache (resolver.ts): what it serves was fetched for that   *)
(* URI, the memory holds what was answered last, and the two caches agree, *)
(* for any size, any URIs and any order in which fetches end.              *)
THEOREM CacheIsSafe == CacheSpec => []CacheSafe
<1>1. CacheAssumption BY CacheAssumption DEF CacheAssumption
<1>2. CacheInit => CacheInv BY <1>1, CacheStarts
<1>3. CacheInv /\ [CacheNext]_cacheVars => CacheInv' BY <1>1, CacheStep
<1>4. CacheInv => CacheSafe BY <1>1, CacheInvIsSafe
<1> QED BY <1>2, <1>3, <1>4, PTL DEF CacheSpec
-----------------------------------------------------------------------------
(* Loops over lots: the accounting of accounting.ts, for lots that may     *)
(* carry more than an amount and a basis.                                 *)

Adding(P, f) == [p \in Nat \X P |-> p[1] + f[p[2]]]
SumsTo(g, s, f) == \A k \in 0..Len(s) : g[k] = IF k = 0 THEN 0 ELSE g[k - 1] + f[s[k]]

LEMMA SumOf ==
    ASSUME NEW P, NEW f \in [P -> Nat], NEW ls \in Seq(P)
    PROVE  /\ \A x \in Nat, l \in P : Adding(P, f)[<<x, l>>] = x + f[l]
           /\ \E g \in [0..Len(ls) -> Nat] : SumsTo(g, ls, f)
           /\ \A g : SumsTo(g, ls, f) => g[Len(ls)] = Folded(ls, 0, Adding(P, f))
           /\ Grows(Nat, P, 0, Adding(P, f))
<1> DEFINE n == Len(ls)
           St == Adding(P, f)
<1>1. St \in [Nat \X P -> Nat] /\ \A x \in Nat, l \in P : St[<<x, l>>] = x + f[l]
    BY DEF Adding
<1>2. n \in Nat /\ n \in 0..n /\ (\A k \in 1..n : ls[k] \in P /\ k \in 0..n /\ k # 0) /\ 0 \in 0..n
    OBVIOUS
<1>3. \A k \in 0..n : k # 0 => k \in 1..n /\ k - 1 \in 0..n OBVIOUS
<1> HIDE DEF St, n
<1>4. LoopOver(Nat, P, 0, St, ls) BY <1>1 DEF LoopOver
<1>5. \E g \in [0..n -> Nat] : SumsTo(g, ls, f)
    <2>1. PICK g \in [0..n -> Nat] : Folding(g, ls, 0, St) BY <1>4, FoldingExists, SMT DEF n
    <2>2. \A k \in 0..n : g[k] = IF k = 0 THEN 0 ELSE St[<<g[k - 1], ls[k]>>]
        BY <2>1, Zenon DEF Folding, n
    <2>3. \A k \in 0..n : g[k] = IF k = 0 THEN 0 ELSE g[k - 1] + f[ls[k]]
        BY <1>1, <1>2, <1>3, <2>1, <2>2
    <2> QED BY <2>3, Zenon DEF SumsTo, n
<1>6. ASSUME NEW g, SumsTo(g, ls, f) PROVE g[n] = Folded(ls, 0, St)
    <2>1. Steps(g, n, ls, Nat, 0, St) BY <1>1, <1>2, <1>6, Zenon DEF Steps, SumsTo, n
    <2>2. LoopsTo(g, n, Nat, P, 0, St, ls) BY <1>2, <1>4, <2>1 DEF LoopsTo, n
    <2> QED BY <2>2, FoldedIs, SMT DEF n
<1>7. Grows(Nat, P, 0, St)
    <2>1. LoopOver(Nat, P, 0, St, <<>>) BY <1>1 DEF LoopOver
    <2> QED BY <2>1, FoldedGrows, SMT
<1> QED BY <1>1, <1>5, <1>6, <1>7, Zenon DEF St, n

(* What has an amount and a basis, and a step of their sums.               *)
Piles(P) == \A l \in P : l.amount \in Nat /\ l.basis \in Nat
Adds(P) ==
    /\ Amount(<<>>) = 0 /\ Basis(<<>>) = 0
    /\ \A s \in Seq(P) : Amount(s) \in Nat /\ Basis(s) \in Nat
    /\ \A s \in Seq(P), l \in P : /\ Amount(Append(s, l)) = Amount(s) + l.amount
                                  /\ Basis(Append(s, l)) = Basis(s) + l.basis

LEMMA SumsGrow == ASSUME NEW P, Piles(P) PROVE Adds(P)
<1> DEFINE f == [l \in P |-> l.amount]
           h == [l \in P |-> l.basis]
           Fs == Adding(P, f)
           Hs == Adding(P, h)
<1>1. f \in [P -> Nat] /\ h \in [P -> Nat] /\ \A l \in P : f[l] = l.amount /\ h[l] = l.basis BY DEF Piles
<1> HIDE DEF f, h
<1>2. ASSUME NEW s \in Seq(P) PROVE Amount(s) = Folded(s, 0, Fs)
    <2> DEFINE n == Len(s)
               Sum(g) == g = [k \in 0..n |-> IF k = 0 THEN 0 ELSE g[k - 1] + s[k].amount]
               sum == CHOOSE g : Sum(g)
    <2>1. \A k \in 0..n : k # 0 => s[k] \in P OBVIOUS
    <2> HIDE DEF n
    <2>0. PICK g \in [0..n -> Nat] : SumsTo(g, s, f) BY <1>1, SumOf, Zenon DEF n
    <2>2. \A k \in 0..n : g[k] = IF k = 0 THEN 0 ELSE g[k - 1] + f[s[k]]
        BY <2>0, Zenon DEF SumsTo, n
    <2>3. \A k \in 0..n : g[k] = IF k = 0 THEN 0 ELSE g[k - 1] + s[k].amount
        BY <1>1, <2>1, <2>2, Zenon
    <2>4. g = [k \in 0..n |-> g[k]] BY Zenon
    <2>5. Sum(sum) BY <2>3, <2>4, Zenon
    <2>6. Amount(s) = sum[n] BY Zenon DEF Amount, sum, n
    <2> HIDE DEF sum
    <2>7. SumsTo(sum, s, f) BY <1>1, <2>1, <2>5, Zenon DEF SumsTo, n
    <2> QED BY <1>1, <2>6, <2>7, SumOf, Zenon DEF n
<1>3. ASSUME NEW s \in Seq(P) PROVE Basis(s) = Folded(s, 0, Hs)
    <2> DEFINE n == Len(s)
               Sum(g) == g = [k \in 0..n |-> IF k = 0 THEN 0 ELSE g[k - 1] + s[k].basis]
               sum == CHOOSE g : Sum(g)
    <2>1. \A k \in 0..n : k # 0 => s[k] \in P OBVIOUS
    <2> HIDE DEF n
    <2>0. PICK g \in [0..n -> Nat] : SumsTo(g, s, h) BY <1>1, SumOf, Zenon DEF n
    <2>2. \A k \in 0..n : g[k] = IF k = 0 THEN 0 ELSE g[k - 1] + h[s[k]]
        BY <2>0, Zenon DEF SumsTo, n
    <2>3. \A k \in 0..n : g[k] = IF k = 0 THEN 0 ELSE g[k - 1] + s[k].basis
        BY <1>1, <2>1, <2>2, Zenon
    <2>4. g = [k \in 0..n |-> g[k]] BY Zenon
    <2>5. Sum(sum) BY <2>3, <2>4, Zenon
    <2>6. Basis(s) = sum[n] BY Zenon DEF Basis, sum, n
    <2> HIDE DEF sum
    <2>7. SumsTo(sum, s, h) BY <1>1, <2>1, <2>5, Zenon DEF SumsTo, n
    <2> QED BY <1>1, <2>6, <2>7, SumOf, Zenon DEF n
<1>4. <<>> \in Seq(P) OBVIOUS
<1>5. /\ \A x \in Nat, l \in P : Fs[<<x, l>>] = x + f[l]
      /\ \A x \in Nat, l \in P : Hs[<<x, l>>] = x + h[l]
    BY <1>1, <1>4, SumOf, ZenonT(40)
<1>6. Grows(Nat, P, 0, Fs) /\ Grows(Nat, P, 0, Hs) BY <1>1, <1>4, SumOf, Zenon
<1> HIDE DEF Fs, Hs
<1>7. \A s \in Seq(P), l \in P : Append(s, l) \in Seq(P) OBVIOUS
<1>8. ASSUME NEW s \in Seq(P), NEW l \in P
      PROVE  /\ Amount(Append(s, l)) = Amount(s) + l.amount
             /\ Basis(Append(s, l)) = Basis(s) + l.basis
    <2>1. Folded(s, 0, Fs) \in Nat /\ Folded(s, 0, Hs) \in Nat BY <1>6, Zenon DEF Grows
    <2>2. /\ Folded(Append(s, l), 0, Fs) = Folded(s, 0, Fs) + l.amount
          /\ Folded(Append(s, l), 0, Hs) = Folded(s, 0, Hs) + l.basis
        BY <1>1, <1>5, <1>6, <2>1, ZenonT(40) DEF Grows
    <2> QED BY <1>2, <1>3, <1>7, <2>2, Zenon
<1>9. Amount(<<>>) = 0 /\ Basis(<<>>) = 0 BY <1>2, <1>3, <1>4, <1>6, Zenon DEF Grows
<1>10. \A s \in Seq(P) : Amount(s) \in Nat /\ Basis(s) \in Nat BY <1>2, <1>3, <1>6, Zenon DEF Grows
<1> QED BY <1>8, <1>9, <1>10, Zenon DEF Adds

LEMMA SumsJoin ==
    ASSUME NEW P, Piles(P), NEW a \in Seq(P), NEW b \in Seq(P)
    PROVE  Amount(a \o b) = Amount(a) + Amount(b) /\ Basis(a \o b) = Basis(a) + Basis(b)
<1> DEFINE S == {s \in Seq(P) : Amount(a \o s) = Amount(a) + Amount(s) /\ Basis(a \o s) = Basis(a) + Basis(s)}
<1>1. Adds(P) BY SumsGrow
<1>2. <<>> \in S
    <2>1. a \o <<>> = a /\ <<>> \in Seq(P) OBVIOUS
    <2> QED BY <1>1, <2>1 DEF Adds
<1>3. ASSUME NEW s \in Seq(P), NEW l \in P, s \in S PROVE Append(s, l) \in S
    <2>1. a \o Append(s, l) = Append(a \o s, l) /\ a \o s \in Seq(P) /\ Append(s, l) \in Seq(P) OBVIOUS
    <2>2. l.amount \in Nat /\ l.basis \in Nat BY DEF Piles
    <2>3. /\ Amount(Append(a \o s, l)) = Amount(a \o s) + l.amount
          /\ Basis(Append(a \o s, l)) = Basis(a \o s) + l.basis
          /\ Amount(Append(s, l)) = Amount(s) + l.amount /\ Basis(Append(s, l)) = Basis(s) + l.basis
          /\ Amount(a) \in Nat /\ Amount(s) \in Nat /\ Basis(a) \in Nat /\ Basis(s) \in Nat
        BY <1>1, <2>1 DEF Adds
    <2>4. /\ (Amount(a) + Amount(s)) + l.amount = Amount(a) + (Amount(s) + l.amount)
          /\ (Basis(a) + Basis(s)) + l.basis = Basis(a) + (Basis(s) + l.basis)
        BY <2>2, <2>3
    <2>5. Amount(a \o s) = Amount(a) + Amount(s) /\ Basis(a \o s) = Basis(a) + Basis(s) BY <1>3
    <2> QED BY <2>1, <2>3, <2>4, <2>5, Zenon
<1> HIDE DEF S
<1>4. b \in S BY <1>2, <1>3, SequenceInductionOnSet, Zenon
<1> QED BY <1>4 DEF S

LEMMA SumsReverse ==
    ASSUME NEW P, Piles(P), NEW s \in Seq(P)
    PROVE  /\ Reverse(s) \in Seq(P) /\ Len(Reverse(s)) = Len(s)
           /\ Amount(Reverse(s)) = Amount(s) /\ Basis(Reverse(s)) = Basis(s)
<1> DEFINE S == {q \in Seq(P) : Amount(Reverse(q)) = Amount(q) /\ Basis(Reverse(q)) = Basis(q)}
<1>1. Adds(P) BY SumsGrow
<1>2. <<>> \in S
    <2>1. Reverse(<<>>) = <<>> BY DEF Reverse
    <2> QED BY <2>1
<1>3. \A q \in Seq(P) : Reverse(q) \in Seq(P) /\ Len(Reverse(q)) = Len(q) BY DEF Reverse
<1>4. ASSUME NEW q \in Seq(P), NEW l \in P, q \in S PROVE Append(q, l) \in S
    <2> DEFINE n == Len(q)
    <2>1. Reverse(Append(q, l)) = <<l>> \o Reverse(q)
        <3> DEFINE u == Reverse(Append(q, l))
                   w == <<l>> \o Reverse(q)
        <3>1. n \in Nat /\ Append(q, l) \in Seq(P) /\ Len(Append(q, l)) = n + 1
              /\ (\A i \in 1..n : Append(q, l)[i] = q[i]) /\ Append(q, l)[n + 1] = l
            OBVIOUS
        <3>2. u \in Seq(P) /\ Len(u) = n + 1 /\ \A i \in 1..(n + 1) : u[i] = Append(q, l)[((n + 1) - i) + 1]
            BY <1>3, <3>1 DEF Reverse
        <3>3. Reverse(q) \in Seq(P) /\ Len(Reverse(q)) = n /\ \A i \in 1..n : Reverse(q)[i] = q[(n - i) + 1]
            BY <1>3 DEF Reverse
        <3>4. <<l>> \in Seq(P) /\ Len(<<l>>) = 1 /\ <<l>>[1] = l OBVIOUS
        <3>5. /\ w \in Seq(P) /\ Len(w) = 1 + n
              /\ \A i \in 1..(1 + n) : w[i] = IF i <= 1 THEN l ELSE Reverse(q)[i - 1]
            <4> HIDE DEF n
            <4> QED BY <3>1, <3>3, <3>4, JoinedAt
        <3>6. ASSUME NEW i \in 1..(n + 1) PROVE u[i] = w[i]
            <4> HIDE DEF n, u, w
            <4>1. CASE i = 1
                <5>1. ((n + 1) - i) + 1 = n + 1 BY <3>1, <4>1
                <5> QED BY <3>1, <3>2, <3>5, <4>1, <5>1
            <4>2. CASE i # 1
                <5>1. i - 1 \in 1..n /\ ((n + 1) - i) + 1 = (n - (i - 1)) + 1 /\ (n - (i - 1)) + 1 \in 1..n
                    BY <3>1, <4>2
                <5>2. u[i] = q[(n - (i - 1)) + 1] BY <3>1, <3>2, <5>1
                <5>3. w[i] = Reverse(q)[i - 1]
                    <6>1. ~(i <= 1) /\ i \in 1..(1 + n) BY <3>1, <4>2
                    <6> QED BY <3>5, <6>1
                <5> QED BY <3>3, <5>1, <5>2, <5>3
            <4> QED BY <4>1, <4>2
        <3> HIDE DEF u, w, n
        <3>7. Len(u) = Len(w) BY <3>1, <3>2, <3>5
        <3> QED BY <3>2, <3>5, <3>6, <3>7, SeqEqual DEF u, w
    <2>2. <<l>> \in Seq(P) /\ <<>> \in Seq(P) /\ Append(<<>>, l) = <<l>> /\ Append(q, l) \in Seq(P) OBVIOUS
    <2>3. l.amount \in Nat /\ l.basis \in Nat BY DEF Piles
    <2>4. Amount(<<l>>) = l.amount /\ Basis(<<l>>) = l.basis
        <3>1. Amount(<<l>>) = 0 + l.amount /\ Basis(<<l>>) = 0 + l.basis BY <1>1, <2>2, Zenon DEF Adds
        <3> QED BY <2>3, <3>1
    <2>5. /\ Amount(<<l>> \o Reverse(q)) = Amount(<<l>>) + Amount(Reverse(q))
          /\ Basis(<<l>> \o Reverse(q)) = Basis(<<l>>) + Basis(Reverse(q))
        BY <1>3, <2>2, SumsJoin
    <2>6. Amount(q) \in Nat /\ Basis(q) \in Nat BY <1>1 DEF Adds
    <2>7. Amount(Append(q, l)) = Amount(q) + l.amount /\ Basis(Append(q, l)) = Basis(q) + l.basis
        BY <1>1 DEF Adds
    <2>8. l.amount + Amount(q) = Amount(q) + l.amount /\ l.basis + Basis(q) = Basis(q) + l.basis
        BY <2>3, <2>6
    <2>9. Amount(Reverse(q)) = Amount(q) /\ Basis(Reverse(q)) = Basis(q) BY <1>4
    <2> QED BY <2>1, <2>2, <2>4, <2>5, <2>7, <2>8, <2>9, Zenon
<1> HIDE DEF S
<1>5. s \in S BY <1>2, <1>4, SequenceInductionOnSet, Zenon
<1> QED BY <1>3, <1>5 DEF S

(* A whole part of n, rounded down: never more than all of it.             *)
LEMMA PartOf ==
    ASSUME NEW n \in Nat, NEW taken \in Nat, NEW d \in Nat \ {0}, taken <= d
    PROVE  /\ (n * taken) \div d \in 0..n
           /\ ((n * taken) \div d) * d <= n * taken
           /\ n * taken < ((n * taken) \div d) * d + d
           /\ taken = d => (n * taken) \div d = n
           /\ taken = 0 => (n * taken) \div d = 0
<1> DEFINE p == n * taken
           q == p \div d
<1>1. p \in Nat /\ p <= n * d BY SMT
<1>0. taken = d => p = n * d OBVIOUS
<1>9. taken = 0 => p = 0 OBVIOUS
<1> HIDE DEF p
<1>2. q \in Int /\ q * d <= p /\ p < q * d + d BY <1>1
<1> HIDE DEF q
<1>3. q * d < (n + 1) * d /\ 0 < (q + 1) * d BY <1>1, <1>2
<1>4. q < n + 1 /\ 0 < q + 1 BY <1>2, <1>3
<1>5. q \in 0..n BY <1>2, <1>4
<1>6. ASSUME taken = d PROVE q = n
    <2>1. n * d < (q + 1) * d BY <1>0, <1>2, <1>6
    <2>2. n < q + 1 BY <1>5, <2>1
    <2> QED BY <1>5, <2>2
<1>7. ASSUME taken = 0 PROVE q = 0
    <2>1. q * d <= 0 BY <1>2, <1>7, <1>9
    <2>2. q > 0 => q * d > 0 BY <1>5
    <2> QED BY <1>5, <2>1, <2>2
<1> QED BY <1>2, <1>5, <1>6, <1>7 DEF q, p

(* The lots of a ledger: what is left of one is one.                       *)
LotsOf(L) ==
    \A l \in L :
        /\ l.amount \in Nat \ {0} /\ l.basis \in Nat
        /\ \A t \in Nat : t < l.amount =>
            /\ keep(l, t) \in L
            /\ keep(l, t).amount = l.amount - t
            /\ keep(l, t).basis = l.basis - ((l.basis * t) \div l.amount)
            /\ t = 0 => keep(l, t) = l

WalkedOver(L) == [toTake : Nat, cost : Nat, proceeds : Nat, out : Seq(L)]

(* One lot of the walk.                                                    *)
LEMMA OneLotTaken ==
    ASSUME NEW L, LotsOf(L), NEW r \in WalkedOver(L), NEW l \in L,
           NEW sold \in Nat, NEW proceeds \in Nat
    PROVE  LET t == IF l.amount <= r.toTake THEN l.amount ELSE r.toTake
               n == takeLot(r, l, sold, proceeds)
           IN  /\ n \in WalkedOver(L)
               /\ t \in Nat /\ n.toTake = r.toTake - t
               /\ Amount(n.out) = Amount(r.out) + (l.amount - t)
               /\ Basis(n.out) + n.cost = Basis(r.out) + r.cost + l.basis
               /\ n.proceeds * sold <= r.proceeds * sold + proceeds * t
               /\ Len(n.out) <= Len(r.out) + 1
               /\ t = 0 => n.out = Append(r.out, l)
<1> DEFINE t == IF l.amount <= r.toTake THEN l.amount ELSE r.toTake
           n == takeLot(r, l, sold, proceeds)
           d == IF l.amount > sold THEN l.amount ELSE sold
           b == (l.basis * t) \div l.amount
           p == (proceeds * t) \div d
           kept == keep(l, t)
           out == IF t < l.amount THEN Append(r.out, kept) ELSE r.out
           gained == IF t = 0 THEN r.proceeds ELSE r.proceeds + p
<1>1. l.amount \in Nat \ {0} /\ l.basis \in Nat BY DEF LotsOf
<1>2. r.toTake \in Nat /\ r.cost \in Nat /\ r.proceeds \in Nat /\ r.out \in Seq(L) BY DEF WalkedOver
<1>3. t \in Nat /\ t <= l.amount /\ r.toTake - t \in Nat BY <1>1, <1>2
<1>4. d \in Nat \ {0} /\ t <= d /\ sold <= d BY <1>1, <1>3
<1>5. n = [toTake |-> r.toTake - t, cost |-> r.cost + b, proceeds |-> gained, out |-> out]
    BY Zenon DEF takeLot, lotProceeds
<1> HIDE DEF t, d, n
<1>6. b \in 0..l.basis /\ (t = l.amount => b = l.basis) /\ (t = 0 => b = 0)
    <2> DEFINE m == l.basis
               e == l.amount
    <2>1. m \in Nat /\ e \in Nat \ {0} /\ t \in 0..e BY <1>1, <1>3
    <2> HIDE DEF m, e
    <2>2. (m * t) \div e \in 0..m /\ (t = e => (m * t) \div e = m) /\ (t = 0 => (m * t) \div e = 0)
        BY <2>1, PartOf
    <2> QED BY <2>2 DEF m, e
<1>7. p \in 0..proceeds /\ p * d <= proceeds * t BY <1>3, <1>4, PartOf
<1>8. t < l.amount => /\ kept \in L /\ kept.amount = l.amount - t /\ kept.basis = l.basis - b
                      /\ t = 0 => kept = l
    BY <1>3 DEF LotsOf
<1> HIDE DEF b, p, kept
<1>9. out \in Seq(L) /\ gained \in Nat /\ r.cost + b \in Nat BY <1>1, <1>2, <1>6, <1>7, <1>8
<1>10. Piles(L) BY DEF Piles, LotsOf
<1>11. Adds(L) BY <1>10, SumsGrow
<1>12. Amount(r.out) \in Nat /\ Basis(r.out) \in Nat BY <1>2, <1>11 DEF Adds
<1>13. Amount(out) = Amount(r.out) + (l.amount - t)
    <2>1. CASE t < l.amount
        <3>1. out = Append(r.out, kept) BY <2>1
        <3>2. Amount(out) = Amount(r.out) + kept.amount BY <1>2, <1>8, <1>11, <2>1, <3>1, Zenon DEF Adds
        <3> QED BY <1>8, <2>1, <3>2
    <2>2. CASE ~(t < l.amount)
        <3>1. out = r.out /\ l.amount - t = 0 BY <1>1, <1>3, <2>2
        <3> QED BY <1>12, <3>1
    <2> QED BY <2>1, <2>2
<1>14. Basis(out) + (r.cost + b) = Basis(r.out) + r.cost + l.basis
    <2>1. CASE t < l.amount
        <3>1. out = Append(r.out, kept) BY <2>1
        <3>2. Basis(out) = Basis(r.out) + kept.basis BY <1>2, <1>8, <1>11, <2>1, <3>1, Zenon DEF Adds
        <3>3. kept.basis = l.basis - b BY <1>8, <2>1
        <3> HIDE DEF out
        <3> QED BY <1>1, <1>2, <1>6, <1>12, <3>2, <3>3
    <2>2. CASE ~(t < l.amount)
        <3>1. out = r.out /\ b = l.basis BY <1>1, <1>3, <1>6, <2>2
        <3> HIDE DEF out
        <3> QED BY <1>1, <1>2, <1>12, <3>1
    <2> QED BY <2>1, <2>2
<1>15. gained * sold <= r.proceeds * sold + proceeds * t
    <2>1. p * sold <= p * d BY <1>4, <1>7
    <2>2. p * sold <= proceeds * t
        <3> DEFINE u == p * d
                   v == p * sold
                   w == proceeds * t
        <3>1. u \in Int /\ v \in Int /\ w \in Int BY <1>3, <1>4, <1>7
        <3>2. v <= u /\ u <= w BY <1>7, <2>1
        <3> HIDE DEF u, v, w
        <3> QED BY <3>1, <3>2 DEF v, w
    <2>3. (r.proceeds + p) * sold = r.proceeds * sold + p * sold BY <1>2, <1>7
    <2>4. proceeds * t \in Nat /\ r.proceeds * sold \in Nat /\ p * sold \in Nat BY <1>2, <1>3, <1>7
    <2> QED BY <2>2, <2>3, <2>4
<1>16. Len(out) <= Len(r.out) + 1 BY <1>2, <1>8
<1>17. t = 0 => out = Append(r.out, l) BY <1>1, <1>8
<1> HIDE DEF out, gained
<1>18. n \in WalkedOver(L) /\ n.toTake = r.toTake - t /\ n.cost = r.cost + b /\ n.proceeds = gained /\ n.out = out
    BY <1>3, <1>5, <1>9 DEF WalkedOver
<1> QED BY <1>3, <1>13, <1>14, <1>15, <1>16, <1>17, <1>18 DEF t, n

(* The walk takes one step for one lot more.                               *)
StartOf(sold) == [toTake |-> sold, cost |-> 0, proceeds |-> 0, out |-> <<>>]

LEMMA WalkGrows ==
    ASSUME NEW L, LotsOf(L), NEW sold \in Nat, NEW proceeds \in Nat
    PROVE  /\ walkLots(<<>>, sold, proceeds) = StartOf(sold)
           /\ \A s \in Seq(L) : walkLots(s, sold, proceeds) \in WalkedOver(L)
           /\ \A s \in Seq(L), l \in L :
                walkLots(Append(s, l), sold, proceeds) = takeLot(walkLots(s, sold, proceeds), l, sold, proceeds)
<1> DEFINE W == WalkedOver(L)
           start == StartOf(sold)
           St == [p \in W \X L |-> takeLot(p[1], p[2], sold, proceeds)]
<1>0. start \in W BY DEF WalkedOver, StartOf
<1>1. St \in [W \X L -> W] /\ \A r \in W, l \in L : St[<<r, l>>] = takeLot(r, l, sold, proceeds)
    <2>1. \A r \in W, l \in L : takeLot(r, l, sold, proceeds) \in W BY OneLotTaken
    <2>2. \A p \in W \X L : takeLot(p[1], p[2], sold, proceeds) \in W BY <2>1
    <2>3. \A r \in W, l \in L : <<r, l>> \in W \X L BY Zenon
    <2> QED BY <2>2, <2>3
<1> HIDE DEF W, start, St
<1>2. \A s \in Seq(L) : LoopOver(W, L, start, St, s) BY <1>0, <1>1, Zenon DEF LoopOver
<1>3. ASSUME NEW s \in Seq(L) PROVE walkLots(s, sold, proceeds) = Folded(s, start, St)
    <2> DEFINE n == Len(s)
               Walk(g) == g = [k \in 0..n |-> IF k = 0 THEN start
                                              ELSE takeLot(g[k - 1], s[k], sold, proceeds)]
               walk == CHOOSE g : Walk(g)
    <2>1. n \in Nat /\ n \in 0..n /\ (\A k \in 1..n : s[k] \in L /\ k \in 0..n /\ k # 0) /\ 0 \in 0..n OBVIOUS
    <2>2. \A k \in 0..n : k # 0 => k \in 1..n /\ k - 1 \in 0..n OBVIOUS
    <2> HIDE DEF n
    <2>3. PICK g \in [0..n -> W] : Folding(g, s, start, St) BY <1>2, FoldingExists, SMT DEF n
    <2>4. \A k \in 0..n : g[k] = IF k = 0 THEN start ELSE St[<<g[k - 1], s[k]>>]
        BY <2>3, Zenon DEF Folding, n
    <2>5. \A k \in 0..n : g[k] = IF k = 0 THEN start ELSE takeLot(g[k - 1], s[k], sold, proceeds)
        BY <1>1, <2>1, <2>2, <2>3, <2>4, Zenon
    <2>6. g = [k \in 0..n |-> g[k]] BY Zenon
    <2>7. Walk(walk) BY <2>5, <2>6, Zenon
    <2>8. walkLots(s, sold, proceeds) = walk[n] BY Zenon DEF walkLots, walk, n, start, StartOf
    <2> HIDE DEF walk
    <2>9. \A k \in 0..n : walk[k] = IF k = 0 THEN start ELSE takeLot(walk[k - 1], s[k], sold, proceeds)
        BY <2>7, Zenon
    <2>10. Steps(walk, n, s, W, start, St) BY <1>1, <2>1, <2>9, Zenon DEF Steps
    <2>11. LoopsTo(walk, n, W, L, start, St, s) BY <1>2, <2>1, <2>10, Zenon DEF LoopsTo, n
    <2>12. walk[n] = Folded(s, start, St) BY <2>11, FoldedIs, SMT DEF n
    <2> QED BY <2>8, <2>12
<1>4. <<>> \in Seq(L) /\ \A s \in Seq(L), l \in L : Append(s, l) \in Seq(L) OBVIOUS
<1>5. Grows(W, L, start, St)
    <2>1. LoopOver(W, L, start, St, <<>>) BY <1>2, <1>4, Zenon
    <2> QED BY <2>1, FoldedGrows, SMT
<1>6. walkLots(<<>>, sold, proceeds) = start BY <1>3, <1>4, <1>5, Zenon DEF Grows
<1>7. \A s \in Seq(L) : walkLots(s, sold, proceeds) \in W BY <1>3, <1>5, Zenon DEF Grows
<1>8. ASSUME NEW s \in Seq(L), NEW l \in L
      PROVE  walkLots(Append(s, l), sold, proceeds) = takeLot(walkLots(s, sold, proceeds), l, sold, proceeds)
    <2>1. Folded(Append(s, l), start, St) = St[<<Folded(s, start, St), l>>] BY <1>5, Zenon DEF Grows
    <2>2. Append(s, l) \in Seq(L) BY <1>4, Zenon
    <2>3. walkLots(Append(s, l), sold, proceeds) = Folded(Append(s, l), start, St) BY <1>3, <2>2, Zenon
    <2>4. walkLots(s, sold, proceeds) = Folded(s, start, St) BY <1>3, Zenon
    <2>5. St[<<walkLots(s, sold, proceeds), l>>] = takeLot(walkLots(s, sold, proceeds), l, sold, proceeds)
        BY <1>1, <1>7, Zenon
    <2> QED BY <2>1, <2>3, <2>4, <2>5, Zenon
<1> QED BY <1>6, <1>7, <1>8, Zenon DEF start, W

(* A walk over ls: what it has taken is of the lots, and no lamport of     *)
(* them or of the sale is in two places or in none.                        *)
Sells(ls, sold, proceeds) ==
    LET w == walkLots(ls, sold, proceeds)
    IN  /\ w.toTake = IF Amount(ls) >= sold THEN 0 ELSE sold - Amount(ls)
        /\ Amount(w.out) + (sold - w.toTake) = Amount(ls)
        /\ Basis(w.out) + w.cost = Basis(ls)
        /\ w.proceeds * sold <= proceeds * (sold - w.toTake)
        /\ Len(w.out) <= Len(ls)

LEMMA WalkSells ==
    ASSUME NEW L, LotsOf(L), NEW sold \in Nat, NEW proceeds \in Nat, NEW ls \in Seq(L)
    PROVE  Sells(ls, sold, proceeds)
<1> DEFINE S == {s \in Seq(L) : Sells(s, sold, proceeds)}
<1>1. Piles(L) BY DEF Piles, LotsOf
<1>2. Adds(L) BY <1>1, SumsGrow
<1>3. <<>> \in S
    <2>1. walkLots(<<>>, sold, proceeds) = StartOf(sold) BY WalkGrows
    <2>2. Amount(<<>>) = 0 /\ Basis(<<>>) = 0 BY <1>2 DEF Adds
    <2>3. <<>> \in Seq(L) /\ Len(<<>>) = 0 OBVIOUS
    <2> QED BY <2>1, <2>2, <2>3 DEF Sells, StartOf
<1>4. ASSUME NEW s \in Seq(L), NEW l \in L, s \in S PROVE Append(s, l) \in S
    <2> DEFINE r == walkLots(s, sold, proceeds)
               n == walkLots(Append(s, l), sold, proceeds)
               t == IF l.amount <= r.toTake THEN l.amount ELSE r.toTake
    <2>1. r \in WalkedOver(L) /\ n = takeLot(r, l, sold, proceeds) BY WalkGrows
    <2>2. /\ r.toTake = IF Amount(s) >= sold THEN 0 ELSE sold - Amount(s)
          /\ Amount(r.out) + (sold - r.toTake) = Amount(s)
          /\ Basis(r.out) + r.cost = Basis(s)
          /\ r.proceeds * sold <= proceeds * (sold - r.toTake)
          /\ Len(r.out) <= Len(s)
        BY <1>4, Zenon DEF Sells
    <2>3. /\ n \in WalkedOver(L)
          /\ t \in Nat /\ n.toTake = r.toTake - t
          /\ Amount(n.out) = Amount(r.out) + (l.amount - t)
          /\ Basis(n.out) + n.cost = Basis(r.out) + r.cost + l.basis
          /\ n.proceeds * sold <= r.proceeds * sold + proceeds * t
          /\ Len(n.out) <= Len(r.out) + 1
        <3> HIDE DEF r, n
        <3> QED BY <2>1, OneLotTaken
    <2>4. /\ l.amount \in Nat \ {0} /\ l.basis \in Nat BY DEF LotsOf
    <2>5. /\ r.toTake \in Nat /\ r.cost \in Nat /\ r.proceeds \in Nat /\ r.out \in Seq(L)
          /\ n.cost \in Nat /\ n.proceeds \in Nat /\ n.out \in Seq(L)
        BY <2>1, <2>3 DEF WalkedOver
    <2>6. /\ Amount(Append(s, l)) = Amount(s) + l.amount /\ Basis(Append(s, l)) = Basis(s) + l.basis
          /\ Amount(s) \in Nat /\ Basis(s) \in Nat
          /\ Amount(r.out) \in Nat /\ Basis(r.out) \in Nat /\ Amount(n.out) \in Nat /\ Basis(n.out) \in Nat
        BY <1>2, <2>5 DEF Adds
    <2>7. t = IF l.amount <= r.toTake THEN l.amount ELSE r.toTake OBVIOUS
    <2>8. Len(s) \in Nat /\ Len(Append(s, l)) = Len(s) + 1 /\ Append(s, l) \in Seq(L) OBVIOUS
    <2>9. Len(r.out) \in Nat /\ Len(n.out) \in Nat BY <2>5
    <2>15. n.toTake = r.toTake - t /\ t \in Nat /\ Amount(n.out) = Amount(r.out) + (l.amount - t) BY <2>3
    <2>16. n.proceeds * sold <= r.proceeds * sold + proceeds * t BY <2>3
    <2> HIDE DEF r, n, t
    <2>10. n.toTake = IF Amount(s) + l.amount >= sold THEN 0 ELSE sold - (Amount(s) + l.amount)
        <3>1. CASE Amount(s) >= sold
            <4>1. r.toTake = 0 /\ t = 0 BY <2>2, <2>4, <2>7, <3>1
            <4>2. Amount(s) + l.amount >= sold BY <2>4, <2>6, <3>1
            <4> QED BY <2>3, <4>1, <4>2
        <3>2. CASE ~(Amount(s) >= sold)
            <4>1. r.toTake = sold - Amount(s) BY <2>2, <3>2
            <4>2. CASE l.amount <= r.toTake
                <5>1. t = l.amount BY <2>7, <4>2
                <5>2. n.toTake = sold - (Amount(s) + l.amount) BY <2>4, <2>6, <2>15, <4>1, <5>1
                <5>3. Amount(s) + l.amount <= sold BY <2>4, <2>6, <4>1, <4>2
                <5> QED BY <2>4, <2>6, <5>2, <5>3
            <4>3. CASE ~(l.amount <= r.toTake)
                <5>1. t = r.toTake BY <2>7, <4>3
                <5>2. n.toTake = 0 BY <2>5, <2>15, <5>1
                <5>3. Amount(s) + l.amount >= sold BY <2>4, <2>6, <4>1, <4>3
                <5> QED BY <5>2, <5>3
            <4> QED BY <4>2, <4>3
        <3> QED BY <3>1, <3>2
    <2>11. Amount(n.out) + (sold - n.toTake) = Amount(s) + l.amount
        <3>1. Amount(n.out) = Amount(r.out) + (l.amount - t) /\ n.toTake = r.toTake - t BY <2>15
        <3>2. Amount(r.out) + (sold - r.toTake) = Amount(s) BY <2>2
        <3>3. t \in Nat BY <2>15
        <3> DEFINE x == Amount(n.out)
                   y == Amount(r.out)
                   z == l.amount
                   v == n.toTake
                   w == r.toTake
        <3>4. x \in Nat /\ y \in Nat /\ z \in Nat /\ w \in Nat /\ Amount(s) \in Nat BY <2>4, <2>5, <2>6
        <3>5. x = y + (z - t) /\ v = w - t /\ y + (sold - w) = Amount(s) BY <3>1, <3>2
        <3> HIDE DEF x, y, z, v, w
        <3>6. x + (sold - v) = Amount(s) + z BY <3>3, <3>4, <3>5
        <3> QED BY <3>6 DEF x, v, z
    <2>12. Basis(n.out) + n.cost = Basis(s) + l.basis BY <2>2, <2>3, <2>4, <2>5, <2>6
    <2>13. n.proceeds * sold <= proceeds * (sold - n.toTake)
        <3>1. proceeds * (sold - n.toTake) = proceeds * (sold - r.toTake) + proceeds * t
            <4>1. sold - n.toTake = (sold - r.toTake) + t /\ sold - r.toTake \in Int BY <2>5, <2>15
            <4> DEFINE u == sold - r.toTake
            <4> HIDE DEF u
            <4>2. proceeds * (u + t) = proceeds * u + proceeds * t BY <2>15, <4>1 DEF u
            <4> QED BY <4>1, <4>2 DEF u
        <3> DEFINE x == n.proceeds * sold
                   y == r.proceeds * sold
                   z == proceeds * (sold - r.toTake)
                   v == proceeds * t
        <3>2. x \in Int /\ y \in Int /\ z \in Int /\ v \in Int
            <4>1. sold \in Int /\ proceeds \in Int /\ n.proceeds \in Int /\ r.proceeds \in Int
                  /\ t \in Int /\ sold - r.toTake \in Int
                BY <2>5, <2>15
            <4>2. \A a, c \in Int : a * c \in Int OBVIOUS
            <4> QED BY <4>1, <4>2, Zenon
        <3>3. x <= y + v /\ y <= z BY <2>2, <2>16
        <3> HIDE DEF x, y, z, v
        <3>4. x <= z + v BY <3>2, <3>3
        <3> QED BY <3>1, <3>4 DEF x, z, v
    <2>14. Len(n.out) <= Len(s) + 1 BY <2>2, <2>3, <2>8, <2>9
    <2> QED BY <2>6, <2>8, <2>10, <2>11, <2>12, <2>13, <2>14 DEF Sells, n
<1> HIDE DEF S
<1>5. ls \in S BY <1>3, <1>4, SequenceInductionOnSet, Zenon
<1> QED BY <1>5 DEF S

LEMMA NothingIsTaken ==
    ASSUME NEW L, LotsOf(L), NEW r, NEW l \in L, NEW sold, NEW proceeds, r.toTake = 0
    PROVE  takeLot(r, l, sold, proceeds).out = Append(r.out, l)
<1> DEFINE t == IF l.amount <= r.toTake THEN l.amount ELSE r.toTake
           out == IF t < l.amount THEN Append(r.out, keep(l, t)) ELSE r.out
<1>1. l.amount \in Nat \ {0} /\ keep(l, 0) = l BY DEF LotsOf
<1>2. takeLot(r, l, sold, proceeds).out = out BY DEF takeLot
<1>3. t = 0 /\ t < l.amount BY <1>1
<1> HIDE DEF t
<1>4. out = Append(r.out, l) BY <1>1, <1>3
<1> QED BY <1>2, <1>4

(* The last lot, when the others cover the sale, is left alone.            *)
LEMMA LastIsLeft ==
    ASSUME NEW L, LotsOf(L), NEW sold \in Nat, NEW proceeds \in Nat, NEW ls \in Seq(L), NEW l \in L,
           sold <= Amount(ls)
    PROVE  LET w == walkLots(Append(ls, l), sold, proceeds)
           IN  w.out # <<>> /\ w.out[Len(w.out)] = l
<1> DEFINE r == walkLots(ls, sold, proceeds)
           w == walkLots(Append(ls, l), sold, proceeds)
<1>1. r \in WalkedOver(L) /\ w = takeLot(r, l, sold, proceeds) BY WalkGrows
<1>2. Piles(L) BY DEF Piles, LotsOf
<1>3. Adds(L) BY <1>2, SumsGrow
<1>4. Amount(ls) \in Nat BY <1>3 DEF Adds
<1>5. Sells(ls, sold, proceeds) BY WalkSells
<1>6. r.toTake = 0 BY <1>4, <1>5 DEF Sells
<1>7. l.amount \in Nat \ {0} BY DEF LotsOf
<1> HIDE DEF r, w
<1>8. w.out = Append(r.out, l) BY <1>1, <1>6, NothingIsTaken, Zenon
<1>9. r.out \in Seq(L) BY <1>1 DEF WalkedOver
<1>10. Append(r.out, l) # <<>> /\ Append(r.out, l)[Len(Append(r.out, l))] = l BY <1>9
<1> QED BY <1>8, <1>10 DEF w

(* Lots with nothing but an amount and a basis, the basis at most m.       *)
Cheap(m) == {l \in Lot : l.basis <= m}

LEMMA CheapAreLots == ASSUME NEW m \in Nat PROVE LotsOf(Cheap(m)) /\ LotsOf(Lot)
<1>1. ASSUME NEW l \in Lot, NEW t \in Nat, t < l.amount
      PROVE  LET b == (l.basis * t) \div l.amount
             IN  /\ b \in 0..l.basis /\ keep(l, t) = [amount |-> l.amount - t, basis |-> l.basis - b]
                 /\ t = 0 => keep(l, t) = l
    <2> DEFINE n == l.basis
               d == l.amount
               b == (n * t) \div d
    <2>1. d \in Nat \ {0} /\ n \in Nat /\ l = [amount |-> d, basis |-> n] BY DEF Lot
    <2>2. b \in 0..n /\ (t = 0 => b = 0)
        <3>1. t <= d BY <1>1, <2>1
        <3> HIDE DEF n, d
        <3> QED BY <2>1, <3>1, PartOf
    <2>3. keep(l, t) = [amount |-> d - t, basis |-> n - b]
        <3>1. keep(l, t) = [l EXCEPT !.amount = d - t, !.basis = n - b] BY Zenon DEF keep
        <3> HIDE DEF b, n, d
        <3> QED BY <2>1, <3>1
    <2> HIDE DEF b, n, d
    <2>4. t = 0 => keep(l, t) = l BY <2>1, <2>2, <2>3
    <2> QED BY <2>2, <2>3, <2>4 DEF b, n, d
<1>2. ASSUME NEW l \in Lot, NEW t \in Nat, t < l.amount
      PROVE  /\ keep(l, t) \in Lot /\ keep(l, t).basis <= l.basis
             /\ keep(l, t).amount = l.amount - t
             /\ keep(l, t).basis = l.basis - ((l.basis * t) \div l.amount)
             /\ t = 0 => keep(l, t) = l
    <2> DEFINE b == (l.basis * t) \div l.amount
    <2>1. b \in 0..l.basis /\ keep(l, t) = [amount |-> l.amount - t, basis |-> l.basis - b]
          /\ (t = 0 => keep(l, t) = l)
        BY <1>1, <1>2
    <2> HIDE DEF b
    <2>2. l.amount \in Nat \ {0} /\ l.basis \in Nat BY DEF Lot
    <2>3. l.amount - t \in Nat \ {0} /\ l.basis - b \in Nat /\ l.basis - b <= l.basis BY <1>2, <2>1, <2>2
    <2>4. keep(l, t) \in Lot BY <2>1, <2>3 DEF Lot
    <2> QED BY <2>1, <2>3, <2>4 DEF b
<1>3. LotsOf(Lot) BY <1>2 DEF LotsOf, Lot
<1>4. LotsOf(Cheap(m))
    <2> SUFFICES ASSUME NEW l \in Cheap(m)
                 PROVE  /\ l.amount \in Nat \ {0} /\ l.basis \in Nat
                        /\ \A t \in Nat : t < l.amount =>
                            /\ keep(l, t) \in Cheap(m)
                            /\ keep(l, t).amount = l.amount - t
                            /\ keep(l, t).basis = l.basis - ((l.basis * t) \div l.amount)
                            /\ t = 0 => keep(l, t) = l
        BY DEF LotsOf
    <2>1. l \in Lot /\ l.amount \in Nat \ {0} /\ l.basis \in Nat /\ l.basis <= m BY DEF Cheap, Lot
    <2> SUFFICES ASSUME NEW t \in Nat, t < l.amount
                 PROVE  /\ keep(l, t) \in Cheap(m)
                        /\ keep(l, t).amount = l.amount - t
                        /\ keep(l, t).basis = l.basis - ((l.basis * t) \div l.amount)
                        /\ t = 0 => keep(l, t) = l
        BY <2>1
    <2>2. /\ keep(l, t) \in Lot /\ keep(l, t).basis <= l.basis
          /\ keep(l, t).amount = l.amount - t
          /\ keep(l, t).basis = l.basis - ((l.basis * t) \div l.amount)
          /\ t = 0 => keep(l, t) = l
        BY <1>2, <2>1
    <2>3. keep(l, t).basis \in Nat BY <2>2 DEF Lot
    <2>4. keep(l, t).basis <= m BY <2>1, <2>2, <2>3
    <2> QED BY <2>2, <2>4 DEF Cheap
<1> QED BY <1>3, <1>4

-----------------------------------------------------------------------------
(* Average cost: every lot gives its share, n of the a tokens there are.   *)
ShareOf(l, n, a) == (l.amount * n) \div a
BasisOf(l, n, a) == (l.basis * ShareOf(l, n, a)) \div l.amount
Left == [amount : Nat, basis : Nat]

LEMMA FactorsCancel ==
    ASSUME NEW a \in Nat \ {0}, NEW x \in Int, NEW y \in Int
    PROVE  /\ x * a < y * a => x < y
           /\ x * a <= y * a => x <= y
BY SMT

LEMMA OneShare ==
    ASSUME NEW l \in Lot, NEW n \in Nat, NEW a \in Nat \ {0}, n <= a
    PROVE  LET s == ShareOf(l, n, a)
               b == BasisOf(l, n, a)
           IN  /\ s \in 0..l.amount /\ b \in 0..l.basis
               /\ s * a <= l.amount * n /\ l.amount * n < s * a + a
               /\ b * a <= l.basis * n
               /\ keep(l, s) = [amount |-> l.amount - s, basis |-> l.basis - b]
               /\ s = l.amount => b = l.basis
<1> DEFINE d == l.amount
           c == l.basis
           s == ShareOf(l, n, a)
           b == BasisOf(l, n, a)
<1>1. d \in Nat \ {0} /\ c \in Nat /\ l = [amount |-> d, basis |-> c] BY DEF Lot
<1>2. s = (d * n) \div a /\ b = (c * s) \div d BY DEF ShareOf, BasisOf
<1>3. keep(l, s) = [l EXCEPT !.amount = d - s, !.basis = c - b] BY Zenon DEF keep, b, s, BasisOf
<1> HIDE DEF d, c, s, b
<1>4. s \in 0..d /\ s * a <= d * n /\ d * n < s * a + a BY <1>1, <1>2, PartOf
<1>5. b \in 0..c /\ b * d <= c * s /\ (s = d => b = c)
    <2>1. s \in Nat /\ s <= d BY <1>4
    <2> QED BY <1>1, <1>2, <2>1, PartOf, ZenonT(40)
<1>6. b * a <= c * n
    <2>0. s \in Nat /\ b \in Nat BY <1>4, <1>5
    <2>1. (b * d) * a <= (c * s) * a
        <3> DEFINE x == b * d
                   y == c * s
        <3>1. x \in Nat /\ y \in Nat /\ x <= y BY <1>1, <1>5, <2>0
        <3> HIDE DEF x, y
        <3> QED BY <3>1 DEF x, y
    <2>2. c * (s * a) <= c * (d * n)
        <3> DEFINE x == s * a
                   y == d * n
        <3>1. x \in Nat /\ y \in Nat /\ x <= y BY <1>1, <1>4, <2>0
        <3> HIDE DEF x, y
        <3> QED BY <1>1, <3>1 DEF x, y
    <2>3. (b * d) * a = (b * a) * d /\ (c * s) * a = c * (s * a) /\ c * (d * n) = (c * n) * d
        BY <1>1, <2>0
    <2>4. (b * a) * d <= (c * n) * d
        <3> DEFINE x == (b * a) * d
                   y == c * (s * a)
                   z == (c * n) * d
        <3>1. x \in Nat /\ y \in Nat /\ z \in Nat BY <1>1, <2>0
        <3>2. x <= y /\ y <= z BY <2>1, <2>2, <2>3
        <3> HIDE DEF x, y, z
        <3>3. x <= z BY <3>1, <3>2
        <3> QED BY <3>3 DEF x, z
    <2>5. b * a \in Int /\ c * n \in Int BY <1>1, <2>0
    <2> QED BY <1>1, <2>4, <2>5, FactorsCancel
<1>7. keep(l, s) = [amount |-> d - s, basis |-> c - b] BY <1>1, <1>3
<1> QED BY <1>4, <1>5, <1>6, <1>7 DEF d, c, s, b

Averaged(ls, n, a) == Only([k \in DOMAIN ls |-> keep(ls[k], ShareOf(ls[k], n, a))], Lot)

LEMMA AverageGrows ==
    ASSUME NEW n \in Nat, NEW a \in Nat \ {0}, n <= a
    PROVE  /\ Averaged(<<>>, n, a) = <<>>
           /\ \A s \in Seq(Lot), l \in Lot :
                LET kept == keep(l, ShareOf(l, n, a))
                IN  Averaged(Append(s, l), n, a) =
                        Averaged(s, n, a) \o (IF kept \in Lot THEN <<kept>> ELSE <<>>)
<1> DEFINE left(s) == [k \in DOMAIN s |-> keep(s[k], ShareOf(s[k], n, a))]
<1>1. \A l \in Lot : keep(l, ShareOf(l, n, a)) \in Left
    <2> SUFFICES ASSUME NEW l \in Lot PROVE keep(l, ShareOf(l, n, a)) \in Left OBVIOUS
    <2> DEFINE s == ShareOf(l, n, a)
               b == BasisOf(l, n, a)
    <2>1. s \in 0..l.amount /\ b \in 0..l.basis /\ keep(l, s) = [amount |-> l.amount - s, basis |-> l.basis - b]
        BY OneShare
    <2> HIDE DEF s, b
    <2>2. l.amount \in Nat /\ l.basis \in Nat BY DEF Lot
    <2>3. l.amount - s \in Nat /\ l.basis - b \in Nat BY <2>1, <2>2
    <2>4. keep(l, s) \in Left BY <2>1, <2>3 DEF Left
    <2> QED BY <2>4 DEF s
<1>2. Averaged(<<>>, n, a) = <<>>
    <2>1. left(<<>>) = <<>> OBVIOUS
    <2> QED BY <2>1, OnlyEmpty, Zenon DEF Averaged
<1>3. ASSUME NEW s \in Seq(Lot), NEW l \in Lot
      PROVE  LET kept == keep(l, ShareOf(l, n, a))
             IN  Averaged(Append(s, l), n, a) = Averaged(s, n, a) \o (IF kept \in Lot THEN <<kept>> ELSE <<>>)
    <2> DEFINE kept == keep(l, ShareOf(l, n, a))
               u == Append(s, l)
               m == Len(s)
    <2>1. m \in Nat /\ DOMAIN s = 1..m /\ DOMAIN u = 1..(m + 1) /\ u[m + 1] = l
          /\ (\A k \in 1..m : s[k] \in Lot /\ u[k] = s[k])
        OBVIOUS
    <2>2. kept \in Left BY <1>1
    <2> HIDE DEF kept, u, m
    <2>3. left(s) \in Seq(Left) /\ Len(left(s)) = m /\ \A k \in 1..m : left(s)[k] = keep(s[k], ShareOf(s[k], n, a))
        <3> DEFINE q == left(s)
        <3>1. DOMAIN q = 1..m BY <2>1
        <3>2. \A k \in 1..m : q[k] = keep(s[k], ShareOf(s[k], n, a)) /\ q[k] \in Left BY <1>1, <2>1
        <3>3. q = [k \in 1..m |-> q[k]] BY <2>1
        <3> HIDE DEF q
        <3>4. q \in Seq(Left) /\ Len(q) = m BY <2>1, <3>2, <3>3
        <3> QED BY <3>2, <3>4 DEF q
    <2>4. left(u) = Append(left(s), kept)
        <3> DEFINE q == left(s)
                   p == left(u)
        <3>0. p = [k \in 1..(m + 1) |-> p[k]] BY <2>1
        <3>1. \A k \in 1..(m + 1) : p[k] = keep(u[k], ShareOf(u[k], n, a)) BY <2>1
        <3>2. p[m + 1] = kept
            <4>1. m + 1 \in 1..(m + 1) BY <2>1
            <4> QED BY <2>1, <3>1, <4>1 DEF kept
        <3>3. \A k \in 1..m : p[k] = q[k]
            <4>1. \A k \in 1..m : k \in 1..(m + 1) BY <2>1
            <4>2. \A k \in 1..m : p[k] = keep(s[k], ShareOf(s[k], n, a)) BY <2>1, <3>1, <4>1, Zenon
            <4>3. \A k \in 1..m : q[k] = keep(s[k], ShareOf(s[k], n, a)) BY <2>3, Zenon
            <4> QED BY <4>2, <4>3, Zenon
        <3>4. q \in Seq(Left) /\ Len(q) = m BY <2>3
        <3> HIDE DEF p, q
        <3> DEFINE w == Append(q, kept)
        <3>5. w \in Seq(Left) /\ Len(w) = m + 1 /\ w[m + 1] = kept /\ \A k \in 1..m : w[k] = q[k] BY <2>2, <3>4
        <3> HIDE DEF w
        <3>8. w = [k \in 1..(m + 1) |-> w[k]] BY <3>5
        <3>6. \A k \in 1..(m + 1) : p[k] = w[k]
            <4>1. \A k \in 1..(m + 1) : k = m + 1 \/ k \in 1..m BY <2>1
            <4> QED BY <3>2, <3>3, <3>5, <4>1, Zenon
        <3>9. p = w BY <3>0, <3>6, <3>8, Zenon
        <3>7. p = Append(q, kept) BY <3>9 DEF w
        <3> QED BY <3>7 DEF p, q
    <2>5. Only(Append(left(s), kept), Lot) = Only(left(s), Lot) \o (IF kept \in Lot THEN <<kept>> ELSE <<>>)
        BY <2>2, <2>3, OnlyAppend, ZenonT(40)
    <2>6. Averaged(u, n, a) = Only(left(u), Lot) /\ Averaged(s, n, a) = Only(left(s), Lot)
        BY Zenon DEF Averaged
    <2> HIDE DEF left
    <2>7. Averaged(u, n, a) = Averaged(s, n, a) \o (IF kept \in Lot THEN <<kept>> ELSE <<>>)
        BY <2>4, <2>5, <2>6, Zenon
    <2> QED BY <2>7 DEF u, kept
<1> QED BY <1>2, <1>3

(* What sold lots and a sold part of one more make together.               *)
LEMMA SharesAddUp ==
    ASSUME NEW a \in Nat, NEW n \in Nat, NEW g \in Int, NEW x \in Int, NEW s \in Int, NEW y \in Int,
           g * a <= x * n, s * a <= y * n
    PROVE  (g + s) * a <= (x + y) * n
<1> DEFINE ga == g * a
           sa == s * a
           xn == x * n
           yn == y * n
<1>1. ga \in Int /\ sa \in Int /\ xn \in Int /\ yn \in Int OBVIOUS
<1>2. (g + s) * a = ga + sa /\ (x + y) * n = xn + yn /\ ga <= xn /\ sa <= yn OBVIOUS
<1> HIDE DEF ga, sa, xn, yn
<1>3. ga + sa <= xn + yn BY <1>1, <1>2
<1> QED BY <1>2, <1>3

LEMMA RoundingsAddUp ==
    ASSUME NEW a \in Nat, NEW n \in Nat, NEW g \in Int, NEW x \in Int, NEW s \in Int, NEW y \in Int,
           NEW k \in Int, x * n <= g * a + k * a, y * n < s * a + a
    PROVE  (x + y) * n <= (g + s) * a + (k + 1) * a
<1> DEFINE ga == g * a
           sa == s * a
           xn == x * n
           yn == y * n
           ka == k * a
<1>1. ga \in Int /\ sa \in Int /\ xn \in Int /\ yn \in Int /\ ka \in Int OBVIOUS
<1>2. /\ (g + s) * a = ga + sa /\ (x + y) * n = xn + yn /\ (k + 1) * a = ka + a
      /\ xn <= ga + ka /\ yn < sa + a
    OBVIOUS
<1> HIDE DEF ga, sa, xn, yn, ka
<1>3. xn + yn <= (ga + sa) + (ka + a) BY <1>1, <1>2
<1> QED BY <1>2, <1>3

(* All lots together give at most the sale, and less than a token per lot  *)
(* too little; of the basis they give no more than their part.             *)
Averages(s, n, a, m) ==
    LET o == Averaged(s, n, a)
        gone == Amount(s) - Amount(o)
        lost == Basis(s) - Basis(o)
    IN  /\ o \in Seq(Cheap(m)) /\ Len(o) <= Len(s)
        /\ gone * a <= Amount(s) * n
        /\ Amount(s) * n <= gone * a + Len(s) * a
        /\ lost * a <= Basis(s) * n
        /\ Basis(o) <= Basis(s)

LEMMA SharesAreTaken ==
    ASSUME NEW m \in Nat, NEW n \in Nat, NEW a \in Nat \ {0}, n <= a, NEW ls \in Seq(Cheap(m))
    PROVE  Averages(ls, n, a, m)
<1> DEFINE L == Cheap(m)
           S == {s \in Seq(L) : Averages(s, n, a, m)}
<1>1. Piles(L) /\ L \subseteq Lot BY DEF Piles, Cheap, Lot
<1>2. Adds(L) BY <1>1, SumsGrow
<1>0. <<>> \in Seq(L) /\ (\A s \in Seq(L) : s \in Seq(Lot)) BY <1>1
<1>3. <<>> \in S
    <2>1. Averaged(<<>>, n, a) = <<>> BY AverageGrows
    <2>2. Amount(<<>>) = 0 /\ Basis(<<>>) = 0 BY <1>2 DEF Adds
    <2>3. Len(<<>>) = 0 OBVIOUS
    <2>5. (0 - 0) * a <= 0 * n /\ 0 * n <= (0 - 0) * a + 0 * a OBVIOUS
    <2>6. Len(<<>>) <= Len(<<>>) BY <2>3
    <2>9. Basis(<<>>) <= Basis(<<>>) BY <2>2
    <2>7. /\ (Amount(<<>>) - Amount(<<>>)) * a <= Amount(<<>>) * n
          /\ Amount(<<>>) * n <= (Amount(<<>>) - Amount(<<>>)) * a + Len(<<>>) * a
          /\ (Basis(<<>>) - Basis(<<>>)) * a <= Basis(<<>>) * n
        BY <2>2, <2>3, <2>5, Zenon
    <2>8. <<>> \in Seq(Cheap(m)) BY <1>0
    <2>4. Averages(<<>>, n, a, m) BY <2>1, <2>6, <2>7, <2>8, <2>9, Zenon DEF Averages
    <2> QED BY <1>0, <2>4
<1>4. ASSUME NEW s \in Seq(L), NEW l \in L, s \in S PROVE Append(s, l) \in S
    <2> DEFINE u == Append(s, l)
               o == Averaged(s, n, a)
               w == Averaged(u, n, a)
               sh == ShareOf(l, n, a)
               b == BasisOf(l, n, a)
               kept == keep(l, sh)
    <2>1. /\ o \in Seq(L) /\ Len(o) <= Len(s)
          /\ (Amount(s) - Amount(o)) * a <= Amount(s) * n
          /\ Amount(s) * n <= (Amount(s) - Amount(o)) * a + Len(s) * a
          /\ (Basis(s) - Basis(o)) * a <= Basis(s) * n
          /\ Basis(o) <= Basis(s)
        BY <1>4, Zenon DEF Averages
    <2>2. w = o \o (IF kept \in Lot THEN <<kept>> ELSE <<>>)
        <3>1. s \in Seq(Lot) /\ l \in Lot BY <1>0, <1>1
        <3> QED BY <3>1, AverageGrows
    <2>3. /\ sh \in 0..l.amount /\ b \in 0..l.basis
          /\ sh * a <= l.amount * n /\ l.amount * n < sh * a + a
          /\ b * a <= l.basis * n
          /\ kept = [amount |-> l.amount - sh, basis |-> l.basis - b]
          /\ sh = l.amount => b = l.basis
        <3>1. l \in Lot BY <1>1
        <3> QED BY <3>1, OneShare
    <2>4. l.amount \in Nat \ {0} /\ l.basis \in Nat /\ l.basis <= m BY DEF Cheap, Lot
    <2>5. u \in Seq(L) /\ Len(u) = Len(s) + 1 /\ Len(s) \in Nat OBVIOUS
    <2>6. /\ Amount(u) = Amount(s) + l.amount /\ Basis(u) = Basis(s) + l.basis
          /\ Amount(s) \in Nat /\ Basis(s) \in Nat /\ Amount(o) \in Nat /\ Basis(o) \in Nat
        BY <1>2, <2>1, Zenon DEF Adds
    <2>13. /\ sh \in 0..l.amount /\ b \in 0..l.basis
           /\ kept = [amount |-> l.amount - sh, basis |-> l.basis - b]
           /\ sh = l.amount => b = l.basis
        BY <2>3, Zenon
    <2>14. sh * a <= l.amount * n /\ l.amount * n < sh * a + a /\ b * a <= l.basis * n BY <2>3, Zenon
    <2>15. o \in Seq(L) /\ Len(o) <= Len(s) BY <2>1, Zenon
    <2> HIDE DEF L, u, o, w, sh, b, kept
    <2>7. /\ w \in Seq(L) /\ Len(w) <= Len(u)
          /\ Amount(w) = Amount(o) + (l.amount - sh)
          /\ Basis(w) = Basis(o) + (l.basis - b)
        <3>1. CASE sh < l.amount
            <4>1. l.amount - sh \in Nat \ {0} /\ l.basis - b \in Nat /\ l.basis - b <= m BY <2>4, <2>13, <3>1
            <4>2. kept \in Lot /\ kept \in L BY <2>13, <4>1 DEF L, Cheap, Lot
            <4>3. w = Append(o, kept) BY <2>2, <2>15, <4>2
            <4>4. Amount(w) = Amount(o) + kept.amount /\ Basis(w) = Basis(o) + kept.basis
                BY <1>2, <2>15, <4>2, <4>3, Zenon DEF Adds
            <4>5. kept.amount = l.amount - sh /\ kept.basis = l.basis - b BY <2>13
            <4>6. w \in Seq(L) /\ Len(w) = Len(o) + 1 /\ Len(o) \in Nat BY <2>15, <4>2, <4>3
            <4> QED BY <2>5, <2>15, <4>4, <4>5, <4>6
        <3>2. CASE ~(sh < l.amount)
            <4>1. sh = l.amount /\ b = l.basis BY <2>4, <2>13, <3>2
            <4>2. kept.amount = 0 BY <2>4, <2>13, <4>1
            <4>3. kept \notin Lot BY <4>2 DEF Lot
            <4>4. w = o BY <2>2, <2>15, <4>3
            <4>5. l.amount - sh = 0 /\ l.basis - b = 0 BY <2>4, <4>1
            <4>6. Len(o) \in Nat BY <2>15
            <4> QED BY <2>5, <2>6, <2>15, <4>4, <4>5, <4>6
        <3> QED BY <3>1, <3>2
    <2> DEFINE gone == Amount(s) - Amount(o)
               lost == Basis(s) - Basis(o)
    <2>8. gone \in Int /\ lost \in Int /\ sh \in Int /\ b \in Int BY <2>4, <2>6, <2>13
    <2>9. Amount(u) - Amount(w) = gone + sh /\ Basis(u) - Basis(w) = lost + b
        <3>1. \A x, y, z, t \in Int : (x + z) - (y + (z - t)) = (x - y) + t OBVIOUS
        <3>2. Amount(s) \in Int /\ Amount(o) \in Int /\ l.amount \in Int /\ sh \in Int
              /\ Basis(s) \in Int /\ Basis(o) \in Int /\ l.basis \in Int /\ b \in Int
            BY <2>4, <2>6, <2>8
        <3>3. (Amount(s) + l.amount) - (Amount(o) + (l.amount - sh)) = (Amount(s) - Amount(o)) + sh
            BY <3>1, <3>2
        <3>4. (Basis(s) + l.basis) - (Basis(o) + (l.basis - b)) = (Basis(s) - Basis(o)) + b
            BY <3>1, <3>2
        <3> QED BY <2>6, <2>7, <3>3, <3>4
    <2>10. gone * a <= Amount(s) * n /\ Amount(s) * n <= gone * a + Len(s) * a /\ lost * a <= Basis(s) * n
        BY <2>1
    <2> HIDE DEF gone, lost
    <2>11. /\ (gone + sh) * a <= (Amount(s) + l.amount) * n
           /\ (Amount(s) + l.amount) * n <= (gone + sh) * a + (Len(s) + 1) * a
           /\ (lost + b) * a <= (Basis(s) + l.basis) * n
        <3> DEFINE x == Amount(s)
                   y == l.amount
                   z == Basis(s)
                   c == l.basis
                   k == Len(s)
        <3>1. x \in Int /\ y \in Int /\ z \in Int /\ c \in Int /\ k \in Int BY <2>4, <2>5, <2>6
        <3>2. /\ gone * a <= x * n /\ x * n <= gone * a + k * a /\ lost * a <= z * n
              /\ sh * a <= y * n /\ y * n < sh * a + a /\ b * a <= c * n
            BY <2>10, <2>14, Zenon
        <3> HIDE DEF x, y, z, c, k
        <3>3. (gone + sh) * a <= (x + y) * n BY <2>8, <3>1, <3>2, SharesAddUp
        <3>4. (x + y) * n <= (gone + sh) * a + (k + 1) * a BY <2>8, <3>1, <3>2, RoundingsAddUp
        <3>5. (lost + b) * a <= (z + c) * n BY <2>8, <3>1, <3>2, SharesAddUp
        <3> QED BY <3>3, <3>4, <3>5 DEF x, y, z, c, k
    <2>12. Averages(u, n, a, m)
        <3>2. Basis(w) <= Basis(u)
            <4>1. Basis(o) <= Basis(s) BY <2>1, Zenon
            <4> QED BY <2>4, <2>6, <2>7, <2>13, <4>1
        <3>1. /\ w \in Seq(L) /\ Len(w) <= Len(u)
              /\ (Amount(u) - Amount(w)) * a <= Amount(u) * n
              /\ Amount(u) * n <= (Amount(u) - Amount(w)) * a + Len(u) * a
              /\ (Basis(u) - Basis(w)) * a <= Basis(u) * n
            BY <2>5, <2>6, <2>7, <2>9, <2>11, Zenon
        <3> QED BY <3>1, <3>2, Zenon DEF Averages, w, L
    <2> QED BY <2>5, <2>12, Zenon DEF u
<1> HIDE DEF S
<1>5. ls \in S BY <1>3, <1>4, SequenceInductionOnSet, Zenon
<1> QED BY <1>5 DEF S

LEMMA BasisIsBounded ==
    ASSUME NEW m \in Nat, NEW ls \in Seq(Cheap(m)) PROVE Basis(ls) <= Len(ls) * m
<1> DEFINE L == Cheap(m)
           S == {s \in Seq(L) : Basis(s) <= Len(s) * m}
<1>1. Piles(L) BY DEF Piles, Cheap, Lot
<1>2. Adds(L) BY <1>1, SumsGrow
<1>3. <<>> \in S BY <1>2 DEF Adds
<1>4. ASSUME NEW s \in Seq(L), NEW l \in L, s \in S PROVE Append(s, l) \in S
    <2>1. l.basis \in Nat /\ l.basis <= m BY DEF Cheap, Lot
    <2>2. Basis(Append(s, l)) = Basis(s) + l.basis /\ Basis(s) \in Nat BY <1>2 DEF Adds
    <2>3. Append(s, l) \in Seq(L) /\ Len(Append(s, l)) = Len(s) + 1 /\ Len(s) \in Nat OBVIOUS
    <2>4. Basis(s) <= Len(s) * m BY <1>4
    <2> HIDE DEF L
    <2>5. (Len(s) + 1) * m = Len(s) * m + m /\ Len(s) * m \in Nat BY <2>3
    <2>6. Basis(Append(s, l)) <= (Len(s) + 1) * m BY <2>1, <2>2, <2>4, <2>5
    <2> QED BY <2>3, <2>6
<1> HIDE DEF S
<1>5. ls \in S BY <1>3, <1>4, SequenceInductionOnSet, Zenon
<1> QED BY <1>5 DEF S

(* A sale by FIFO or LIFO: the tokens of the sale are gone and no others,  *)
(* the basis is charged or kept, and no more is realized than was received.*)
LEMMA SaleIsExact ==
    ASSUME NEW L, LotsOf(L), NEW ls \in Seq(L), NEW sold \in Nat \ {0}, sold <= Amount(ls),
           NEW proceeds \in Nat, NEW how \in {"fifo", "lifo"}
    PROVE  LET r == reduceLots(ls, sold, proceeds, how)
           IN  /\ r.remaining \in Seq(L) /\ Len(r.remaining) <= Len(ls)
               /\ Amount(r.remaining) = Amount(ls) - sold
               /\ r.cost \in Nat /\ Basis(r.remaining) + r.cost = Basis(ls)
               /\ r.realized \in Int /\ r.realized + r.cost <= proceeds
<1> DEFINE q == inOrder(ls, how)
           w == walkLots(q, sold, proceeds)
           r == reduceLots(ls, sold, proceeds, how)
<1>1. Piles(L) BY DEF Piles, LotsOf
<1>2. Adds(L) BY <1>1, SumsGrow
<1>3. q \in Seq(L) /\ Len(q) = Len(ls) /\ Amount(q) = Amount(ls) /\ Basis(q) = Basis(ls)
    <2>1. Reverse(ls) \in Seq(L) /\ Len(Reverse(ls)) = Len(ls)
          /\ Amount(Reverse(ls)) = Amount(ls) /\ Basis(Reverse(ls)) = Basis(ls)
        BY <1>1, SumsReverse
    <2> QED BY <2>1 DEF inOrder
<1>4. r = [remaining |-> inOrder(w.out, how), cost |-> w.cost, realized |-> w.proceeds - w.cost]
    BY DEF reduceLots
<1> HIDE DEF q, r
<1>5. w \in WalkedOver(L) BY <1>3, WalkGrows
<1>6. Sells(q, sold, proceeds) BY <1>3, WalkSells
<1>7. w.out \in Seq(L) /\ w.cost \in Nat /\ w.proceeds \in Nat BY <1>5 DEF WalkedOver
<1>8. /\ inOrder(w.out, how) \in Seq(L) /\ Len(inOrder(w.out, how)) = Len(w.out)
      /\ Amount(inOrder(w.out, how)) = Amount(w.out) /\ Basis(inOrder(w.out, how)) = Basis(w.out)
    <2> HIDE DEF w
    <2>1. /\ Reverse(w.out) \in Seq(L) /\ Len(Reverse(w.out)) = Len(w.out)
          /\ Amount(Reverse(w.out)) = Amount(w.out) /\ Basis(Reverse(w.out)) = Basis(w.out)
        BY <1>1, <1>7, SumsReverse
    <2> QED BY <1>7, <2>1 DEF inOrder
<1>9. Amount(q) \in Nat /\ Amount(w.out) \in Nat BY <1>2, <1>3, <1>7 DEF Adds
<1>10. /\ w.toTake = IF Amount(q) >= sold THEN 0 ELSE sold - Amount(q)
       /\ Amount(w.out) + (sold - w.toTake) = Amount(q)
       /\ Basis(w.out) + w.cost = Basis(q)
       /\ w.proceeds * sold <= proceeds * (sold - w.toTake)
       /\ Len(w.out) <= Len(q)
    BY <1>6, Zenon DEF Sells
<1> HIDE DEF w
<1>11. w.toTake = 0 BY <1>3, <1>10
<1>12. Amount(w.out) = Amount(ls) - sold
    <2>1. Amount(w.out) + (sold - 0) = Amount(ls) BY <1>3, <1>10, <1>11
    <2> QED BY <1>9, <2>1
<1>13. w.proceeds <= proceeds
    <2>1. w.proceeds * sold <= proceeds * sold
        <3>1. sold - 0 = sold OBVIOUS
        <3> QED BY <1>10, <1>11, <3>1
    <2> QED BY <1>7, <2>1, FactorsCancel
<1>14. r.remaining = inOrder(w.out, how) /\ r.cost = w.cost /\ r.realized = w.proceeds - w.cost BY <1>4
<1>15. r.realized + r.cost <= proceeds /\ r.realized \in Int BY <1>7, <1>13, <1>14
<1>16. Basis(w.out) + w.cost = Basis(ls) /\ Len(w.out) <= Len(ls) BY <1>3, <1>10, Zenon
<1>17. r.remaining \in Seq(L) /\ Len(r.remaining) = Len(w.out)
       /\ Amount(r.remaining) = Amount(w.out) /\ Basis(r.remaining) = Basis(w.out)
    BY <1>8, <1>14, Zenon
<1> QED BY <1>7, <1>12, <1>14, <1>15, <1>16, <1>17 DEF r

(* A sale at average cost: less than a token per lot is kept too much, and *)
(* the basis that is charged is at least what the lots lose.               *)
LEMMA SaleIsAveraged ==
    ASSUME NEW m \in Nat, NEW ls \in Seq(Cheap(m)), NEW sold \in Nat \ {0}, sold <= Amount(ls),
           NEW proceeds \in Int
    PROVE  LET r == reduceLots(ls, sold, proceeds, "avg-cost")
           IN  /\ r.remaining \in Seq(Cheap(m)) /\ Len(r.remaining) <= Len(ls)
               /\ Amount(ls) - sold <= Amount(r.remaining)
               /\ Amount(r.remaining) <= Amount(ls) - sold + Len(ls)
               /\ r.cost \in Nat /\ Basis(ls) <= Basis(r.remaining) + r.cost
               /\ Basis(r.remaining) + r.cost <= Basis(ls) + Len(ls) * m
               /\ r.realized \in Int /\ r.realized + r.cost = proceeds
<1> DEFINE L == Cheap(m)
           a == Amount(ls)
           b == Basis(ls)
           o == Averaged(ls, sold, a)
           c == (b * sold) \div a
           r == reduceLots(ls, sold, proceeds, "avg-cost")
<1>1. Piles(L) BY DEF Piles, Cheap, Lot
<1>2. Adds(L) BY <1>1, SumsGrow
<1>3. a \in Nat \ {0} /\ b \in Nat
    <2>1. a \in Nat /\ b \in Nat BY <1>2 DEF Adds
    <2> QED BY <2>1
<1>4. averageLots(ls, sold) = o BY Zenon DEF averageLots, Averaged, ShareOf
<1>5. r.remaining = o /\ r.cost = c /\ r.realized = proceeds - c BY <1>4, Zenon DEF reduceLots
<1>6. b <= Len(ls) * m BY BasisIsBounded
<1>7. Averages(ls, sold, a, m) BY <1>3, SharesAreTaken
<1>8. /\ o \in Seq(L) /\ Len(o) <= Len(ls)
      /\ (a - Amount(o)) * a <= a * sold
      /\ a * sold <= (a - Amount(o)) * a + Len(ls) * a
      /\ (b - Basis(o)) * a <= b * sold
      /\ Basis(o) <= b
    BY <1>7, Zenon DEF Averages
<1>9. Amount(o) \in Nat /\ Basis(o) \in Nat BY <1>2, <1>8 DEF Adds
<1>10. Len(ls) \in Nat OBVIOUS
<1>0. sold <= a OBVIOUS
<1> HIDE DEF L, a, b, o, r
<1>15. Basis(o) <= b BY <1>8, Zenon
<1>11. c \in 0..b /\ b * sold < c * a + a BY <1>0, <1>3, PartOf
<1> HIDE DEF c
<1>12. a - sold <= Amount(o) /\ Amount(o) <= a - sold + Len(ls)
    <2> DEFINE g == a - Amount(o)
    <2>1. g \in Int /\ g * a <= sold * a /\ sold * a <= (g + Len(ls)) * a
        BY <1>3, <1>8, <1>9, <1>10, SMTT(30)
    <2>2. g <= sold /\ sold <= g + Len(ls)
        <3> HIDE DEF g
        <3> QED BY <1>3, <1>10, <2>1, FactorsCancel
    <2> QED BY <1>3, <1>9, <1>10, <2>2
<1>13. b <= Basis(o) + c
    <2> DEFINE g == b - Basis(o)
    <2>1. g \in Int BY <1>3, <1>9
    <2>2. g * a < (c + 1) * a
        <3> DEFINE x == g * a
                   y == b * sold
                   z == c * a
        <3>1. x \in Int /\ y \in Int /\ z \in Int BY <1>3, <1>11, <2>1
        <3>2. x <= y /\ y < z + a BY <1>8, <1>11
        <3>3. (c + 1) * a = z + a BY <1>3, <1>11
        <3> HIDE DEF x, y, z
        <3>4. x < z + a BY <1>3, <3>1, <3>2
        <3> QED BY <3>3, <3>4 DEF x
    <2>3. g < c + 1
        <3> HIDE DEF g
        <3> QED BY <1>3, <1>11, <2>1, <2>2, FactorsCancel
    <2> QED BY <1>3, <1>9, <1>11, <2>3
<1>14. Basis(o) + c <= b + Len(ls) * m
    <2>1. Len(ls) * m \in Nat BY <1>10
    <2>2. c <= Len(ls) * m BY <1>3, <1>6, <1>11, <2>1
    <2> QED BY <1>3, <1>9, <1>11, <1>15, <2>1, <2>2
<1>16. c \in Nat /\ proceeds - c \in Int /\ (proceeds - c) + c = proceeds BY <1>3, <1>11
<1>17. /\ r.remaining \in Seq(L) /\ Len(r.remaining) <= Len(ls)
       /\ a - sold <= Amount(r.remaining) /\ Amount(r.remaining) <= a - sold + Len(ls)
       /\ r.cost \in Nat /\ b <= Basis(r.remaining) + r.cost
       /\ Basis(r.remaining) + r.cost <= b + Len(ls) * m
       /\ r.realized \in Int /\ r.realized + r.cost = proceeds
    <2>1. o \in Seq(L) /\ Len(o) <= Len(ls) BY <1>8, Zenon
    <2> QED BY <1>5, <1>12, <1>13, <1>14, <1>16, <2>1, Zenon
<1> QED BY <1>17, Zenon DEF a, b, r, L
-----------------------------------------------------------------------------
(* The ledger of lots.                                                     *)

Methods == {"fifo", "lifo", "avg-cost"}

(* There are no more lots than trades, and no lot cost more than a buy.    *)
LotsInv ==
    /\ method \in Methods
    /\ lots \in Seq(Cheap(MaxCost)) /\ Len(lots) <= trades
    /\ trades \in Nat /\ tokens \in Int /\ paid \in Nat /\ received \in Nat /\ charged \in Nat
    /\ realized \in Int
    /\ BasisIsConserved
    /\ ProceedsAreNotInvented
    /\ OldestGoesFirst
    /\ TokensAreCounted

LEMMA LedgerSums ==
    /\ MaxCost \in Nat /\ Piles(Cheap(MaxCost)) /\ Adds(Cheap(MaxCost)) /\ LotsOf(Cheap(MaxCost))
    /\ \A s \in Seq(Cheap(MaxCost)) : s \in Seq(Lot)
<1>1. MaxCost \in Nat BY LotsAssumption
<1>2. Piles(Cheap(MaxCost)) /\ Cheap(MaxCost) \subseteq Lot BY DEF Piles, Cheap, Lot
<1> QED BY <1>1, <1>2, SumsGrow, CheapAreLots

LEMMA LotsStart == LotsInit => LotsInv
<1> SUFFICES ASSUME LotsInit PROVE LotsInv OBVIOUS
<1>1. /\ lots = <<>> /\ trades = 0 /\ tokens = 0 /\ paid = 0 /\ received = 0 /\ charged = 0
      /\ realized = 0 /\ newest = <<>> /\ method \in Methods
    BY DEF LotsInit, Methods
<1>2. lots \in Seq(Cheap(MaxCost)) /\ Len(lots) = 0 BY <1>1
<1>3. Amount(lots) = 0 /\ Basis(lots) = 0 BY <1>1, LedgerSums DEF Adds
<1>4. MaxCost \in Nat BY LotsAssumption
<1>5. 0 * 0 = 0 /\ 0 * 0 * MaxCost = 0 BY <1>4
<1>6. BasisIsConserved BY <1>1, <1>3, <1>5 DEF BasisIsConserved
<1>7. ProceedsAreNotInvented BY <1>1 DEF ProceedsAreNotInvented
<1>8. OldestGoesFirst BY <1>1 DEF OldestGoesFirst
<1>9. TokensAreCounted BY <1>1, <1>3, <1>5 DEF TokensAreCounted
<1> QED BY <1>1, <1>2, <1>6, <1>7, <1>8, <1>9 DEF LotsInv

(* The allowances for rounding grow by a trade's share with each trade.    *)
LEMMA AllowanceGrows ==
    ASSUME NEW t \in Nat, NEW m \in Nat, NEW k \in Nat, k <= t
    PROVE  /\ t * t + k <= (t + 1) * (t + 1)
           /\ t * t * m + k * m <= (t + 1) * (t + 1) * m
           /\ t * t \in Nat /\ t * t * m \in Nat /\ k * m \in Nat
           /\ (t + 1) * (t + 1) \in Nat /\ (t + 1) * (t + 1) * m \in Nat
<1> DEFINE q == t * t
           p == (t + 1) * (t + 1)
<1>1. q \in Nat /\ p = q + t + t + 1 OBVIOUS
<1> HIDE DEF q, p
<1>2. q + k <= p /\ p \in Nat BY <1>1
<1>3. (q + k) * m = q * m + k * m /\ q * m \in Nat /\ k * m \in Nat BY <1>1
<1>4. (q + k) * m <= p * m /\ p * m \in Nat
    <2> DEFINE x == q + k
    <2>1. x \in Nat /\ x <= p BY <1>1, <1>2
    <2> HIDE DEF x
    <2> QED BY <1>2, <2>1 DEF x
<1> QED BY <1>1, <1>2, <1>3, <1>4 DEF q, p

LEMMA BuyKeeps ==
    ASSUME LotsInv, NEW n \in 1..MaxBuy, NEW c \in 0..MaxCost, Buy(n, c)
    PROVE  LotsInv'
<1> DEFINE l == [amount |-> n, basis |-> c]
           T == trades * trades
           U == trades' * trades'
           TM == trades * trades * MaxCost
           UM == trades' * trades' * MaxCost
<1>1. /\ lots' = Append(lots, l) /\ tokens' = tokens + n /\ paid' = paid + c /\ newest' = <<l>>
      /\ method' = method /\ received' = received /\ charged' = charged /\ realized' = realized
      /\ trades' = trades + 1
    BY DEF Buy
<1>2. n \in Nat \ {0} /\ c \in Nat /\ c <= MaxCost /\ MaxCost \in Nat BY LotsAssumption
<1>3. l \in Cheap(MaxCost) /\ l.amount = n /\ l.basis = c BY <1>2 DEF Cheap, Lot
<1>4. /\ method \in Methods /\ lots \in Seq(Cheap(MaxCost)) /\ Len(lots) <= trades /\ trades \in Nat
      /\ tokens \in Int /\ paid \in Nat /\ received \in Nat /\ charged \in Nat /\ realized \in Int
    BY DEF LotsInv
<1>5. /\ Amount(lots') = Amount(lots) + n /\ Basis(lots') = Basis(lots) + c
      /\ Amount(lots) \in Nat /\ Basis(lots) \in Nat
    BY <1>1, <1>3, <1>4, LedgerSums DEF Adds
<1>6. /\ lots' \in Seq(Cheap(MaxCost)) /\ Len(lots') = Len(lots) + 1 /\ Len(lots) \in Nat
      /\ lots' # <<>> /\ lots'[Len(lots')] = l
    BY <1>1, <1>3, <1>4
<1>7. T <= U /\ TM <= UM /\ T \in Nat /\ U \in Nat /\ TM \in Nat /\ UM \in Nat
    <2>1. 0 \in Nat /\ 0 <= trades BY <1>4
    <2>2. T + 0 <= U /\ TM + 0 * MaxCost <= UM /\ T \in Nat /\ TM \in Nat /\ U \in Nat /\ UM \in Nat
        BY <1>1, <1>2, <1>4, <2>1, AllowanceGrows
    <2>3. 0 * MaxCost = 0 BY <1>2
    <2> HIDE DEF T, U, TM, UM
    <2> QED BY <2>2, <2>3
<1>8. BasisIsConserved'
    <2>1. /\ method # "avg-cost" => Basis(lots) + charged = paid
          /\ method = "avg-cost" => /\ Basis(lots) + charged >= paid - trades
                                    /\ Basis(lots) + charged <= paid + TM
        BY DEF LotsInv, BasisIsConserved
    <2> HIDE DEF l, T, U, TM, UM
    <2> DEFINE b == Basis(lots)
               bb == Basis(lots')
    <2>2. bb = b + c /\ b \in Nat BY <1>5
    <2>3. charged' = charged /\ paid' = paid + c /\ trades' = trades + 1 BY <1>1
    <2>4. paid \in Nat /\ charged \in Nat /\ trades \in Nat /\ c \in Nat BY <1>2, <1>4
    <2>5. TM \in Nat /\ UM \in Nat /\ TM <= UM BY <1>7
    <2> HIDE DEF b, bb
    <2>6. (b + charged = paid) => (bb + charged' = paid') BY <2>2, <2>3, <2>4
    <2>7. (b + charged >= paid - trades /\ b + charged <= paid + TM)
           => (bb + charged' >= paid' - trades' /\ bb + charged' <= paid' + UM)
        BY <2>2, <2>3, <2>4, <2>5
    <2>8. method # "avg-cost" => Basis(lots') + charged' = paid' BY <2>1, <2>6 DEF b, bb
    <2>9. method = "avg-cost" => /\ Basis(lots') + charged' >= paid' - trades'
                                 /\ Basis(lots') + charged' <= paid' + UM
        BY <2>1, <2>7 DEF b, bb
    <2> QED BY <1>1, <2>8, <2>9 DEF BasisIsConserved, UM
<1>9. ProceedsAreNotInvented' BY <1>1 DEF LotsInv, ProceedsAreNotInvented
<1>10. OldestGoesFirst'
    <2>1. newest'[1] = l BY <1>1
    <2> QED BY <1>6, <2>1 DEF OldestGoesFirst, Last
<1>11. TokensAreCounted'
    <2>1. /\ method # "avg-cost" => Amount(lots) = tokens
          /\ Amount(lots) >= tokens /\ Amount(lots) <= tokens + T
        BY DEF LotsInv, TokensAreCounted
    <2> HIDE DEF l, T, U, TM, UM
    <2> DEFINE a == Amount(lots)
               aa == Amount(lots')
    <2>2. aa = a + n /\ a \in Nat BY <1>5
    <2>3. tokens' = tokens + n BY <1>1
    <2>4. tokens \in Int /\ n \in Nat /\ T \in Nat /\ U \in Nat /\ T <= U BY <1>2, <1>4, <1>7
    <2> HIDE DEF a, aa
    <2>5. (a = tokens) => (aa = tokens') BY <2>2, <2>3, <2>4
    <2>6. (a >= tokens /\ a <= tokens + T) => (aa >= tokens' /\ aa <= tokens' + U)
        BY <2>2, <2>3, <2>4
    <2>7. method # "avg-cost" => Amount(lots') = tokens' BY <2>1, <2>5 DEF a, aa
    <2>8. Amount(lots') >= tokens' /\ Amount(lots') <= tokens' + U BY <2>1, <2>6 DEF a, aa
    <2> QED BY <1>1, <2>7, <2>8 DEF TokensAreCounted, U
<1>12. /\ method' \in Methods /\ Len(lots') <= trades' /\ trades' \in Nat /\ tokens' \in Int
       /\ paid' \in Nat /\ received' \in Nat /\ charged' \in Nat /\ realized' \in Int
    BY <1>1, <1>2, <1>4, <1>6
<1> QED BY <1>6, <1>8, <1>9, <1>10, <1>11, <1>12 DEF LotsInv

(* What a sale by any method makes of the ledger.                          *)
LEMMA SaleOfLots ==
    ASSUME LotsInv, NEW n \in 1..MaxBuy, NEW c \in 0..MaxCost, Sell(n, c)
    PROVE  /\ lots' \in Seq(Cheap(MaxCost)) /\ Len(lots') <= Len(lots)
           /\ charged' \in Nat /\ realized' \in Int
           /\ realized' + charged' <= realized + charged + c
           /\ method # "avg-cost" =>
                /\ Amount(lots') = Amount(lots) - n
                /\ Basis(lots') + charged' = Basis(lots) + charged
           /\ method = "avg-cost" =>
                /\ Amount(lots) - n <= Amount(lots') /\ Amount(lots') <= Amount(lots) - n + Len(lots)
                /\ Basis(lots) + charged <= Basis(lots') + charged'
                /\ Basis(lots') + charged' <= Basis(lots) + charged + Len(lots) * MaxCost
<1> DEFINE r == reduceLots(lots, n, c, method)
<1>1. lots' = r.remaining /\ charged' = charged + r.cost /\ realized' = realized + r.realized
      /\ ~Insufficient(lots, n)
    BY DEF Sell
<1>2. n \in Nat \ {0} /\ c \in Nat /\ MaxCost \in Nat BY LotsAssumption
<1>3. /\ method \in Methods /\ lots \in Seq(Cheap(MaxCost)) /\ charged \in Nat /\ realized \in Int
    BY DEF LotsInv
<1>4. Amount(lots) \in Nat /\ Basis(lots) \in Nat /\ Len(lots) \in Nat BY <1>3, LedgerSums DEF Adds
<1>5. n <= Amount(lots) BY <1>1, <1>2, <1>4 DEF Insufficient
<1>6. ASSUME method # "avg-cost"
      PROVE  /\ r.remaining \in Seq(Cheap(MaxCost)) /\ Len(r.remaining) <= Len(lots)
             /\ Amount(r.remaining) = Amount(lots) - n
             /\ r.cost \in Nat /\ Basis(r.remaining) + r.cost = Basis(lots)
             /\ r.realized \in Int /\ r.realized + r.cost <= c
    <2>1. method \in {"fifo", "lifo"} BY <1>3, <1>6 DEF Methods
    <2>2. LotsOf(Cheap(MaxCost)) BY LedgerSums
    <2> QED BY <1>2, <1>3, <1>5, <2>1, <2>2, SaleIsExact
<1>7. ASSUME method = "avg-cost"
      PROVE  /\ r.remaining \in Seq(Cheap(MaxCost)) /\ Len(r.remaining) <= Len(lots)
             /\ Amount(lots) - n <= Amount(r.remaining)
             /\ Amount(r.remaining) <= Amount(lots) - n + Len(lots)
             /\ r.cost \in Nat /\ Basis(lots) <= Basis(r.remaining) + r.cost
             /\ Basis(r.remaining) + r.cost <= Basis(lots) + Len(lots) * MaxCost
             /\ r.realized \in Int /\ r.realized + r.cost = c
    BY <1>2, <1>3, <1>5, <1>7, SaleIsAveraged
<1> HIDE DEF r
<1>8. r.remaining \in Seq(Cheap(MaxCost)) /\ Len(r.remaining) <= Len(lots) /\ r.cost \in Nat
      /\ r.realized \in Int /\ r.realized + r.cost <= c
    <2>1. CASE method # "avg-cost" BY <1>6, <2>1
    <2>2. CASE method = "avg-cost"
        <3>1. r.realized + r.cost <= c BY <1>2, <1>7, <2>2
        <3> QED BY <1>7, <2>2, <3>1, Zenon
    <2> QED BY <2>1, <2>2
<1>9. Basis(r.remaining) \in Nat BY <1>8, LedgerSums DEF Adds
<1> DEFINE x == r.cost
           g == r.realized
<1>14. x \in Nat /\ g \in Int /\ g + x <= c BY <1>8
<1>15. charged' = charged + x /\ realized' = realized + g BY <1>1
<1>16. charged \in Nat /\ realized \in Int /\ c \in Nat BY <1>2, <1>3
<1>10. realized' + charged' <= realized + charged + c /\ charged' \in Nat /\ realized' \in Int
    <2> HIDE DEF x, g
    <2> QED BY <1>14, <1>15, <1>16
<1>11. ASSUME method # "avg-cost"
       PROVE  /\ Amount(lots') = Amount(lots) - n
              /\ Basis(lots') + charged' = Basis(lots) + charged
    <2> DEFINE b == Basis(lots)
               bb == Basis(r.remaining)
    <2>1. lots' = r.remaining BY <1>1
    <2>2. Amount(r.remaining) = Amount(lots) - n BY <1>6, <1>11
    <2>3. b \in Nat /\ bb \in Nat /\ bb + x = b BY <1>4, <1>6, <1>9, <1>11
    <2> HIDE DEF b, bb, x, g
    <2>4. bb + charged' = b + charged BY <1>14, <1>15, <1>16, <2>3
    <2> QED BY <2>1, <2>2, <2>4 DEF b, bb
<1>12. ASSUME method = "avg-cost"
       PROVE  /\ Amount(lots) - n <= Amount(lots') /\ Amount(lots') <= Amount(lots) - n + Len(lots)
              /\ Basis(lots) + charged <= Basis(lots') + charged'
              /\ Basis(lots') + charged' <= Basis(lots) + charged + Len(lots) * MaxCost
    <2> DEFINE k == Len(lots) * MaxCost
    <2>1. k \in Nat BY <1>2, <1>4
    <2>2. Basis(lots) <= Basis(r.remaining) + r.cost /\ Basis(r.remaining) + r.cost <= Basis(lots) + k
        BY <1>7, <1>12
    <2> HIDE DEF k
    <2>5. lots' = r.remaining BY <1>1
    <2> DEFINE b == Basis(lots)
               bb == Basis(r.remaining)
    <2>6. b \in Nat /\ bb \in Nat BY <1>4, <1>9
    <2>7. b <= bb + x /\ bb + x <= b + k BY <2>2
    <2> HIDE DEF b, bb, x
    <2>8. b + charged <= bb + charged' /\ bb + charged' <= b + charged + k
        BY <1>14, <1>15, <1>16, <2>1, <2>6, <2>7
    <2>3. /\ Basis(lots) + charged <= Basis(lots') + charged'
          /\ Basis(lots') + charged' <= Basis(lots) + charged + k
        BY <2>5, <2>8 DEF b, bb
    <2>4. Amount(lots) - n <= Amount(lots') /\ Amount(lots') <= Amount(lots) - n + Len(lots)
        BY <1>1, <1>7, <1>12
    <2> QED BY <2>3, <2>4 DEF k
<1>13. lots' \in Seq(Cheap(MaxCost)) /\ Len(lots') <= Len(lots) BY <1>1, <1>8
<1> QED BY <1>10, <1>11, <1>12, <1>13

(* A sale that the older lots cover leaves the newest one last.            *)
LEMMA NewestStays ==
    ASSUME LotsInv, NEW n \in 1..MaxBuy, NEW c \in 0..MaxCost, Sell(n, c), newest' # <<>>
    PROVE  OldestGoesFirst'
<1> DEFINE s == Front(lots)
           l == Last(lots)
           w == walkLots(Append(s, l), n, c)
           r == reduceLots(lots, n, c, method)
<1>1. method = "fifo" /\ Len(lots) > 1 /\ n <= Amount(s) /\ newest' = newest /\ lots' = r.remaining
    BY DEF Sell
<1>2. n \in Nat /\ c \in Nat /\ MaxCost \in Nat BY LotsAssumption
<1>3. lots \in Seq(Cheap(MaxCost)) BY DEF LotsInv
<1>4. s \in Seq(Cheap(MaxCost)) /\ l \in Cheap(MaxCost) /\ lots = Append(s, l) BY <1>1, <1>3 DEF Front, Last
<1>5. l = newest[1] BY <1>1 DEF LotsInv, OldestGoesFirst
<1> HIDE DEF s, l
<1>6. LotsOf(Cheap(MaxCost)) BY LedgerSums
<1>7. w.out # <<>> /\ w.out[Len(w.out)] = l BY <1>1, <1>2, <1>4, <1>6, LastIsLeft
<1>8. r.remaining = w.out BY <1>1, <1>4 DEF reduceLots, inOrder
<1> HIDE DEF w, r
<1>9. lots' # <<>> /\ Last(lots') = l BY <1>1, <1>7, <1>8 DEF Last
<1> QED BY <1>1, <1>5, <1>9 DEF OldestGoesFirst

LEMMA SellKeeps ==
    ASSUME LotsInv, NEW n \in 1..MaxBuy, NEW c \in 0..MaxCost, Sell(n, c)
    PROVE  LotsInv'
<1> DEFINE k == Len(lots) * MaxCost
           T == trades * trades
           U == trades' * trades'
           TM == trades * trades * MaxCost
           UM == trades' * trades' * MaxCost
<1>1. /\ tokens' = tokens - n /\ paid' = paid /\ method' = method /\ received' = received + c
      /\ trades' = trades + 1
    BY DEF Sell
<1>2. n \in Nat \ {0} /\ c \in Nat /\ MaxCost \in Nat BY LotsAssumption
<1>3. /\ method \in Methods /\ lots \in Seq(Cheap(MaxCost)) /\ Len(lots) <= trades /\ trades \in Nat
      /\ tokens \in Int /\ paid \in Nat /\ received \in Nat /\ charged \in Nat /\ realized \in Int
    BY DEF LotsInv
<1>4. /\ lots' \in Seq(Cheap(MaxCost)) /\ Len(lots') <= Len(lots)
      /\ charged' \in Nat /\ realized' \in Int
      /\ realized' + charged' <= realized + charged + c
      /\ method # "avg-cost" =>
            /\ Amount(lots') = Amount(lots) - n
            /\ Basis(lots') + charged' = Basis(lots) + charged
      /\ method = "avg-cost" =>
            /\ Amount(lots) - n <= Amount(lots') /\ Amount(lots') <= Amount(lots) - n + Len(lots)
            /\ Basis(lots) + charged <= Basis(lots') + charged'
            /\ Basis(lots') + charged' <= Basis(lots) + charged + k
    BY SaleOfLots
<1>5. /\ Amount(lots) \in Nat /\ Basis(lots) \in Nat /\ Amount(lots') \in Nat /\ Basis(lots') \in Nat
    BY <1>3, <1>4, LedgerSums DEF Adds
<1>6. Len(lots) \in Nat /\ Len(lots') \in Nat BY <1>3, <1>4
<1>7. T + Len(lots) <= U /\ TM + k <= UM /\ T \in Nat /\ U \in Nat /\ TM \in Nat /\ UM \in Nat /\ k \in Nat
    BY <1>1, <1>2, <1>3, <1>6, AllowanceGrows
<1>8. BasisIsConserved'
    <2>1. /\ method # "avg-cost" => Basis(lots) + charged = paid
          /\ method = "avg-cost" => /\ Basis(lots) + charged >= paid - trades
                                    /\ Basis(lots) + charged <= paid + TM
        BY DEF LotsInv, BasisIsConserved
    <2> HIDE DEF k, T, U, TM, UM
    <2>2. method # "avg-cost" => Basis(lots') + charged' = paid'
        BY <1>1, <1>4, <2>1
    <2>3. ASSUME method = "avg-cost"
          PROVE  Basis(lots') + charged' >= paid' - trades' /\ Basis(lots') + charged' <= paid' + UM
        <3> DEFINE b == Basis(lots) + charged
                   bb == Basis(lots') + charged'
        <3>1. b \in Int /\ bb \in Int BY <1>3, <1>4, <1>5
        <3>2. b >= paid - trades /\ b <= paid + TM BY <2>1, <2>3
        <3>3. b <= bb /\ bb <= b + k BY <1>4, <2>3
        <3>4. paid' = paid /\ trades' = trades + 1 BY <1>1
        <3>5. paid \in Int /\ trades \in Int BY <1>3
        <3>6. TM + k <= UM /\ TM \in Int /\ UM \in Int /\ k \in Int BY <1>7
        <3> HIDE DEF b, bb
        <3>7. bb >= paid' - trades' /\ bb <= paid' + UM BY <3>1, <3>2, <3>3, <3>4, <3>5, <3>6
        <3> QED BY <3>7 DEF b, bb
    <2> QED BY <1>1, <2>2, <2>3 DEF BasisIsConserved, UM
<1>9. ProceedsAreNotInvented'
    <2>1. realized + charged <= received BY DEF LotsInv, ProceedsAreNotInvented
    <2>2. received' = received + c BY <1>1
    <2>3. realized' + charged' <= realized + charged + c BY <1>4
    <2>4. realized \in Int /\ charged \in Nat /\ received \in Nat /\ c \in Nat BY <1>2, <1>3
    <2>6. realized' \in Int /\ charged' \in Nat BY <1>4
    <2> DEFINE x == realized + charged
               y == realized' + charged'
    <2>7. x \in Int BY <2>4
    <2>9. y \in Int BY <2>6
    <2>10. x <= received BY <2>1
    <2>11. y <= x + c BY <2>3
    <2> HIDE DEF k, T, U, TM, UM, x, y
    <2>8. y <= received' BY <2>2, <2>4, <2>7, <2>9, <2>10, <2>11
    <2>5. realized' + charged' <= received' BY <2>8 DEF y
    <2> QED BY <2>5 DEF ProceedsAreNotInvented
<1>10. OldestGoesFirst'
    <2>1. CASE newest' = <<>> BY <2>1 DEF OldestGoesFirst
    <2>2. CASE newest' # <<>> BY <2>2, NewestStays
    <2> QED BY <2>1, <2>2
<1>11. TokensAreCounted'
    <2>1. /\ method # "avg-cost" => Amount(lots) = tokens
          /\ Amount(lots) >= tokens /\ Amount(lots) <= tokens + T
        BY DEF LotsInv, TokensAreCounted
    <2> HIDE DEF k, T, U, TM, UM
    <2>2. method # "avg-cost" => Amount(lots') = tokens' BY <1>1, <1>4, <2>1
    <2> DEFINE a == Amount(lots)
               aa == Amount(lots')
               m == Len(lots)
    <2>4. a \in Nat /\ aa \in Nat /\ m \in Nat BY <1>5, <1>6
    <2>5. tokens' = tokens - n /\ tokens \in Int /\ n \in Nat BY <1>1, <1>2, <1>3
    <2>6. T + m <= U /\ T \in Nat /\ U \in Nat BY <1>7
    <2>7. a - n <= aa /\ aa <= a - n + m
        <3>1. CASE method # "avg-cost"
            <4>1. aa = a - n BY <1>4, <3>1
            <4> HIDE DEF a, aa, m
            <4> QED BY <2>4, <2>5, <4>1
        <3>2. CASE method = "avg-cost" BY <1>4, <3>2
        <3> QED BY <3>1, <3>2
    <2>8. a >= tokens /\ a <= tokens + T BY <2>1
    <2> HIDE DEF a, aa, m
    <2>9. aa >= tokens' /\ aa <= tokens' + U BY <2>4, <2>5, <2>6, <2>7, <2>8
    <2>3. Amount(lots') >= tokens' /\ Amount(lots') <= tokens' + U BY <2>9 DEF a, aa
    <2> QED BY <1>1, <2>2, <2>3 DEF TokensAreCounted, U
<1>12. /\ method' \in Methods /\ Len(lots') <= trades' /\ trades' \in Nat /\ tokens' \in Int
       /\ paid' \in Nat /\ received' \in Nat
    BY <1>1, <1>2, <1>3, <1>4, <1>6
<1> QED BY <1>4, <1>8, <1>9, <1>10, <1>11, <1>12 DEF LotsInv

(* LotsSafe: for any buys and sales by each method, in any order, no token,*)
(* no basis and no proceeds are in two places or in none, but for what     *)
(* average cost rounds per lot and sale (accounting.ts).                   *)
THEOREM LotsAreSafe == LotsSpec => []LotsSafe
<1>1. LotsInit => LotsInv BY LotsStart
<1>2. LotsInv /\ [LotsNext]_lotVars => LotsInv'
    <2> SUFFICES ASSUME LotsInv, [LotsNext]_lotVars PROVE LotsInv' OBVIOUS
    <2>1. CASE LotsNext BY <2>1, BuyKeeps, SellKeeps DEF LotsNext
    <2>2. CASE UNCHANGED lotVars
        BY <2>2 DEF lotVars, LotsInv, BasisIsConserved, ProceedsAreNotInvented, OldestGoesFirst,
           TokensAreCounted
    <2> QED BY <2>1, <2>2
<1>3. LotsInv => LotsSafe
    <2> SUFFICES ASSUME LotsInv PROVE LotsTypeOK BY DEF LotsInv, LotsSafe
    <2>1. lots \in Seq(Lot) BY LedgerSums DEF LotsInv
    <2> QED BY <2>1 DEF LotsInv, LotsTypeOK
<1> QED BY <1>1, <1>2, <1>3, PTL DEF LotsSpec
=============================================================================
