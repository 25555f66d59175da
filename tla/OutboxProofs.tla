---------------------------- MODULE OutboxProofs ----------------------------
(***************************************************************************)
(* Proofs about the outbox for any rows, requests and bounds.              *)
(*                                                                         *)
(* With any number of chains of timers: types, an acknowledged delivery is *)
(* persisted, a processed row had every event emitted and stays processed, *)
(* and permits come back.  Drained by one chain, every repeated emission   *)
(* has a cause, stop() is quiet, and the outbox implements the delivery    *)
(* contract of OutboxDelivery; with two chains these are false             *)
(* (OutboxOverlap explores them), so those theorems assume Loops = {l}.    *)
(***************************************************************************)
EXTENDS WebhookOutbox, FiniteSetTheorems, TLAPS

(* What a loop has achieved for the row it is working on: the row is one   *)
(* of its batch, events before ev were emitted, all of them before "done". *)
Promise(x, e) ==
    LET i == x.batch[x.pos].id IN
    /\ x.pc \in {"emit", "done", "failed"} => x.pos <= Len(x.batch)
    /\ x.pc = "emit" => /\ Kind[i] = "ok" /\ x.ev \in 1..Events[i]
                        /\ \A k \in 1..(x.ev - 1) : e[<<i, k>>] > 0
    /\ x.pc = "done" => Kind[i] = "ok" /\ \A k \in 1..Events[i] : e[<<i, k>>] > 0

CycleInv == \A l \in Loops : Promise(loop[l], emits)

(* The rows a request has got past are in the table.                       *)
RequestInv ==
    \A r \in Requests : \A k \in 1..Len(request[r].body) :
        k < request[r].pos => rows[request[r].body[k]].present

IInv == TypeOK /\ CycleInv /\ RequestInv /\ AckedIsPersisted /\ ProcessedWasEmitted

-----------------------------------------------------------------------------
(* A function on an initial segment of the naturals is a sequence.         *)
LEMMA FunctionIsSeq ==
    ASSUME NEW S, NEW n \in Nat, NEW f \in [1..n -> S]
    PROVE  f \in Seq(S)
  OBVIOUS

(* pending() returns a sequence of rows below the attempts limit.          *)
LEMMA PendingResultsType ==
    ASSUME TypeOK, NEW b \in pendingResults
    PROVE  b \in Seq(SnapshotType)
<1> DEFINE eligible == {i \in Ids : Pending(i)}
           n == IF Cardinality(eligible) < BatchSize THEN Cardinality(eligible) ELSE BatchSize
<1>1. IsFiniteSet(eligible)
  BY FS_Subset, OutboxAssumption
<1>2. n \in Nat
  BY <1>1, FS_CardinalityType, OutboxAssumption
<1>3. PICK t \in [1..n -> eligible] :
         b = [k \in 1..n |-> [id |-> t[k], attempts |-> rows[t[k]].attempts]]
  BY DEF pendingResults
<1>4. ASSUME NEW i \in eligible PROVE i \in Ids /\ rows[i].attempts \in 0..(MaxAttempts - 1)
  <2>1. i \in Ids /\ rows[i].attempts < MaxAttempts
    BY DEF Pending
  <2>2. rows[i] \in RowType
    BY <2>1 DEF TypeOK
  <2>3. rows[i].attempts \in 0..MaxAttempts
    BY <2>2 DEF RowType
  <2> QED
    BY <2>1, <2>3, OutboxAssumption
<1>5. b \in [1..n -> SnapshotType]
  BY <1>3, <1>4 DEF SnapshotType
<1> HIDE DEF n, eligible
<1> QED
  BY <1>2, <1>5, FunctionIsSeq

(* The initial state satisfies the inductive invariant.                    *)
LEMMA InitIInv == Init => IInv
<1> SUFFICES ASSUME Init PROVE IInv
  OBVIOUS
<1> USE DEF Init
<1>1. NoRow \in RowType
  BY OutboxAssumption DEF NoRow, RowType
<1>2. NoRequest \in RequestType
  BY DEF NoRequest, RequestType
<1>3. FreeLoop \in LoopType
  BY OutboxAssumption DEF FreeLoop, LoopType
<1>4. TypeOK
  BY <1>1, <1>2, <1>3, OutboxAssumption DEF TypeOK
<1>5. CycleInv
  BY DEF CycleInv, Promise, FreeLoop
<1>6. RequestInv
  BY DEF RequestInv, NoRequest
<1>7. AckedIsPersisted
  BY DEF AckedIsPersisted
<1>8. ProcessedWasEmitted
  BY DEF ProcessedWasEmitted, NoRow
<1> QED
  BY <1>4, <1>5, <1>6, <1>7, <1>8 DEF IInv

-----------------------------------------------------------------------------
(* Four frame lemmas.  CycleInv speaks of loop and emits only; it survives *)
(* a step that moves one loop to a place where it promises nothing.        *)
LEMMA CycleInvFrame ==
    ASSUME CycleInv, UNCHANGED <<loop, emits>>
    PROVE  CycleInv'
  BY DEF CycleInv

LEMMA CycleInvMove ==
    ASSUME TypeOK, CycleInv, emits' = emits,
           NEW l \in Loops, NEW x, loop' = [loop EXCEPT ![l] = x], Promise(x, emits)
    PROVE  CycleInv'
  BY DEF CycleInv, TypeOK

LEMMA CycleInvIdle ==
    ASSUME TypeOK, CycleInv, emits' = emits,
           NEW l \in Loops, NEW x, loop' = [loop EXCEPT ![l] = x],
           x.pc \notin {"emit", "done", "failed"}
    PROVE  CycleInv'
  BY CycleInvMove DEF Promise

(* RequestInv and AckedIsPersisted survive when rows only come.            *)
RowsStay == \A i \in Ids : rows[i].present => rows'[i].present

LEMMA PresenceFrame ==
    ASSUME TypeOK, RequestInv, AckedIsPersisted, RowsStay, UNCHANGED <<request, acked>>
    PROVE  RequestInv' /\ AckedIsPersisted'
<1>1. \A r \in Requests : \A k \in 1..Len(request[r].body) : request[r].body[k] \in Ids
  BY DEF TypeOK, RequestType
<1> QED
  BY <1>1 DEF RequestInv, AckedIsPersisted, RowsStay, TypeOK

(* ProcessedWasEmitted survives when no row becomes processed.             *)
LEMMA ProcessedFrame ==
    ASSUME TypeOK, ProcessedWasEmitted, emits' = emits,
           \A i \in Ids : rows'[i].processed => rows[i].processed
    PROVE  ProcessedWasEmitted'
  BY DEF ProcessedWasEmitted

(* insert() adds a row and leaves the others.                              *)
LEMMA InsertFacts ==
    ASSUME TypeOK, NEW i \in Ids, NEW t \in Nat, insert(i, t)
    PROVE  /\ rows' \in [Ids -> RowType] /\ RowsStay /\ rows'[i].present
           /\ \A j \in Ids : rows'[j].processed => rows[j].processed
<1>1. rows \in [Ids -> RowType]
  BY DEF TypeOK
<1>2. CASE rows[i].present
  BY <1>1, <1>2 DEF insert, RowsStay
<1>3. CASE ~rows[i].present
  <2> DEFINE new == NewRow(t)
  <2>1. new \in RowType /\ new.present /\ ~new.processed
    BY OutboxAssumption DEF NewRow, RowType
  <2>2. rows' = [rows EXCEPT ![i] = new]
    BY <1>3 DEF insert
  <2> HIDE DEF new
  <2> QED
    BY <1>1, <2>1, <2>2 DEF RowsStay
<1> QED
  BY <1>2, <1>3

(* The row a loop is working on is a row of the table.                     *)
LEMMA RowInTable ==
    ASSUME TypeOK, NEW l \in Loops, loop[l].pos <= Len(loop[l].batch)
    PROVE  Row(l) \in SnapshotType /\ Row(l).id \in Ids
<1>1. loop[l] \in LoopType
  BY DEF TypeOK
<1>2. loop[l].batch \in Seq(SnapshotType) /\ loop[l].pos \in Nat \ {0}
  BY <1>1 DEF LoopType
<1>3. Row(l) \in SnapshotType
  BY <1>2 DEF Row
<1> QED
  BY <1>3 DEF SnapshotType

(* The end of a cycle leaves a typed loop that promises nothing.           *)
LEMMA EndCycleFacts ==
    ASSUME TypeOK, CycleInv, emits' = emits, NEW l \in Loops, EndCycle(l)
    PROVE  /\ loop' \in [Loops -> LoopType] /\ running' \in BOOLEAN
           /\ waiter' \in Loops \union {None} /\ stopping' \in Loops \union {None}
           /\ CycleInv'
<1> DEFINE armed(p) == [pc |-> p, once |-> FALSE, batch |-> <<>>, pos |-> 1, ev |-> 0,
                        markTo |-> 0]
<1>1. \A p \in {"free", "timer"} :
         armed(p) \in LoopType /\ armed(p).pc \notin {"emit", "done", "failed"}
  BY OutboxAssumption DEF LoopType
<1>2. \E p \in {"free", "timer"} : loop' = [loop EXCEPT ![l] = armed(p)]
  BY DEF EndCycle, FreeLoop
<1> HIDE DEF armed
<1>3. CycleInv'
  BY <1>1, <1>2, CycleInvIdle
<1>4. loop' \in [Loops -> LoopType]
  BY <1>1, <1>2 DEF TypeOK
<1>5. /\ running' \in BOOLEAN
      /\ waiter' \in Loops \union {None} /\ stopping' \in Loops \union {None}
  BY DEF EndCycle, TypeOK
<1> QED
  BY <1>3, <1>4, <1>5

(* The receiver's steps preserve the inductive invariant.                  *)
LEMMA ReceiverStep ==
    ASSUME IInv, NEW r \in Requests, Receiver(r)
    PROVE  IInv'
<1> USE DEF tableVars, drainerVars
<1>0. TypeOK /\ CycleInv /\ RequestInv /\ AckedIsPersisted /\ ProcessedWasEmitted
  BY DEF IInv
<1>a. request[r] \in RequestType
  BY <1>0 DEF TypeOK
<1>b. /\ request[r].body \in Seq(Ids) /\ request[r].pos \in Nat \ {0}
      /\ request[r].receivedAt \in Nat
  BY <1>a DEF RequestType
<1>c. NoRequest \in RequestType
  BY DEF NoRequest, RequestType
<1>1. ASSUME NEW b \in Deliveries, Deliver(r, b) PROVE IInv'
  <2> DEFINE new == [pc |-> "insert", body |-> b, pos |-> 1, receivedAt |-> now]
  <2>1. new \in RequestType /\ new.pos = 1
    BY <1>0, OutboxAssumption DEF RequestType, TypeOK
  <2>2. request' = [request EXCEPT ![r] = new]
    BY <1>1 DEF Deliver
  <2> HIDE DEF new
  <2>3. TypeOK'
    BY <1>0, <1>1, <2>1, <2>2 DEF Deliver, TypeOK
  <2>4. RequestInv'
    BY <1>0, <1>1, <2>1, <2>2 DEF Deliver, RequestInv, TypeOK
  <2>5. CycleInv' /\ AckedIsPersisted' /\ ProcessedWasEmitted'
    BY <1>0, <1>1, CycleInvFrame, ProcessedFrame DEF Deliver, AckedIsPersisted
  <2> QED
    BY <2>3, <2>4, <2>5 DEF IInv
<1>2. CASE RejectSaturated(r)
  <2>1. TypeOK'
    BY <1>0, <1>2 DEF RejectSaturated, TypeOK
  <2>2. UNCHANGED <<rows, request, acked, loop, emits>>
    BY <1>2 DEF RejectSaturated
  <2> QED
    BY <1>0, <2>1, <2>2, CycleInvFrame, PresenceFrame, ProcessedFrame DEF IInv, RowsStay
<1>3. CASE InsertNext(r)
  <2> DEFINE i == request[r].body[request[r].pos]
  <2>1. i \in Ids
    BY <1>b, <1>3 DEF InsertNext
  <2>2. insert(i, request[r].receivedAt)
    BY <1>3 DEF InsertNext
  <2> HIDE DEF i
  <2>3. /\ rows' \in [Ids -> RowType] /\ RowsStay /\ rows'[i].present
        /\ \A j \in Ids : rows'[j].processed => rows[j].processed
    BY <1>0, <1>b, <2>1, <2>2, InsertFacts
  <2>4. request' \in [Requests -> RequestType]
    <3>1. [request[r] EXCEPT !.pos = @ + 1] \in RequestType
      BY <1>a DEF RequestType
    <3>2. request' = [request EXCEPT ![r] = [request[r] EXCEPT !.pos = @ + 1]]
      BY <1>3 DEF InsertNext
    <3> QED
      BY <1>0, <3>1, <3>2 DEF TypeOK
  <2>5. TypeOK'
    BY <1>0, <1>3, <2>3, <2>4 DEF InsertNext, TypeOK
  <2>6. RequestInv'
    <3> SUFFICES ASSUME NEW q \in Requests, NEW k \in 1..Len(request'[q].body),
                        k < request'[q].pos
                 PROVE  rows'[request'[q].body[k]].present
      BY DEF RequestInv
    <3>1. request'[q].body = request[q].body
      BY <1>0, <1>3 DEF InsertNext, TypeOK, RequestType
    <3>2. request[q].body[k] \in Ids
      BY <1>0, <3>1 DEF TypeOK, RequestType
    <3>3. CASE q = r
      <4>1. request'[r].pos = request[r].pos + 1
        BY <1>0, <1>3 DEF InsertNext, TypeOK, RequestType
      <4>2. CASE k = request[r].pos
        BY <3>1, <3>3, <4>2, <2>3 DEF i
      <4>3. CASE k < request[r].pos
        BY <1>0, <2>3, <3>1, <3>2, <3>3, <4>3 DEF RequestInv, RowsStay
      <4> QED
        BY <1>b, <3>3, <4>1, <4>2, <4>3
    <3>4. CASE q # r
      <4>1. request'[q] = request[q]
        BY <1>0, <1>3, <3>4 DEF InsertNext, TypeOK
      <4> QED
        BY <1>0, <2>3, <3>2, <4>1 DEF RequestInv, RowsStay
    <3> QED
      BY <3>3, <3>4
  <2>7. CycleInv' /\ AckedIsPersisted' /\ ProcessedWasEmitted'
    BY <1>0, <1>3, <2>3, CycleInvFrame, ProcessedFrame
       DEF InsertNext, AckedIsPersisted, RowsStay, TypeOK
  <2> QED
    BY <2>5, <2>6, <2>7 DEF IInv
<1>4. ASSUME UNCHANGED <<loop, emits>>, request' = [request EXCEPT ![r] = NoRequest],
             TypeOK', RowsStay, AckedIsPersisted',
             \A j \in Ids : rows'[j].processed => rows[j].processed
      PROVE  IInv'
  <2>1. RequestInv'
    <3> SUFFICES ASSUME NEW q \in Requests, NEW k \in 1..Len(request'[q].body),
                        k < request'[q].pos
                 PROVE  rows'[request'[q].body[k]].present
      BY DEF RequestInv
    <3>1. CASE q = r
      BY <1>0, <1>4, <3>1 DEF TypeOK, NoRequest
    <3>2. CASE q # r
      <4>1. request'[q] = request[q] /\ request[q] \in RequestType
        BY <1>0, <1>4, <3>2 DEF TypeOK
      <4>2. request[q].body[k] \in Ids
        BY <4>1 DEF RequestType
      <4> QED
        BY <1>0, <1>4, <4>1, <4>2 DEF RequestInv, RowsStay
    <3> QED
      BY <3>1, <3>2
  <2> QED
    BY <1>0, <1>4, <2>1, CycleInvFrame, ProcessedFrame DEF IInv
<1>5. CASE InsertThrows(r)
  <2> DEFINE i == request[r].body[request[r].pos]
  <2>1. i \in Ids
    BY <1>b, <1>5 DEF InsertThrows
  <2>2. insert(i, request[r].receivedAt) \/ rows' = rows
    BY <1>5 DEF InsertThrows
  <2> HIDE DEF i
  <2>3. /\ rows' \in [Ids -> RowType] /\ RowsStay
        /\ \A j \in Ids : rows'[j].processed => rows[j].processed
    BY <1>0, <1>b, <2>1, <2>2, InsertFacts DEF TypeOK, RowsStay
  <2>4. TypeOK'
    BY <1>0, <1>5, <1>c, <2>3 DEF InsertThrows, TypeOK
  <2>5. AckedIsPersisted'
    BY <1>0, <1>5, <2>3 DEF InsertThrows, AckedIsPersisted, RowsStay, TypeOK
  <2> QED
    BY <1>4, <1>5, <2>3, <2>4, <2>5 DEF InsertThrows
<1>6. CASE Respond(r)
  <2>1. \A k \in DOMAIN request[r].body :
           request[r].body[k] \in Ids /\ rows[request[r].body[k]].present
    BY <1>0, <1>b, <1>6, SMTT(30) DEF Respond, RequestInv
  <2>2. TypeOK'
    BY <1>0, <1>6, <1>c, <2>1 DEF Respond, TypeOK
  <2>3. AckedIsPersisted'
    BY <1>0, <1>6, <2>1 DEF Respond, AckedIsPersisted
  <2> QED
    BY <1>4, <1>6, <2>2, <2>3 DEF Respond, RowsStay
<1> QED
  BY <1>1, <1>2, <1>3, <1>5, <1>6 DEF Receiver

(* A step that only moves loops keeps what is said of the table.           *)
LEMMA DrainerFrame ==
    ASSUME IInv, UNCHANGED <<tableVars, receiverVars, crashes, emits>>,
           CycleInv', loop' \in [Loops -> LoopType],
           running' \in BOOLEAN, stopRequested' \in BOOLEAN,
           waiter' \in Loops \union {None}, stopping' \in Loops \union {None},
           starts' \in Nat, manual' \in Nat, dbFaults' \in Nat
    PROVE  IInv'
<1> USE DEF IInv, tableVars, receiverVars
<1>1. TypeOK'
  BY DEF TypeOK
<1>2. RequestInv' /\ AckedIsPersisted'
  BY PresenceFrame DEF RowsStay
<1>3. ProcessedWasEmitted'
  BY ProcessedFrame
<1> QED
  BY <1>1, <1>2, <1>3

(* The ways a step changes the record of a loop keep its type.             *)
LoopPcs == {"free", "timer", "query", "rows", "emit", "done", "failed"}

LEMMA LoopUpdates ==
    ASSUME NEW x \in LoopType, NEW p \in LoopPcs
    PROVE  /\ \A v \in Nat : [x EXCEPT !.pc = p, !.ev = v] \in LoopType
           /\ \A b \in Seq(SnapshotType) : [x EXCEPT !.pc = p, !.batch = b, !.pos = 1] \in LoopType
           /\ [x EXCEPT !.pc = p, !.pos = x.pos + 1] \in LoopType
<1>1. /\ x.pos \in Nat \ {0} /\ x.pos + 1 \in Nat \ {0} /\ 1 \in Nat \ {0}
      /\ x.once \in BOOLEAN /\ x.batch \in Seq(SnapshotType) /\ x.ev \in Nat
      /\ x.markTo \in 0..MaxAttempts
  BY DEF LoopType
<1>2. \A v \in Nat : [x EXCEPT !.pc = p, !.ev = v] \in LoopType
  BY Zenon DEF LoopType, LoopPcs
<1>3. ASSUME NEW b \in Seq(SnapshotType), NEW q \in Nat \ {0}
      PROVE  [x EXCEPT !.pc = p, !.batch = b, !.pos = q] \in LoopType
  BY Zenon DEF LoopType, LoopPcs
<1>4. ASSUME NEW q \in Nat \ {0} PROVE [x EXCEPT !.pc = p, !.pos = q] \in LoopType
  BY Zenon DEF LoopType, LoopPcs
<1> QED
  BY <1>1, <1>2, <1>3, <1>4

(* The loops' steps preserve the inductive invariant.                      *)
LEMMA LoopPreserves ==
    ASSUME IInv, NEW l \in Loops, LoopStep(l)
    PROVE  IInv'
<1> DEFINE x == loop[l]
<1>0. TypeOK /\ CycleInv /\ RequestInv /\ AckedIsPersisted /\ ProcessedWasEmitted
  BY DEF IInv
<1>a. x \in LoopType /\ Promise(x, emits)
  BY <1>0 DEF TypeOK, CycleInv
<1>b. /\ loop \in [Loops -> LoopType] /\ running \in BOOLEAN /\ stopRequested \in BOOLEAN
      /\ waiter \in Loops \union {None} /\ stopping \in Loops \union {None}
      /\ starts \in Nat /\ manual \in Nat /\ dbFaults \in Nat
  BY <1>0 DEF TypeOK
<1>c. ASSUME NEW y \in LoopType, loop' = [loop EXCEPT ![l] = y], Promise(y, emits),
             UNCHANGED <<tableVars, receiverVars, crashes, emits, running, stopRequested,
                         stopping, starts, manual, dbFaults>>,
             waiter' \in Loops \union {None}
      PROVE  IInv'
  <2>1. CycleInv'
    BY <1>0, <1>c, CycleInvMove
  <2>2. loop' \in [Loops -> LoopType]
    BY <1>b, <1>c
  <2> QED
    BY <1>b, <1>c, <2>1, <2>2, DrainerFrame
<1>1. CASE RunCycle(l)
  <2>1. CASE stopRequested
    <3>1. FreeLoop \in LoopType /\ Promise(FreeLoop, emits)
      BY OutboxAssumption DEF FreeLoop, LoopType, Promise
    <3> QED
      BY <1>1, <1>b, <1>c, <2>1, <3>1 DEF RunCycle
  <2>2. CASE ~stopRequested
    <3>1. [x EXCEPT !.pc = "query"] \in LoopType /\ Promise([x EXCEPT !.pc = "query"], emits)
      BY <1>a DEF LoopType, Promise
    <3>2. loop' = [loop EXCEPT ![l] = [x EXCEPT !.pc = "query"]]
      BY <1>1, <2>2 DEF RunCycle
    <3> QED
      BY <1>1, <1>c, <2>2, <3>1, <3>2 DEF RunCycle
  <2> QED
    BY <2>1, <2>2
<1>2. ASSUME NEW b \in pendingResults, Query(l, b) PROVE IInv'
  <2> DEFINE y == [x EXCEPT !.pc = "rows", !.batch = b, !.pos = 1]
  <2>1. b \in Seq(SnapshotType)
    BY <1>0, PendingResultsType
  <2>2. y \in LoopType
    BY <1>a, <2>1, LoopUpdates DEF LoopPcs
  <2>4. Promise(y, emits)
    BY <1>a DEF LoopType, Promise
  <2>3. loop' = [loop EXCEPT ![l] = y]
    BY <1>2, <1>b DEF Query
  <2> QED
    BY <1>2, <1>b, <1>c, <2>2, <2>3, <2>4 DEF Query
<1>3. CASE NextRow(l)
  <2>1. CASE loop[l].pos > Len(loop[l].batch) \/ stopRequested
    <3>1. EndCycle(l) /\ emits' = emits
      BY <1>3, <2>1 DEF NextRow
    <3> QED
      BY <1>0, <1>3, <1>b, <3>1, EndCycleFacts, DrainerFrame DEF NextRow
  <2>2. CASE ~(loop[l].pos > Len(loop[l].batch) \/ stopRequested)
    <3> DEFINE i == Row(l).id
    <3>1. x.pos <= Len(x.batch) /\ Row(l) \in SnapshotType /\ i \in Ids
      BY <1>0, <1>a, <2>2, RowInTable DEF LoopType
    <3>2. /\ Row(l).attempts + 1 \in 0..MaxAttempts /\ MaxAttempts \in 0..MaxAttempts
          /\ Kind[i] \in {"ok", "no_driver", "corrupt", "unmappable"} /\ Events[i] \in Nat
      BY <3>1, OutboxAssumption DEF SnapshotType
    <3>3. ASSUME NEW n \in 0..MaxAttempts
          PROVE  /\ [x EXCEPT !.pc = "failed", !.markTo = n] \in LoopType
                 /\ Promise([x EXCEPT !.pc = "failed", !.markTo = n], emits)
      BY <1>a, <3>1 DEF LoopType, Promise
    <3>4. ASSUME NEW p \in {"done", "emit"}, Kind[i] = "ok",
                 (p = "done") = (Events[i] = 0)
          PROVE  /\ [x EXCEPT !.pc = p, !.ev = 1] \in LoopType
                 /\ Promise([x EXCEPT !.pc = p, !.ev = 1], emits)
      <4> DEFINE y == [x EXCEPT !.pc = p, !.ev = 1]
      <4>1. y \in LoopType
        BY <1>a, LoopUpdates DEF LoopPcs
      <4>2. y.pc = p /\ y.ev = 1 /\ y.batch[y.pos].id = i /\ y.pos <= Len(y.batch)
        BY <1>a, <3>1 DEF LoopType, Row
      <4> HIDE DEF y
      <4>3. Promise(y, emits)
        BY <3>2, <3>4, <4>2 DEF Promise
      <4> QED
        BY <4>1, <4>3 DEF y
    <3>5. \E y \in LoopType : Promise(y, emits) /\ loop' = [loop EXCEPT ![l] = y]
      <4>1. CASE Kind[i] \in {"no_driver", "corrupt"}
        BY <1>3, <2>2, <3>2, <3>3, <4>1 DEF NextRow
      <4>2. CASE Kind[i] = "unmappable"
        BY <1>3, <2>2, <3>2, <3>3, <4>2 DEF NextRow
      <4>3. CASE Kind[i] = "ok"
        BY <1>3, <2>2, <3>2, <3>4, <4>3 DEF NextRow
      <4> QED
        BY <3>2, <4>1, <4>2, <4>3
    <3> QED
      BY <1>3, <1>b, <1>c, <2>2, <3>5 DEF NextRow
  <2> QED
    BY <2>1, <2>2
<1>4. CASE Emit(l)
  <2> DEFINE i == Row(l).id
             y == [x EXCEPT !.pc = IF x.ev < Events[i] THEN "emit" ELSE "done", !.ev = @ + 1]
  <2>1. /\ x.pos <= Len(x.batch) /\ i \in Ids /\ Kind[i] = "ok" /\ x.ev \in 1..Events[i]
        /\ \A k \in 1..(x.ev - 1) : emits[<<i, k>>] > 0
    BY <1>0, <1>4, <1>a, RowInTable DEF Emit, Promise, Row
  <2>2. Events[i] \in Nat /\ x.ev \in Nat /\ <<i, x.ev>> \in Slots
    BY <2>1, OutboxAssumption DEF Slots
  <2>3. emits' = [emits EXCEPT ![<<i, x.ev>>] = @ + 1] /\ loop' = [loop EXCEPT ![l] = y]
    BY <1>4 DEF Emit
  <2>4. /\ emits' \in [Slots -> Nat] /\ emits'[<<i, x.ev>>] > 0
        /\ \A s \in Slots : emits[s] > 0 => emits'[s] > 0
    BY <1>0, <2>2, <2>3 DEF TypeOK
  <2>5. y \in LoopType
    <3>1. y = [x EXCEPT !.pc = IF x.ev < Events[i] THEN "emit" ELSE "done", !.ev = x.ev + 1]
      OBVIOUS
    <3>2. (IF x.ev < Events[i] THEN "emit" ELSE "done") \in LoopPcs /\ x.ev + 1 \in Nat
      BY <2>2 DEF LoopPcs
    <3> QED
      BY <1>a, <3>1, <3>2, LoopUpdates
  <2>6. ASSUME NEW z \in LoopType, Promise(z, emits) PROVE Promise(z, emits')
    <3>1. z.pos \in Nat \ {0} /\ z.batch \in Seq(SnapshotType)
      BY <2>6 DEF LoopType
    <3>2. CASE z.pc \in {"emit", "done", "failed"}
      <4>1. z.batch[z.pos] \in SnapshotType
        BY <2>6, <3>1, <3>2 DEF Promise
      <4>2. z.batch[z.pos].id \in Ids
        BY <4>1 DEF SnapshotType
      <4>3. \A k \in 1..Events[z.batch[z.pos].id] : <<z.batch[z.pos].id, k>> \in Slots
        BY <4>2 DEF Slots
      <4>4. Events[z.batch[z.pos].id] \in Nat
        BY <4>2, OutboxAssumption
      <4> QED
        BY <2>4, <2>6, <4>3, <4>4 DEF Promise
    <3>3. CASE z.pc \notin {"emit", "done", "failed"}
      BY <3>3 DEF Promise
    <3> QED
      BY <3>2, <3>3
  <2>7. Promise(y, emits')
    <3>1. \A k \in 1..x.ev : emits'[<<i, k>>] > 0
      <4>1. \A k \in 1..x.ev : <<i, k>> \in Slots
        BY <2>1, <2>2 DEF Slots
      <4> QED
        BY <2>1, <2>2, <2>4, <4>1
    <3>2. y.batch[y.pos].id = i /\ y.pos <= Len(y.batch)
      BY <1>a, <2>1 DEF LoopType, Row
    <3>3. CASE x.ev < Events[i]
      BY <1>a, <2>1, <2>2, <3>1, <3>2, <3>3, SMTT(30) DEF LoopType, Promise
    <3>4. CASE ~(x.ev < Events[i])
      BY <1>a, <2>1, <2>2, <3>1, <3>2, <3>4, SMTT(30) DEF LoopType, Promise
    <3> QED
      BY <3>3, <3>4
  <2> HIDE DEF y
  <2>8. CycleInv'
    <3> SUFFICES ASSUME NEW m \in Loops PROVE Promise(loop'[m], emits')
      BY DEF CycleInv
    <3>1. CASE m = l
      BY <1>b, <2>3, <2>7, <3>1
    <3>2. CASE m # l
      BY <1>0, <1>b, <2>3, <2>6, <3>2 DEF CycleInv
    <3> QED
      BY <3>1, <3>2
  <2>9. TypeOK'
    BY <1>0, <1>4, <2>3, <2>4, <2>5, ZenonT(30) DEF Emit, TypeOK, tableVars, receiverVars
  <2>10. RequestInv' /\ AckedIsPersisted'
    BY <1>0, <1>4, PresenceFrame DEF Emit, RowsStay, tableVars, receiverVars
  <2>11. ProcessedWasEmitted'
    <3>1. \A j \in Ids : \A k \in 1..Events[j] : <<j, k>> \in Slots
      BY DEF Slots
    <3> QED
      BY <1>0, <1>4, <2>4, <3>1 DEF Emit, ProcessedWasEmitted, tableVars
  <2> QED
    BY <2>8, <2>9, <2>10, <2>11 DEF IInv
<1>5. CASE EmitThrows(l)
  <2> DEFINE y == [x EXCEPT !.pc = "failed", !.markTo = Row(l).attempts + 1]
  <2>1. x.pos <= Len(x.batch) /\ Row(l) \in SnapshotType
    BY <1>0, <1>5, <1>a, RowInTable DEF EmitThrows, Promise
  <2>2. Row(l).attempts + 1 \in 0..MaxAttempts
    BY <2>1, OutboxAssumption DEF SnapshotType
  <2>3. y \in LoopType /\ Promise(y, emits)
    BY <1>a, <2>1, <2>2 DEF LoopType, Promise
  <2>4. loop' = [loop EXCEPT ![l] = y]
    BY <1>5 DEF EmitThrows
  <2> QED
    BY <1>5, <1>b, <1>c, <2>3, <2>4 DEF EmitThrows
<1>d. ASSUME loop[l].pc = "done", markProcessed(Row(l).id), UNCHANGED <<request, acked, emits>>
      PROVE  /\ rows' \in [Ids -> RowType] /\ RequestInv' /\ AckedIsPersisted'
             /\ ProcessedWasEmitted'
  <2> DEFINE i == Row(l).id
  <2>1. /\ i \in Ids /\ Kind[i] = "ok" /\ \A k \in 1..Events[i] : emits[<<i, k>>] > 0
    BY <1>0, <1>a, <1>d, RowInTable DEF Promise, Row
  <2>2. rows' = [rows EXCEPT ![i] = [rows[i] EXCEPT !.processed = TRUE]]
    BY <1>d DEF markProcessed
  <2> HIDE DEF i
  <2>3. rows[i] \in RowType
    BY <1>0, <2>1 DEF TypeOK
  <2>4. /\ [rows[i] EXCEPT !.processed = TRUE] \in RowType
        /\ [rows[i] EXCEPT !.processed = TRUE].present = rows[i].present
    BY <2>3 DEF RowType
  <2>5. rows' \in [Ids -> RowType] /\ RowsStay
    BY <1>0, <2>1, <2>2, <2>4 DEF TypeOK, RowsStay
  <2>6. RequestInv' /\ AckedIsPersisted'
    BY <1>0, <1>d, <2>5, PresenceFrame
  <2>7. ProcessedWasEmitted'
    BY <1>0, <1>d, <2>1, <2>2 DEF ProcessedWasEmitted, TypeOK
  <2> QED
    BY <2>5, <2>6, <2>7
<1>e. ASSUME loop[l].pc = "failed", markFailed(Row(l).id, loop[l].markTo),
             UNCHANGED <<request, acked, emits>>
      PROVE  /\ rows' \in [Ids -> RowType] /\ RequestInv' /\ AckedIsPersisted'
             /\ ProcessedWasEmitted'
  <2> DEFINE i == Row(l).id
             y == [rows[i] EXCEPT !.attempts = x.markTo]
  <2>1. i \in Ids /\ x.markTo \in 0..MaxAttempts
    BY <1>0, <1>a, <1>e, RowInTable DEF Promise, LoopType
  <2>2. rows' = [rows EXCEPT ![i] = y]
    BY <1>e DEF markFailed
  <2> HIDE DEF i
  <2>3. rows[i] \in RowType
    BY <1>0, <2>1 DEF TypeOK
  <2>4. /\ y \in RowType /\ y.present = rows[i].present
        /\ y.processed = rows[i].processed
    BY <2>1, <2>3 DEF RowType
  <2> HIDE DEF y
  <2>5. /\ rows' \in [Ids -> RowType] /\ RowsStay
        /\ \A j \in Ids : rows'[j].processed => rows[j].processed
    BY <1>0, <2>1, <2>2, <2>4 DEF TypeOK, RowsStay
  <2> QED
    BY <1>0, <1>e, <2>5, PresenceFrame, ProcessedFrame
<1>f. [x EXCEPT !.pc = "rows", !.pos = @ + 1] \in LoopType
  BY <1>a, LoopUpdates DEF LoopPcs
<1>6. CASE MarkProcessed(l)
  <2>1. loop' = [loop EXCEPT ![l] = [x EXCEPT !.pc = "rows", !.pos = @ + 1]]
    BY <1>6 DEF MarkProcessed
  <2>2. CycleInv'
    BY <1>0, <1>6, <1>a, <1>f, <2>1, CycleInvMove DEF MarkProcessed, Promise, LoopType
  <2>3. /\ rows' \in [Ids -> RowType] /\ RequestInv' /\ AckedIsPersisted'
        /\ ProcessedWasEmitted'
    BY <1>6, <1>d DEF MarkProcessed, receiverVars
  <2>4. TypeOK'
    BY <1>0, <1>6, <1>f, <2>1, <2>3 DEF MarkProcessed, TypeOK, receiverVars
  <2> QED
    BY <2>2, <2>3, <2>4 DEF IInv
<1>7. CASE MarkFailed(l)
  <2>1. loop' = [loop EXCEPT ![l] = [x EXCEPT !.pc = "rows", !.pos = @ + 1]]
    BY <1>7 DEF MarkFailed
  <2>2. CycleInv'
    BY <1>0, <1>7, <1>a, <1>f, <2>1, CycleInvMove DEF MarkFailed, Promise, LoopType
  <2>3. /\ rows' \in [Ids -> RowType] /\ RequestInv' /\ AckedIsPersisted'
        /\ ProcessedWasEmitted'
    BY <1>7, <1>e DEF MarkFailed, receiverVars
  <2>4. TypeOK'
    BY <1>0, <1>7, <1>f, <2>1, <2>3 DEF MarkFailed, TypeOK, receiverVars
  <2> QED
    BY <2>2, <2>3, <2>4 DEF IInv
<1>8. CASE DbThrows(l)
  <2>1. /\ loop' \in [Loops -> LoopType] /\ running' \in BOOLEAN
        /\ waiter' \in Loops \union {None} /\ stopping' \in Loops \union {None}
        /\ CycleInv'
    BY <1>0, <1>8, EndCycleFacts DEF DbThrows
  <2>2. /\ rows' \in [Ids -> RowType] /\ RequestInv' /\ AckedIsPersisted'
        /\ ProcessedWasEmitted'
    <3>1. UNCHANGED <<request, acked, emits>>
      BY <1>8 DEF DbThrows, receiverVars
    <3>2. CASE rows' = rows
      BY <1>0, <3>1, <3>2, PresenceFrame, ProcessedFrame DEF RowsStay, TypeOK
    <3> QED
      BY <1>8, <1>d, <1>e, <3>1, <3>2 DEF DbThrows
  <2>3. TypeOK'
    BY <1>0, <1>8, <2>1, <2>2 DEF DbThrows, TypeOK, receiverVars
  <2> QED
    BY <2>1, <2>2, <2>3 DEF IInv
<1> QED
  BY <1>1, <1>2, <1>3, <1>4, <1>5, <1>6, <1>7, <1>8 DEF LoopStep

(* Every step preserves the inductive invariant.                           *)
LEMMA NextIInv == IInv /\ [Next]_vars => IInv'
<1> SUFFICES ASSUME IInv, [Next]_vars PROVE IInv'
  OBVIOUS
<1> USE DEF tableVars, receiverVars, drainerVars
<1>0. TypeOK /\ CycleInv /\ RequestInv /\ AckedIsPersisted /\ ProcessedWasEmitted
  BY DEF IInv
<1>1. ASSUME NEW r \in Requests, Receiver(r) PROVE IInv'
  BY <1>1, ReceiverStep
<1>2. ASSUME NEW l \in Loops, Start(l) PROVE IInv'
  <2> DEFINE y == [loop[l] EXCEPT !.pc = "timer"]
  <2>1. loop[l] \in LoopType
    BY <1>0 DEF TypeOK
  <2>2. y \in LoopType /\ y.pc = "timer"
    BY <2>1 DEF LoopType
  <2>3. loop' = [loop EXCEPT ![l] = y]
    BY <1>2 DEF Start
  <2> HIDE DEF y
  <2>4. CycleInv' /\ loop' \in [Loops -> LoopType]
    BY <1>0, <1>2, <2>2, <2>3, CycleInvIdle DEF Start, TypeOK
  <2>5. /\ running' \in BOOLEAN /\ stopRequested' \in BOOLEAN
        /\ waiter' \in Loops \union {None} /\ stopping' \in Loops \union {None}
    BY <1>0, <1>2 DEF Start, TypeOK
  <2>6. starts' \in Nat /\ manual' \in Nat /\ dbFaults' \in Nat
    BY <1>0, <1>2 DEF Start, TypeOK
  <2> QED
    BY <1>2, <2>4, <2>5, <2>6, DrainerFrame DEF Start
<1>3. ASSUME NEW l \in Loops, DrainOnce(l) PROVE IInv'
  <2> DEFINE y == [loop[l] EXCEPT !.pc = "query", !.once = TRUE]
  <2>1. loop[l] \in LoopType
    BY <1>0 DEF TypeOK
  <2>2. y \in LoopType /\ y.pc = "query"
    BY <2>1 DEF LoopType
  <2>3. loop' = [loop EXCEPT ![l] = y]
    BY <1>3 DEF DrainOnce
  <2> HIDE DEF y
  <2>4. CycleInv' /\ loop' \in [Loops -> LoopType]
    BY <1>0, <1>3, <2>2, <2>3, CycleInvIdle DEF DrainOnce, TypeOK
  <2> QED
    BY <1>0, <1>3, <2>4, DrainerFrame DEF DrainOnce, TypeOK
<1>4. ASSUME NEW l \in Loops, LoopStep(l) PROVE IInv'
  BY <1>4, LoopPreserves
<1>5. CASE Stop
  <2>1. CycleInv'
    BY <1>0, <1>5, CycleInvFrame DEF Stop
  <2>2. /\ running' \in BOOLEAN /\ stopRequested' \in BOOLEAN
        /\ waiter' \in Loops \union {None} /\ stopping' \in Loops \union {None}
    BY <1>0, <1>5 DEF Stop, TypeOK
  <2>3. /\ loop' \in [Loops -> LoopType]
        /\ starts' \in Nat /\ manual' \in Nat /\ dbFaults' \in Nat
    BY <1>0, <1>5 DEF Stop, TypeOK
  <2> QED
    BY <1>5, <2>1, <2>2, <2>3, DrainerFrame DEF Stop
<1>6. CASE Tick
  <2>1. TypeOK'
    BY <1>0, <1>6 DEF Tick, TypeOK
  <2> QED
    BY <1>0, <1>6, <2>1, CycleInvFrame, PresenceFrame, ProcessedFrame
       DEF Tick, RowsStay, IInv
<1>7. CASE Crash
  <2>1. FreeLoop \in LoopType /\ NoRequest \in RequestType
    BY OutboxAssumption DEF FreeLoop, LoopType, NoRequest, RequestType
  <2>2. TypeOK'
    <3>1. loop' \in [Loops -> LoopType] /\ request' \in [Requests -> RequestType]
      BY <1>7, <2>1 DEF Crash
    <3>2. /\ available' \in Nat /\ running' \in BOOLEAN /\ stopRequested' \in BOOLEAN
          /\ waiter' \in Loops \union {None} /\ stopping' \in Loops \union {None}
      BY <1>7, OutboxAssumption DEF Crash
    <3>3. starts' \in Nat /\ manual' \in Nat /\ crashes' \in Nat
      BY <1>0, <1>7 DEF Crash, TypeOK
    <3> QED
      BY <1>0, <1>7, <3>1, <3>2, <3>3 DEF Crash, TypeOK
  <2>3. CycleInv'
    BY <1>7 DEF Crash, CycleInv, Promise, FreeLoop
  <2>4. RequestInv'
    BY <1>7 DEF Crash, RequestInv, NoRequest
  <2>5. AckedIsPersisted' /\ ProcessedWasEmitted'
    BY <1>0, <1>7 DEF Crash, AckedIsPersisted, ProcessedWasEmitted
  <2> QED
    BY <2>2, <2>3, <2>4, <2>5 DEF IInv
<1>8. CASE UNCHANGED vars
  <2>1. TypeOK'
    BY <1>0, <1>8 DEF vars, TypeOK
  <2> QED
    BY <1>0, <1>8, <2>1, CycleInvFrame, PresenceFrame, ProcessedFrame
       DEF vars, RowsStay, IInv
<1> QED
  BY <1>1, <1>2, <1>3, <1>4, <1>5, <1>6, <1>7, <1>8 DEF Next

-----------------------------------------------------------------------------
(* The state of receiver, table and drainer is always well typed, and no   *)
(* row is charged more than MaxAttempts attempts.                          *)
THEOREM TypeCorrect == Spec => []TypeOK
<1>1. IInv => TypeOK
  BY DEF IInv
<1> QED
  BY <1>1, InitIInv, NextIInv, PTL DEF Spec

(* A delivery answered with 200 has all its rows in the table, through any *)
(* number of crashes, database errors and concurrent requests.             *)
THEOREM AckedPersisted == Spec => []AckedIsPersisted
<1>1. IInv => AckedIsPersisted
  BY DEF IInv
<1> QED
  BY <1>1, InitIInv, NextIInv, PTL DEF Spec

(* However many drain loops run at once, a row is marked processed only    *)
(* after each of its events was emitted.                                   *)
THEOREM ProcessedEmitted == Spec => []ProcessedWasEmitted
<1>1. IInv => ProcessedWasEmitted
  BY DEF IInv
<1> QED
  BY <1>1, InitIInv, NextIInv, PTL DEF Spec

-----------------------------------------------------------------------------
(* Permits, one chain of timers, and the delivery contract.                *)

Active == {"query", "rows", "emit", "done", "failed"}
Working == {"rows", "emit", "done", "failed"}
MidRow == {"emit", "done", "failed"}

(* The fields of the drainer agree with the chain: a waiter stands for its *)
(* cycle, a stop() awaits the waiter, a timer that will begin a cycle      *)
(* belongs to a running drainer.                                           *)
LoopControl ==
    /\ \A l \in Loops :
          /\ loop[l].pc = "free" => ~loop[l].once
          /\ loop[l].pc = "timer" => ~loop[l].once /\ (stopRequested \/ running)
          /\ loop[l].pc \in Active /\ ~loop[l].once => running /\ waiter = l
    /\ waiter # None => loop[waiter].pc \in Active /\ ~loop[waiter].once
    /\ stopping # None => stopping = waiter /\ stopRequested

(* What follows is said of a loop x, the table t, the emissions e and the  *)
(* number c of crashes and database errors.                                *)

(* Rows the chain has not yet disposed of are as the query saw them, and it*)
(* meets each of them once.                                                *)
Fresh(x, t) ==
    x.pc \in Working =>
        /\ \A j, k \in DOMAIN x.batch : x.batch[j].id = x.batch[k].id => j = k
        /\ \A k \in DOMAIN x.batch : k >= x.pos =>
              /\ t[x.batch[k].id].present /\ ~t[x.batch[k].id].processed
              /\ t[x.batch[k].id].attempts = x.batch[k].attempts

(* A failure is going to be recorded as one attempt more, at least.        *)
FailureCounts(x) == x.pc = "failed" => x.markTo > x.batch[x.pos].attempts

(* Event k of row i has gone out in the attempt under way.                 *)
Spent(x, i, k) ==
    /\ x.pc \in MidRow /\ x.batch[x.pos].id = i
    /\ x.pc = "emit" => k < x.ev
Credit(x, t, i, k) == IF t[i].processed \/ Spent(x, i, k) THEN 1 ELSE 0
RepeatsPaid(x, t, e, c) ==
    \A i \in Ids : \A k \in 1..Events[i] : e[<<i, k>>] <= t[i].attempts + c + Credit(x, t, i, k)

(* Events of a row went out at most as often as the ones before them, and  *)
(* in the attempt under way the ones before ev once more.                  *)
Descend(x, e) ==
    /\ \A i \in Ids : \A j, k \in 1..Events[i] : j <= k => e[<<i, k>>] <= e[<<i, j>>]
    /\ x.pc = "emit" =>
          \A j, k \in 1..Events[x.batch[x.pos].id] :
              j < x.ev /\ x.ev <= k
                  => e[<<x.batch[x.pos].id, k>>] < e[<<x.batch[x.pos].id, j>>]

Work(x, t, e, c) == Fresh(x, t) /\ FailureCounts(x) /\ RepeatsPaid(x, t, e, c) /\ Descend(x, e)

(* No row was marked before it was inserted.                               *)
AbsentIsNew == \A i \in Ids : ~rows[i].present => rows[i].attempts = 0 /\ ~rows[i].processed

WorkInv == AbsentIsNew /\ \A l \in Loops : Work(loop[l], rows, emits, crashes + dbFaults)

Busy == {r \in Requests : request[r].pc # "idle"}
PermitInv == IsFiniteSet(Busy) /\ PermitsBalanced

OneLoopInv == IInv /\ PermitInv /\ LoopControl /\ WorkInv

-----------------------------------------------------------------------------
(* Permits: for any number of loops.                                       *)
LEMMA PermitInit == Init => PermitInv
<1> SUFFICES ASSUME Init PROVE PermitInv
  OBVIOUS
<1>1. Busy = {}
  BY DEF Init, Busy, NoRequest
<1>2. available + Cardinality(Busy) = MaxConcurrent /\ IsFiniteSet(Busy)
  BY <1>1, FS_EmptySet, OutboxAssumption DEF Init
<1> QED
  BY <1>2 DEF PermitInv, PermitsBalanced, Busy

LEMMA PermitStep ==
    ASSUME TypeOK, PermitInv, [Next]_vars
    PROVE  PermitInv'
<1> DEFINE count == Cardinality(Busy)
<1>0. /\ IsFiniteSet(Busy) /\ count \in Nat /\ available \in Nat /\ MaxConcurrent \in Nat
      /\ available + count = MaxConcurrent
  BY FS_CardinalityType, OutboxAssumption DEF PermitInv, PermitsBalanced, Busy, TypeOK
<1>1. ASSUME Busy' = Busy, available' = available PROVE PermitInv'
  BY <1>0, <1>1 DEF PermitInv, PermitsBalanced, Busy
<1>2. ASSUME NEW r \in Busy, request' = [request EXCEPT ![r] = NoRequest], available' = available + 1
      PROVE  PermitInv'
  <2>1. Busy' = Busy \ {r}
    BY <1>2 DEF Busy, NoRequest, TypeOK
  <2>2. IsFiniteSet(Busy') /\ Cardinality(Busy') = count - 1
    BY <1>0, <2>1, FS_RemoveElement
  <2>3. available' + Cardinality(Busy') = MaxConcurrent
    BY <1>0, <1>2, <2>2
  <2> QED
    BY <2>2, <2>3 DEF PermitInv, PermitsBalanced, Busy
<1>3. ASSUME NEW r \in Requests, NEW b \in Deliveries, Deliver(r, b) PROVE PermitInv'
  <2>1. Busy' = Busy \cup {r} /\ r \notin Busy
    BY <1>3 DEF Deliver, Busy, TypeOK
  <2>2. IsFiniteSet(Busy') /\ Cardinality(Busy') = count + 1
    BY <1>0, <2>1, FS_AddElement
  <2>3. available' = available - 1
    BY <1>3 DEF Deliver
  <2>4. available' + Cardinality(Busy') = MaxConcurrent
    BY <1>0, <2>2, <2>3
  <2> QED
    BY <2>2, <2>4 DEF PermitInv, PermitsBalanced, Busy
<1>4. ASSUME NEW r \in Requests, InsertNext(r) PROVE PermitInv'
  <2>1. \A q \in Requests : request'[q].pc = request[q].pc
    BY <1>4 DEF InsertNext, TypeOK, RequestType
  <2> QED
    BY <1>1, <1>4, <2>1 DEF InsertNext, Busy
<1>5. ASSUME NEW r \in Requests, InsertThrows(r) \/ Respond(r) PROVE PermitInv'
  <2>1. r \in Busy
    BY <1>5 DEF InsertThrows, Respond, Busy
  <2> QED
    BY <1>2, <1>5, <2>1 DEF InsertThrows, Respond
<1>6. ASSUME NEW r \in Requests, Receiver(r) PROVE PermitInv'
  <2>1. CASE RejectSaturated(r)
    BY <1>1, <2>1 DEF RejectSaturated, Busy
  <2> QED
    BY <1>3, <1>4, <1>5, <1>6, <2>1 DEF Receiver
<1>7. ASSUME UNCHANGED <<request, available>> PROVE PermitInv'
  BY <1>1, <1>7 DEF Busy
<1>8. ASSUME NEW l \in Loops, Start(l) \/ DrainOnce(l) \/ LoopStep(l)
      PROVE  UNCHANGED <<request, available>>
  BY <1>8 DEF Start, DrainOnce, LoopStep, RunCycle, Query, NextRow, Emit, EmitThrows,
     MarkProcessed, MarkFailed, DbThrows, receiverVars
<1>9. CASE Crash
  <2>1. Busy' = {} /\ available' = MaxConcurrent
    BY <1>9 DEF Crash, Busy, NoRequest
  <2>2. available' + Cardinality(Busy') = MaxConcurrent /\ IsFiniteSet(Busy')
    BY <1>0, <2>1, FS_EmptySet
  <2> QED
    BY <2>2 DEF PermitInv, PermitsBalanced, Busy
<1>10. CASE Stop \/ Tick \/ UNCHANGED vars
  BY <1>7, <1>10 DEF Stop, Tick, vars, receiverVars
<1> QED
  BY <1>6, <1>7, <1>8, <1>9, <1>10 DEF Next

(* An ingest() that throws, and one that succeeds, gives back the one      *)
(* permit it took, however many requests and loops there are (http.ts).    *)
THEOREM PermitsReturn == Spec => []PermitsBalanced
<1>1. Init => IInv /\ PermitInv
  BY InitIInv, PermitInit
<1>2. IInv /\ PermitInv /\ [Next]_vars => (IInv /\ PermitInv)'
  BY NextIInv, PermitStep DEF IInv
<1>3. IInv /\ PermitInv => PermitsBalanced
  BY DEF PermitInv
<1> QED
  BY <1>1, <1>2, <1>3, PTL DEF Spec

-----------------------------------------------------------------------------
(* What the loop becomes when it turns to the next row of its batch.       *)
LEMMA NextRowFacts ==
    ASSUME TypeOK, NEW l \in Loops, NextRow(l), loop[l].pos <= Len(loop[l].batch), ~stopRequested
    PROVE  /\ loop[l].pc = "rows" /\ loop' = [loop EXCEPT ![l] = loop'[l]]
           /\ UNCHANGED <<rows, emits, crashes, dbFaults, running, stopRequested, waiter, stopping>>
           /\ loop'[l].batch = loop[l].batch /\ loop'[l].pos = loop[l].pos
           /\ loop'[l].once = loop[l].once
           /\ \/ /\ loop'[l].pc = "failed"
                 /\ loop'[l].markTo \in {MaxAttempts, Row(l).attempts + 1}
              \/ loop'[l].pc = "done" /\ Events[Row(l).id] = 0
              \/ loop'[l].pc = "emit" /\ loop'[l].ev = 1
<1> DEFINE x == loop[l]
           i == Row(l).id
<1>1. x \in LoopType /\ x.pos \in Nat /\ Len(x.batch) \in Nat /\ loop \in [Loops -> LoopType]
  BY DEF TypeOK, LoopType
<1>2. ~(x.pos > Len(x.batch) \/ stopRequested) /\ Row(l).id \in Ids
  BY <1>1, RowInTable
<1>3. Kind[i] \in {"ok", "no_driver", "corrupt", "unmappable"}
  BY <1>2, OutboxAssumption
<1>4. loop[l].pc = "rows" /\ UNCHANGED <<rows, emits, crashes, dbFaults, running, stopRequested,
                                        waiter, stopping>>
  BY <1>2 DEF NextRow, tableVars
<1>5. \/ /\ Kind[i] # "ok"
         /\ \E n \in {MaxAttempts, Row(l).attempts + 1} :
               loop' = [loop EXCEPT ![l] = [x EXCEPT !.pc = "failed", !.markTo = n]]
      \/ /\ Kind[i] = "ok"
         /\ loop' = [loop EXCEPT ![l] =
                        [x EXCEPT !.pc = IF Events[i] = 0 THEN "done" ELSE "emit", !.ev = 1]]
  <2>1. CASE Kind[i] \in {"no_driver", "corrupt"}
    BY <1>2, <2>1 DEF NextRow
  <2>2. CASE Kind[i] = "unmappable"
    BY <1>2, <2>2 DEF NextRow
  <2>3. CASE Kind[i] = "ok"
    BY <1>2, <2>3 DEF NextRow
  <2> QED
    BY <1>3, <2>1, <2>2, <2>3
<1> HIDE DEF i
<1>6. ASSUME NEW n, loop' = [loop EXCEPT ![l] = [x EXCEPT !.pc = "failed", !.markTo = n]]
      PROVE  /\ loop' = [loop EXCEPT ![l] = loop'[l]] /\ loop'[l].batch = x.batch
             /\ loop'[l].pos = x.pos /\ loop'[l].once = x.once
             /\ loop'[l].pc = "failed" /\ loop'[l].markTo = n
  BY <1>1, <1>6 DEF LoopType
<1>7. ASSUME NEW c, loop' = [loop EXCEPT ![l] = [x EXCEPT !.pc = c, !.ev = 1]]
      PROVE  /\ loop' = [loop EXCEPT ![l] = loop'[l]] /\ loop'[l].batch = x.batch
             /\ loop'[l].pos = x.pos /\ loop'[l].once = x.once
             /\ loop'[l].pc = c /\ loop'[l].ev = 1
  BY <1>1, <1>7 DEF LoopType
<1> HIDE DEF x
<1>8. CASE Kind[i] # "ok"
  BY <1>4, <1>5, <1>6, <1>8 DEF x
<1>9. CASE Kind[i] = "ok"
  BY <1>4, <1>5, <1>7, <1>9 DEF x, i
<1> QED
  BY <1>8, <1>9

-----------------------------------------------------------------------------
(* The fields of the drainer and its one chain.                            *)
LEMMA ControlInit == Init => LoopControl
  BY DEF Init, LoopControl, FreeLoop, Active

(* A step that leaves the fields and the chain's place alone.              *)
LEMMA ControlFrame ==
    ASSUME TypeOK, LoopControl, NEW l, Loops = {l}, NEW x, loop' = [loop EXCEPT ![l] = x],
           UNCHANGED <<running, stopRequested, waiter, stopping>>,
           x.once = loop[l].once, x.pc = loop[l].pc \/ (x.pc \in Active /\ loop[l].pc \in Active)
    PROVE  LoopControl'
<1>1. loop'[l] = x /\ (waiter # None => waiter = l)
  BY DEF TypeOK
<1> QED
  BY <1>1 DEF LoopControl, Active

LEMMA ControlEndCycle ==
    ASSUME TypeOK, LoopControl, NEW l, Loops = {l}, loop[l].pc \in Active, EndCycle(l),
           stopRequested' = stopRequested
    PROVE  LoopControl'
<1>0. /\ loop \in [Loops -> LoopType] /\ (waiter # None => waiter = l) /\ l # None
      /\ stopRequested \in BOOLEAN /\ running \in BOOLEAN
  BY OutboxAssumption DEF TypeOK
<1>1. CASE loop[l].once
  <2>1. loop'[l].pc = "free" /\ ~loop'[l].once /\ UNCHANGED <<waiter, stopping, running>>
    BY <1>0, <1>1 DEF EndCycle, FreeLoop
  <2>2. waiter = None /\ stopping = None
    BY <1>0, <1>1 DEF LoopControl
  <2> QED
    BY <2>1, <2>2 DEF LoopControl, Active
<1>2. CASE ~loop[l].once
  <2>1. running /\ waiter = l
    BY <1>2 DEF LoopControl
  <2>2. /\ waiter' = None /\ loop'[l].pc = IF stopRequested THEN "free" ELSE "timer"
        /\ ~loop'[l].once
        /\ IF stopping = l THEN stopping' = None /\ running' = FALSE
           ELSE UNCHANGED <<stopping, running>>
    BY <1>0, <1>2, <2>1 DEF EndCycle, FreeLoop
  <2>3. stopping' = None /\ (~stopRequested => running')
    BY <1>0, <2>1, <2>2 DEF LoopControl
  <2> QED
    BY <2>1, <2>2, <2>3 DEF LoopControl, Active
<1> QED
  BY <1>1, <1>2

LEMMA ControlStep ==
    ASSUME TypeOK, LoopControl, NEW l, Loops = {l}, [Next]_vars
    PROVE  LoopControl'
<1>0. /\ loop \in [Loops -> LoopType] /\ (waiter # None => waiter = l) /\ l # None
      /\ (stopping # None => stopping = l)
      /\ stopRequested \in BOOLEAN /\ running \in BOOLEAN
  BY OutboxAssumption DEF TypeOK
<1>1. CASE UNCHANGED <<loop, running, stopRequested, waiter, stopping>>
  BY <1>1 DEF LoopControl
<1>2. CASE Start(l)
  <2>1. /\ loop'[l].pc = "timer" /\ loop'[l].once = loop[l].once /\ running' /\ ~stopRequested'
        /\ loop[l].pc = "free" /\ UNCHANGED <<waiter, stopping>>
    BY <1>0, <1>2 DEF Start, LoopType
  <2>2. waiter = None /\ stopping = None
    BY <1>0, <2>1 DEF LoopControl, Active
  <2> QED
    BY <2>1, <2>2 DEF LoopControl, Active
<1>3. CASE DrainOnce(l)
  <2>1. /\ loop'[l].pc = "query" /\ loop'[l].once = TRUE
        /\ loop[l].pc = "free" /\ UNCHANGED <<running, stopRequested, waiter, stopping>>
    BY <1>0, <1>3 DEF DrainOnce, LoopType
  <2>2. waiter = None /\ stopping = None
    BY <1>0, <2>1 DEF LoopControl, Active
  <2> QED
    BY <2>1, <2>2 DEF LoopControl, Active
<1>4. CASE RunCycle(l)
  <2>0. loop[l].pc = "timer" /\ ~loop[l].once /\ (stopRequested \/ running)
    BY <1>4 DEF RunCycle, LoopControl
  <2>1. waiter = None /\ stopping = None
    BY <1>0, <2>0 DEF LoopControl, Active
  <2>2. CASE stopRequested
    <3>1. /\ loop'[l].pc = "free" /\ ~loop'[l].once
          /\ UNCHANGED <<running, stopRequested, waiter, stopping>>
      BY <1>0, <1>4, <2>2 DEF RunCycle, FreeLoop
    <3> QED
      BY <2>1, <3>1 DEF LoopControl, Active
  <2>3. CASE ~stopRequested
    <3>1. /\ loop'[l].pc = "query" /\ loop'[l].once = loop[l].once /\ waiter' = l
          /\ UNCHANGED <<running, stopRequested, stopping>>
      BY <1>0, <1>4, <2>3 DEF RunCycle, LoopType
    <3> QED
      BY <2>0, <2>1, <2>3, <3>1 DEF LoopControl, Active
  <2> QED
    BY <2>2, <2>3
<1>5. CASE (\E b \in pendingResults : Query(l, b)) \/ Emit(l) \/ EmitThrows(l)
           \/ MarkProcessed(l) \/ MarkFailed(l)
  <2>1. /\ loop[l].pc \in Active /\ UNCHANGED <<running, stopRequested, waiter, stopping>>
        /\ loop' = [loop EXCEPT ![l] = loop'[l]]
        /\ loop'[l].once = loop[l].once /\ loop'[l].pc \in Active
    <3>1. ASSUME NEW b \in pendingResults, Query(l, b)
          PROVE  /\ loop[l].pc \in Active /\ UNCHANGED <<running, stopRequested, waiter, stopping>>
                 /\ loop' = [loop EXCEPT ![l] = loop'[l]]
                 /\ loop'[l].once = loop[l].once /\ loop'[l].pc \in Active
      BY <1>0, <3>1 DEF Query, Active, LoopType
    <3>2. CASE Emit(l)
      BY <1>0, <3>2 DEF Emit, Active, LoopType
    <3>3. CASE EmitThrows(l)
      BY <1>0, <3>3 DEF EmitThrows, Active, LoopType
    <3>4. CASE MarkProcessed(l) \/ MarkFailed(l)
      BY <1>0, <3>4 DEF MarkProcessed, MarkFailed, Active, LoopType
    <3> QED
      BY <1>5, <3>1, <3>2, <3>3, <3>4
  <2> QED
    BY <2>1, ControlFrame
<1>6. CASE NextRow(l)
  <2>1. CASE EndCycle(l)
    BY <1>6, <2>1, ControlEndCycle DEF NextRow, Active
  <2>2. CASE ~(loop[l].pos > Len(loop[l].batch) \/ stopRequested)
    <3>1. loop[l].pos \in Nat /\ Len(loop[l].batch) \in Nat
      BY <1>0 DEF LoopType
    <3>2. /\ loop[l].pc = "rows" /\ UNCHANGED <<running, stopRequested, waiter, stopping>>
          /\ loop' = [loop EXCEPT ![l] = loop'[l]]
          /\ loop'[l].once = loop[l].once /\ loop'[l].pc \in MidRow
      BY <1>6, <2>2, <3>1, NextRowFacts DEF MidRow
    <3> QED
      BY <3>2, ControlFrame DEF MidRow, Active
  <2> QED
    BY <1>6, <2>1, <2>2 DEF NextRow
<1>7. CASE DbThrows(l)
  BY <1>7, ControlEndCycle DEF DbThrows, Active
<1>8. CASE Stop
  <2>1. /\ stopRequested' /\ stopping' = waiter /\ running' = (waiter # None)
        /\ UNCHANGED <<loop, waiter>>
    BY <1>8 DEF Stop
  <2> QED
    BY <1>0, <2>1 DEF LoopControl
<1>9. CASE Crash
  BY <1>9 DEF Crash, LoopControl, FreeLoop, Active
<1>10. CASE Tick \/ UNCHANGED vars \/ \E r \in Requests : Receiver(r)
  BY <1>1, <1>10 DEF Tick, vars, drainerVars, Receiver, Deliver, RejectSaturated, InsertNext,
     InsertThrows, Respond
<1> QED
  BY <1>2, <1>3, <1>4, <1>5, <1>6, <1>7, <1>8, <1>9, <1>10 DEF Next, LoopStep

-----------------------------------------------------------------------------
(* The work of the chain, as facts about a loop, a table and emissions.    *)
Tables == [Ids -> RowType]

(* Where a loop in the middle of a row stands.                             *)
LEMMA MidRowFacts ==
    ASSUME NEW x \in LoopType, NEW e, Promise(x, e), x.pc \in MidRow
    PROVE  /\ x.pos \in DOMAIN x.batch /\ x.batch[x.pos] \in SnapshotType
           /\ x.batch[x.pos].id \in Ids /\ x.batch[x.pos].attempts \in 0..(MaxAttempts - 1)
           /\ x.pc = "emit" => x.ev \in 1..Events[x.batch[x.pos].id]
<1>1. x.batch \in Seq(SnapshotType) /\ x.pos \in Nat \ {0} /\ x.pos <= Len(x.batch)
  BY DEF LoopType, Promise, MidRow
<1>2. x.pos \in DOMAIN x.batch /\ x.batch[x.pos] \in SnapshotType
  BY <1>1
<1> QED
  BY <1>2 DEF SnapshotType, Promise

(* Rows come and costs rise, the loop stays where it is.                   *)
LEMMA WorkFrame ==
    ASSUME NEW x \in LoopType, NEW t \in Tables, NEW u \in Tables, NEW e, NEW c \in Nat, NEW d \in Nat,
           e \in [Slots -> Nat], Promise(x, e), Work(x, t, e, c), c <= d,
           \A i \in Ids : IF t[i].present THEN u[i] = t[i]
                          ELSE t[i].attempts = 0 /\ ~t[i].processed
    PROVE  Work(x, u, e, d)
<1>0. \A i \in Ids : \A k \in 1..Events[i] : e[<<i, k>>] \in Nat
  BY DEF Slots
<1>1. \A i \in Ids : /\ t[i].attempts \in Nat /\ u[i].attempts \in Nat
                     /\ t[i].attempts <= u[i].attempts /\ (t[i].processed => u[i].processed)
  BY DEF Tables, RowType
<1>2. Fresh(x, u)
  <2>1. x.batch \in Seq(SnapshotType)
    BY DEF LoopType
  <2>2. \A k \in DOMAIN x.batch : x.batch[k] \in SnapshotType
    BY <2>1
  <2>3. \A k \in DOMAIN x.batch : x.batch[k].id \in Ids
    BY <2>2 DEF SnapshotType
  <2> QED
    BY <2>3 DEF Work, Fresh
<1>3. RepeatsPaid(x, u, e, d)
  <2> SUFFICES ASSUME NEW i \in Ids, NEW k \in 1..Events[i]
               PROVE  e[<<i, k>>] <= u[i].attempts + d + Credit(x, u, i, k)
    BY DEF RepeatsPaid
  <2>1. e[<<i, k>>] <= t[i].attempts + c + Credit(x, t, i, k)
    BY DEF Work, RepeatsPaid
  <2>2. t[i].processed => u[i].processed
    BY <1>1
  <2>3. Credit(x, t, i, k) \in Nat /\ Credit(x, u, i, k) \in Nat /\ Credit(x, t, i, k) <= Credit(x, u, i, k)
    BY <2>2 DEF Credit
  <2> QED
    BY <1>0, <1>1, <2>1, <2>3
<1> QED
  BY <1>2, <1>3 DEF Work

(* The cycle ends, paid for if it ends in the middle of a row.             *)
LEMMA WorkEnds ==
    ASSUME NEW x \in LoopType, NEW y, NEW t \in Tables, NEW u \in Tables, NEW e, NEW c \in Nat, NEW d \in Nat,
           e \in [Slots -> Nat], Work(x, t, e, c), y.pc \notin Working,
           c <= d, x.pc \in MidRow => c < d,
           \A i \in Ids : t[i].attempts <= u[i].attempts /\ (t[i].processed => u[i].processed)
    PROVE  Work(y, u, e, d)
<1>0. \A i \in Ids : \A k \in 1..Events[i] : e[<<i, k>>] \in Nat
  BY DEF Slots
<1>1. \A i \in Ids : t[i].attempts \in Nat /\ u[i].attempts \in Nat
  BY DEF Tables, RowType
<1>2. RepeatsPaid(y, u, e, d)
  <2> SUFFICES ASSUME NEW i \in Ids, NEW k \in 1..Events[i]
               PROVE  e[<<i, k>>] <= u[i].attempts + d + Credit(y, u, i, k)
    BY DEF RepeatsPaid
  <2>1. e[<<i, k>>] <= t[i].attempts + c + Credit(x, t, i, k)
    BY DEF Work, RepeatsPaid
  <2>2. t[i].processed => u[i].processed
    BY <1>1
  <2>3. Credit(x, t, i, k) \in {0, 1} /\ Credit(y, u, i, k) \in {0, 1}
    BY DEF Credit
  <2>4. CASE x.pc \in MidRow
    BY <1>0, <1>1, <2>1, <2>3, <2>4
  <2>5. CASE x.pc \notin MidRow
    <3>1. Credit(x, t, i, k) <= Credit(y, u, i, k)
      BY <2>2, <2>5 DEF Credit, Spent
    <3> QED
      BY <1>0, <1>1, <2>1, <2>3, <3>1
  <2> QED
    BY <2>4, <2>5
<1> QED
  BY <1>2 DEF Work, Fresh, FailureCounts, Descend, Working

(* The loop turns to a row of its batch.                                   *)
LEMMA WorkTurns ==
    ASSUME NEW x \in LoopType, NEW y \in LoopType, NEW t \in Tables, NEW e, NEW c \in Nat,
           e \in [Slots -> Nat], Work(x, t, e, c), x.pc = "rows", x.pos <= Len(x.batch),
           y.batch = x.batch, y.pos = x.pos,
           \/ y.pc = "failed" /\ y.markTo \in {MaxAttempts, x.batch[x.pos].attempts + 1}
           \/ y.pc = "done" /\ Events[x.batch[x.pos].id] = 0
           \/ y.pc = "emit" /\ y.ev = 1
    PROVE  Work(y, t, e, c)
<1>1. \A i \in Ids : t[i].attempts \in Nat
  BY DEF Tables, RowType
<1>2. \A i \in Ids : \A k \in 1..Events[i] : e[<<i, k>>] \in Nat
  BY DEF Slots
<1>3. x.batch[x.pos].attempts \in 0..(MaxAttempts - 1)
  <2>1. x.batch \in Seq(SnapshotType) /\ x.pos \in Nat \ {0}
    BY DEF LoopType
  <2>2. x.batch[x.pos] \in SnapshotType
    BY <2>1
  <2> QED
    BY <2>2 DEF SnapshotType
<1>4. Fresh(y, t)
  BY DEF Work, Fresh, Working
<1>5. FailureCounts(y)
  <2>1. MaxAttempts > x.batch[x.pos].attempts /\ x.batch[x.pos].attempts + 1 > x.batch[x.pos].attempts
    BY <1>3, OutboxAssumption, SMTT(30)
  <2> QED
    BY <2>1 DEF FailureCounts
<1>6. RepeatsPaid(y, t, e, c)
  <2> SUFFICES ASSUME NEW i \in Ids, NEW k \in 1..Events[i]
               PROVE  e[<<i, k>>] <= t[i].attempts + c + Credit(y, t, i, k)
    BY DEF RepeatsPaid
  <2>1. e[<<i, k>>] <= t[i].attempts + c + Credit(x, t, i, k)
    BY DEF Work, RepeatsPaid
  <2>2. Credit(x, t, i, k) \in {0, 1} /\ Credit(y, t, i, k) \in {0, 1}
    BY DEF Credit
  <2>3. Credit(x, t, i, k) <= Credit(y, t, i, k)
    BY DEF Credit, Spent, MidRow
  <2> QED
    BY <1>1, <1>2, <2>1, <2>2, <2>3
<1>7. Descend(y, e)
  BY DEF Work, Descend
<1> QED
  BY <1>4, <1>5, <1>6, <1>7 DEF Work

(* A batch is read.                                                        *)
LEMMA WorkReads ==
    ASSUME TypeOK, NEW x \in LoopType, NEW y, NEW c \in Nat, Work(x, rows, emits, c),
           x.pc = "query", y.pc = "rows", y.pos = 1, NEW b \in pendingResults, y.batch = b
    PROVE  Work(y, rows, emits, c)
<1> DEFINE eligible == {i \in Ids : Pending(i)}
           n == IF Cardinality(eligible) < BatchSize THEN Cardinality(eligible) ELSE BatchSize
<1>1. n \in Nat
  <2>1. IsFiniteSet(eligible)
    BY FS_Subset, OutboxAssumption
  <2> QED
    BY <2>1, FS_CardinalityType, OutboxAssumption
<1> HIDE DEF n
<1>2. PICK s \in [1..n -> eligible] :
         /\ b = [k \in 1..n |-> [id |-> s[k], attempts |-> rows[s[k]].attempts]]
         /\ \A k \in 1..n : \A j \in 1..(k - 1) : s[j] # s[k]
  BY DEF pendingResults, n
<1>3. DOMAIN b = 1..n /\ \A k \in 1..n : b[k].id = s[k] /\ b[k].attempts = rows[s[k]].attempts
  BY <1>2
<1>4. \A j, k \in 1..n : s[j] = s[k] => j = k
  <2> SUFFICES ASSUME NEW j \in 1..n, NEW k \in 1..n, j < k PROVE s[j] # s[k]
    BY <1>1
  <2>1. j \in 1..(k - 1)
    BY <1>1
  <2> QED
    BY <1>2, <2>1
<1>5. Fresh(y, rows)
  BY <1>2, <1>3, <1>4 DEF Fresh, Pending
<1>6. RepeatsPaid(y, rows, emits, c)
  BY DEF Work, RepeatsPaid, Credit, Spent, MidRow
<1> QED
  BY <1>5, <1>6 DEF Work, FailureCounts, Descend

(* An event goes out.                                                      *)
LEMMA WorkEmits ==
    ASSUME NEW x \in LoopType, NEW y, NEW t \in Tables, NEW e \in [Slots -> Nat], NEW f, NEW c \in Nat,
           Promise(x, e), Work(x, t, e, c), x.pc = "emit",
           y.batch = x.batch, y.pos = x.pos, y.ev = x.ev + 1,
           y.pc = IF x.ev < Events[x.batch[x.pos].id] THEN "emit" ELSE "done",
           f = [e EXCEPT ![<<x.batch[x.pos].id, x.ev>>] = @ + 1]
    PROVE  Work(y, t, f, c)
<1> DEFINE r == x.batch[x.pos].id
<1>0. \A i \in Ids : Events[i] \in Nat
  BY OutboxAssumption
<1>1. x.pos \in DOMAIN x.batch /\ r \in Ids /\ x.ev \in 1..Events[r] /\ x.ev \in Nat
  BY <1>0, MidRowFacts DEF MidRow
<1>2. \A i \in Ids : \A k \in 1..Events[i] : <<i, k>> \in Slots /\ e[<<i, k>>] \in Nat
  BY DEF Slots
<1>3. \A i \in Ids : \A k \in 1..Events[i] :
         f[<<i, k>>] = IF i = r /\ k = x.ev THEN e[<<i, k>>] + 1 ELSE e[<<i, k>>]
  BY <1>2
<1>4. ~t[r].processed
  BY <1>1 DEF Work, Fresh, Working, LoopType
<1>5. y.batch[y.pos].id = r
  OBVIOUS
<1> HIDE DEF r
<1>6. Fresh(y, t)
  BY DEF Work, Fresh, Working
<1>7. FailureCounts(y)
  BY DEF FailureCounts
<1>8. RepeatsPaid(y, t, f, c)
  <2> SUFFICES ASSUME NEW i \in Ids, NEW k \in 1..Events[i]
               PROVE  f[<<i, k>>] <= t[i].attempts + c + Credit(y, t, i, k)
    BY DEF RepeatsPaid
  <2>1. /\ e[<<i, k>>] <= t[i].attempts + c + Credit(x, t, i, k)
        /\ e[<<i, k>>] \in Nat /\ t[i].attempts \in Nat /\ k \in Nat
    BY <1>0, <1>2 DEF Work, RepeatsPaid, Tables, RowType
  <2>2. CASE i = r /\ k = x.ev
    <3>1. Credit(x, t, i, k) = 0 /\ Credit(y, t, i, k) = 1
      BY <1>1, <1>4, <1>5, <2>2 DEF Credit, Spent, MidRow
    <3> QED
      BY <1>3, <2>1, <2>2, <3>1
  <2>3. CASE ~(i = r /\ k = x.ev)
    <3>1. Credit(x, t, i, k) \in {0, 1} /\ Credit(y, t, i, k) \in {0, 1}
      BY DEF Credit
    <3>2. Spent(x, i, k) => Spent(y, i, k)
      BY <1>1, <1>5, <2>1 DEF Spent, MidRow
    <3>3. Credit(x, t, i, k) <= Credit(y, t, i, k)
      BY <3>2 DEF Credit
    <3> QED
      BY <1>3, <2>1, <2>3, <3>1, <3>3
  <2> QED
    BY <2>2, <2>3
<1>9. Descend(y, f)
  <2>1. \A j, k \in 1..Events[r] : j < x.ev /\ x.ev <= k => e[<<r, k>>] < e[<<r, j>>]
    BY DEF Work, Descend, r
  <2>2. \A i \in Ids : \A j, k \in 1..Events[i] : j <= k => e[<<i, k>>] <= e[<<i, j>>]
    BY DEF Work, Descend
  <2>3. ASSUME NEW i \in Ids, NEW j \in 1..Events[i], NEW k \in 1..Events[i], j <= k
        PROVE  f[<<i, k>>] <= f[<<i, j>>]
    <3>1. /\ e[<<i, k>>] \in Nat /\ e[<<i, j>>] \in Nat /\ e[<<i, k>>] <= e[<<i, j>>]
          /\ j \in Nat /\ k \in Nat
      BY <1>0, <1>2, <2>2, <2>3
    <3>2. CASE i = r /\ k = x.ev /\ j < k
      BY <1>1, <1>3, <2>1, <3>1, <3>2
    <3>3. CASE ~(i = r /\ k = x.ev /\ j < k)
      BY <1>3, <2>3, <3>1, <3>3
    <3> QED
      BY <3>2, <3>3
  <2>4. ASSUME NEW j \in 1..Events[r], NEW k \in 1..Events[r], j < x.ev + 1, x.ev + 1 <= k
        PROVE  f[<<r, k>>] < f[<<r, j>>]
    <3>1. /\ e[<<r, k>>] \in Nat /\ e[<<r, j>>] \in Nat /\ j \in Nat /\ k \in Nat
          /\ f[<<r, k>>] = e[<<r, k>>]
      BY <1>0, <1>1, <1>2, <1>3, <2>4
    <3>2. CASE j = x.ev
      BY <1>1, <1>3, <2>2, <2>4, <3>1, <3>2
    <3>3. CASE j < x.ev
      BY <1>1, <1>3, <2>1, <2>4, <3>1, <3>3
    <3> QED
      BY <1>1, <2>4, <3>1, <3>2, <3>3
  <2> QED
    BY <1>5, <2>3, <2>4 DEF Descend
<1> QED
  BY <1>6, <1>7, <1>8, <1>9 DEF Work

(* emit() rejects.                                                         *)
LEMMA WorkThrows ==
    ASSUME NEW x \in LoopType, NEW y, NEW t \in Tables, NEW e \in [Slots -> Nat], NEW c \in Nat,
           Promise(x, e), Work(x, t, e, c), x.pc = "emit",
           y.batch = x.batch, y.pos = x.pos, y.pc = "failed", y.markTo = x.batch[x.pos].attempts + 1
    PROVE  Work(y, t, e, c)
<1>1. x.batch[x.pos].attempts \in Nat
  BY OutboxAssumption, MidRowFacts DEF MidRow
<1>2. Fresh(y, t)
  BY DEF Work, Fresh, Working
<1>3. FailureCounts(y)
  BY <1>1 DEF FailureCounts
<1>4. RepeatsPaid(y, t, e, c)
  <2> SUFFICES ASSUME NEW i \in Ids, NEW k \in 1..Events[i]
               PROVE  e[<<i, k>>] <= t[i].attempts + c + Credit(y, t, i, k)
    BY DEF RepeatsPaid
  <2>1. /\ e[<<i, k>>] <= t[i].attempts + c + Credit(x, t, i, k)
        /\ e[<<i, k>>] \in Nat /\ t[i].attempts \in Nat
    BY DEF Work, RepeatsPaid, Tables, RowType, Slots
  <2>2. Credit(x, t, i, k) \in {0, 1} /\ Credit(y, t, i, k) \in {0, 1}
    BY DEF Credit
  <2>3. Credit(x, t, i, k) <= Credit(y, t, i, k)
    BY DEF Credit, Spent, MidRow
  <2> QED
    BY <2>1, <2>2, <2>3
<1>5. Descend(y, e)
  BY DEF Work, Descend
<1> QED
  BY <1>2, <1>3, <1>4, <1>5 DEF Work

(* What a mark makes of the row under way: nothing it had is lost.         *)
Marked(x, t, u) ==
    \E v \in RowType :
        /\ u = [t EXCEPT ![x.batch[x.pos].id] = v] /\ v.present = t[x.batch[x.pos].id].present
        /\ \/ x.pc = "done" /\ v.processed /\ v.attempts = t[x.batch[x.pos].id].attempts
           \/ /\ x.pc = "failed" /\ v.attempts = x.markTo
              /\ v.processed = t[x.batch[x.pos].id].processed

(* What a mark changes, and what it leaves alone.                          *)
MarkedOne(x, t, u) ==
    /\ u \in Tables /\ \A i \in Ids : i # x.batch[x.pos].id => u[i] = t[i]
    /\ t[x.batch[x.pos].id].present /\ u[x.batch[x.pos].id].present
    /\ ~t[x.batch[x.pos].id].processed
    /\ t[x.batch[x.pos].id].attempts = x.batch[x.pos].attempts
    /\ \/ x.pc = "done" /\ u[x.batch[x.pos].id].processed
          /\ u[x.batch[x.pos].id].attempts = t[x.batch[x.pos].id].attempts
       \/ x.pc = "failed" /\ ~u[x.batch[x.pos].id].processed
          /\ u[x.batch[x.pos].id].attempts = x.markTo
          /\ x.markTo > t[x.batch[x.pos].id].attempts
    /\ \A i \in Ids : t[i].attempts <= u[i].attempts /\ (t[i].processed => u[i].processed)

LEMMA MarkFacts ==
    ASSUME NEW x \in LoopType, NEW t \in Tables, NEW e \in [Slots -> Nat], NEW c \in Nat,
           Promise(x, e), Work(x, t, e, c), NEW u, Marked(x, t, u)
    PROVE  MarkedOne(x, t, u)
<1> DEFINE r == x.batch[x.pos].id
<1>1. x.pc \in MidRow
  BY DEF Marked, MidRow
<1>2. x.pos \in DOMAIN x.batch /\ r \in Ids /\ x.pos \in Nat
  BY <1>1, MidRowFacts DEF LoopType
<1>3. t[r].present /\ ~t[r].processed /\ t[r].attempts = x.batch[x.pos].attempts
  BY <1>1, <1>2 DEF Work, Fresh, MidRow, Working
<1>4. x.pc = "failed" => x.markTo > t[r].attempts
  BY <1>3 DEF Work, FailureCounts
<1>5. PICK v \in RowType :
        /\ u = [t EXCEPT ![r] = v] /\ v.present = t[r].present
        /\ \/ x.pc = "done" /\ v.processed /\ v.attempts = t[r].attempts
           \/ x.pc = "failed" /\ v.attempts = x.markTo /\ v.processed = t[r].processed
  BY DEF Marked
<1> HIDE DEF r
<1>6. u \in Tables /\ u[r] = v /\ \A i \in Ids : i # r => u[i] = t[i]
  BY <1>2, <1>5 DEF Tables
<1>7. \A i \in Ids : t[i].attempts \in Nat /\ u[i].attempts \in Nat
  BY <1>6 DEF Tables, RowType
<1>8. t[r].attempts <= u[r].attempts
  BY <1>2, <1>4, <1>5, <1>6, <1>7
<1>9. \A i \in Ids : t[i].attempts <= u[i].attempts /\ (t[i].processed => u[i].processed)
  BY <1>3, <1>6, <1>7, <1>8
<1> QED
  BY <1>3, <1>4, <1>5, <1>6, <1>9 DEF r, MarkedOne

(* A row is marked, and the next one comes up.                             *)
LEMMA WorkMarks ==
    ASSUME NEW x \in LoopType, NEW y, NEW t \in Tables, NEW e \in [Slots -> Nat], NEW c \in Nat,
           Promise(x, e), Work(x, t, e, c), NEW u, Marked(x, t, u),
           y.batch = x.batch, y.pos = x.pos + 1, y.pc = "rows"
    PROVE  Work(y, u, e, c)
<1> DEFINE r == x.batch[x.pos].id
<1>0. MarkedOne(x, t, u)
  BY MarkFacts
<1>1. x.pc \in {"done", "failed"}
  BY DEF Marked
<1>2. x.pos \in DOMAIN x.batch /\ r \in Ids /\ x.pos \in Nat /\ x.batch \in Seq(SnapshotType)
  BY <1>1, MidRowFacts DEF LoopType, MidRow
<1>3. Fresh(y, u)
  <2>1. ASSUME NEW k \in DOMAIN x.batch, k >= x.pos + 1
        PROVE  /\ u[x.batch[k].id].present /\ ~u[x.batch[k].id].processed
               /\ u[x.batch[k].id].attempts = x.batch[k].attempts
    <3>1. x.batch[k] \in SnapshotType /\ k \in Nat
      BY <1>2
    <3>2. x.batch[k].id \in Ids
      BY <3>1 DEF SnapshotType
    <3>3. x.batch[k].id # r /\ k >= x.pos
      BY <1>1, <1>2, <2>1, <3>1 DEF Work, Fresh, Working
    <3>4. u[x.batch[k].id] = t[x.batch[k].id]
      BY <1>0, <3>2, <3>3 DEF MarkedOne
    <3> QED
      BY <1>1, <3>3, <3>4 DEF Work, Fresh, Working
  <2> QED
    BY <1>1, <2>1 DEF Work, Fresh, Working
<1>4. RepeatsPaid(y, u, e, c)
  <2> SUFFICES ASSUME NEW i \in Ids, NEW k \in 1..Events[i]
               PROVE  e[<<i, k>>] <= u[i].attempts + c + Credit(y, u, i, k)
    BY DEF RepeatsPaid
  <2>1. /\ e[<<i, k>>] <= t[i].attempts + c + Credit(x, t, i, k)
        /\ e[<<i, k>>] \in Nat /\ t[i].attempts \in Nat
    BY DEF Work, RepeatsPaid, Tables, RowType, Slots
  <2>2. u \in Tables /\ Credit(x, t, i, k) \in {0, 1} /\ Credit(y, u, i, k) \in {0, 1}
    BY <1>0 DEF MarkedOne, Credit
  <2>3. u[i].attempts \in Nat
    BY <2>2 DEF Tables, RowType
  <2>4. CASE i # r
    <3>1. u[i] = t[i]
      BY <1>0, <2>4 DEF MarkedOne
    <3>2. Credit(x, t, i, k) <= Credit(y, u, i, k)
      BY <2>4, <3>1 DEF Credit, Spent
    <3> QED
      BY <2>1, <2>2, <2>3, <3>1, <3>2
  <2>5. CASE i = r /\ x.pc = "done"
    <3>1. Credit(y, u, i, k) = 1 /\ u[i].attempts = t[i].attempts
      BY <1>0, <2>5 DEF MarkedOne, Credit
    <3> QED
      BY <2>1, <2>2, <2>3, <3>1
  <2>6. CASE i = r /\ x.pc = "failed"
    <3>1. u[i].attempts > t[i].attempts
      BY <1>0, <2>6 DEF MarkedOne
    <3> QED
      BY <2>1, <2>2, <2>3, <3>1
  <2> QED
    BY <1>1, <2>4, <2>5, <2>6
<1> QED
  BY <1>3, <1>4 DEF Work, FailureCounts, Descend

-----------------------------------------------------------------------------
(* The work of the one chain is preserved.                                 *)
LEMMA WorkInit == Init => WorkInv
<1> SUFFICES ASSUME Init PROVE WorkInv
  OBVIOUS
<1>1. AbsentIsNew
  BY DEF Init, AbsentIsNew, NoRow
<1>2. ASSUME NEW l \in Loops PROVE Work(loop[l], rows, emits, crashes + dbFaults)
  <2>1. loop[l].pc = "free"
    BY DEF Init, FreeLoop
  <2>2. RepeatsPaid(loop[l], rows, emits, crashes + dbFaults)
    BY <2>1 DEF Init, RepeatsPaid, Credit, Spent, MidRow, NoRow, Slots
  <2>3. Descend(loop[l], emits)
    <3>1. \A i \in Ids : \A j \in 1..Events[i] : emits[<<i, j>>] = 0
      BY DEF Init, Slots
    <3> QED
      BY <2>1, <3>1 DEF Descend
  <2> QED
    BY <2>1, <2>2, <2>3 DEF Work, Fresh, FailureCounts, Working
<1> QED
  BY <1>1, <1>2 DEF WorkInv

(* What the two updates of a row are.                                      *)
LEMMA UpdatesMark ==
    ASSUME IInv, NEW l \in Loops,
           \/ loop[l].pc = "done" /\ markProcessed(Row(l).id)
           \/ loop[l].pc = "failed" /\ markFailed(Row(l).id, loop[l].markTo)
    PROVE  Marked(loop[l], rows, rows')
<1>0. /\ loop[l] \in LoopType /\ rows \in [Ids -> RowType] /\ Promise(loop[l], emits)
      /\ loop[l].markTo \in 0..MaxAttempts
  BY DEF IInv, TypeOK, CycleInv, LoopType
<1>1. Row(l).id \in Ids /\ Row(l) = loop[l].batch[loop[l].pos]
  BY <1>0, MidRowFacts DEF Row, MidRow
<1>2. rows[Row(l).id] \in RowType
  BY <1>0, <1>1
<1>3. CASE loop[l].pc = "done" /\ markProcessed(Row(l).id)
  <2> DEFINE v == [rows[Row(l).id] EXCEPT !.processed = TRUE]
  <2>1. /\ v \in RowType /\ v.processed /\ v.present = rows[Row(l).id].present
        /\ v.attempts = rows[Row(l).id].attempts
    BY <1>2 DEF RowType
  <2>2. rows' = [rows EXCEPT ![Row(l).id] = v]
    BY <1>3 DEF markProcessed
  <2> HIDE DEF v
  <2> QED
    BY <1>1, <1>3, <2>1, <2>2 DEF Marked
<1>4. CASE loop[l].pc = "failed" /\ markFailed(Row(l).id, loop[l].markTo)
  <2> DEFINE v == [rows[Row(l).id] EXCEPT !.attempts = loop[l].markTo]
  <2>1. /\ v \in RowType /\ v.attempts = loop[l].markTo /\ v.present = rows[Row(l).id].present
        /\ v.processed = rows[Row(l).id].processed
    BY <1>0, <1>2 DEF RowType
  <2>2. rows' = [rows EXCEPT ![Row(l).id] = v]
    BY <1>4 DEF markFailed
  <2> HIDE DEF v
  <2> QED
    BY <1>1, <1>4, <2>1, <2>2 DEF Marked
<1> QED
  BY <1>3, <1>4

(* What insert() does.                                                     *)
LEMMA InsertGrows ==
    ASSUME TypeOK, AbsentIsNew, NEW i \in Ids, NEW t \in Nat, insert(i, t)
    PROVE  /\ AbsentIsNew'
           /\ \A j \in Ids : IF rows[j].present THEN rows'[j] = rows[j]
                             ELSE rows[j].attempts = 0 /\ ~rows[j].processed
<1>1. CASE rows[i].present
  BY <1>1 DEF insert, AbsentIsNew
<1>2. CASE ~rows[i].present
  <2>1. \A j \in Ids : IF j = i THEN rows'[j] = NewRow(t) ELSE rows'[j] = rows[j]
    BY <1>2 DEF insert, TypeOK
  <2> QED
    BY <1>2, <2>1 DEF AbsentIsNew, NewRow
<1> QED
  BY <1>1, <1>2

(* The row a request inserts, and when it came.                            *)
LEMMA NextInsert ==
    ASSUME TypeOK, NEW r \in Requests, request[r].pos <= Len(request[r].body)
    PROVE  request[r].body[request[r].pos] \in Ids /\ request[r].receivedAt \in Nat
<1>1. request[r] \in RequestType
  BY DEF TypeOK
<1>2. request[r].body \in Seq(Ids) /\ request[r].pos \in Nat \ {0} /\ request[r].receivedAt \in Nat
  BY <1>1 DEF RequestType
<1> QED
  BY <1>2

LEMMA NatSum ==
    ASSUME NEW m \in Nat, NEW n \in Nat
    PROVE  m + n \in Nat
  OBVIOUS

LEMMA WorkStep ==
    ASSUME IInv, IInv', WorkInv, NEW l, Loops = {l}, [Next]_vars
    PROVE  WorkInv'
<1> DEFINE x == loop[l]
           y == loop'[l]
           c == crashes + dbFaults
           d == crashes' + dbFaults'
<1>0. /\ TypeOK /\ AbsentIsNew /\ Work(x, rows, emits, c) /\ Promise(x, emits)
      /\ x \in LoopType /\ y \in LoopType /\ loop \in [Loops -> LoopType]
      /\ rows \in Tables /\ rows' \in Tables
      /\ emits \in [Slots -> Nat] /\ emits' \in [Slots -> Nat]
      /\ crashes \in Nat /\ dbFaults \in Nat /\ crashes' \in Nat /\ dbFaults' \in Nat
  BY DEF IInv, TypeOK, CycleInv, WorkInv, Tables
<1>1. c \in Nat /\ d \in Nat
  BY <1>0, NatSum
<1>2. ASSUME AbsentIsNew', Work(y, rows', emits', d) PROVE WorkInv'
  BY <1>2 DEF WorkInv
<1> HIDE DEF c, d
<1>3. ASSUME UNCHANGED <<loop, emits>>, c <= d, AbsentIsNew',
             \A i \in Ids : IF rows[i].present THEN rows'[i] = rows[i]
                            ELSE rows[i].attempts = 0 /\ ~rows[i].processed
      PROVE  WorkInv'
  BY <1>0, <1>1, <1>2, <1>3, WorkFrame
<1>4. ASSUME UNCHANGED <<rows, emits>>, y.pc \notin Working, c <= d, x.pc \in MidRow => c < d
      PROVE  WorkInv'
  <2>1. \A i \in Ids : rows[i].attempts \in Nat
    BY <1>0 DEF Tables, RowType
  <2>2. \A i \in Ids : rows[i].attempts <= rows'[i].attempts
                       /\ (rows[i].processed => rows'[i].processed)
    BY <1>4, <2>1
  <2> QED
    BY <1>0, <1>1, <1>2, <1>4, <2>2, WorkEnds DEF AbsentIsNew
<1>5. ASSUME NEW r \in Requests, Receiver(r) PROVE WorkInv'
  <2>1. UNCHANGED <<loop, emits>> /\ c <= d
    BY <1>0, <1>5 DEF Receiver, Deliver, RejectSaturated, InsertNext, InsertThrows, Respond,
       drainerVars, c, d
  <2>2. CASE UNCHANGED rows
    BY <1>0, <1>3, <2>1, <2>2 DEF AbsentIsNew
  <2>3. ASSUME NEW i \in Ids, NEW t \in Nat, insert(i, t) PROVE WorkInv'
    BY <1>0, <1>3, <2>1, <2>3, InsertGrows
  <2>4. UNCHANGED rows \/ \E i \in Ids : \E t \in Nat : insert(i, t)
    <3>1. CASE InsertNext(r) \/ InsertThrows(r)
      <4>1. request[r].pos <= Len(request[r].body)
        BY <3>1 DEF InsertNext, InsertThrows
      <4> QED
        BY <1>0, <3>1, <4>1, NextInsert DEF InsertNext, InsertThrows
    <3>2. CASE ~(InsertNext(r) \/ InsertThrows(r))
      BY <1>5, <3>2 DEF Receiver, Deliver, RejectSaturated, Respond, tableVars
    <3> QED
      BY <3>1, <3>2
  <2> QED
    BY <2>2, <2>3, <2>4
<1>6. ASSUME EndCycle(l) PROVE y.pc \notin Working
  BY <1>0, <1>6 DEF EndCycle, FreeLoop, Working
<1>7. CASE Start(l) \/ DrainOnce(l) \/ RunCycle(l)
  <2>1. UNCHANGED <<rows, emits>> /\ c = d /\ x.pc \notin MidRow
    BY <1>7 DEF Start, DrainOnce, RunCycle, tableVars, c, d, MidRow
  <2>2. y.pc \notin Working
    <3>1. CASE Start(l)
      BY <1>0, <3>1 DEF Start, Working, LoopType
    <3>2. CASE DrainOnce(l)
      BY <1>0, <3>2 DEF DrainOnce, Working, LoopType
    <3>3. CASE RunCycle(l)
      BY <1>0, <3>3 DEF RunCycle, FreeLoop, Working, LoopType
    <3> QED
      BY <1>7, <3>1, <3>2, <3>3
  <2> QED
    BY <1>1, <1>4, <2>1, <2>2
<1>8. ASSUME NEW b \in pendingResults, Query(l, b) PROVE WorkInv'
  <2>1. UNCHANGED <<rows, emits>> /\ c = d
    BY <1>8 DEF Query, tableVars, c, d
  <2>2. x.pc = "query" /\ y.pc = "rows" /\ y.pos = 1 /\ y.batch = b
    BY <1>0, <1>8 DEF Query, LoopType
  <2> QED
    BY <1>0, <1>1, <1>2, <2>1, <2>2, WorkReads DEF AbsentIsNew
<1>9. CASE NextRow(l)
  <2>1. x.pos \in Nat /\ Len(x.batch) \in Nat
    BY <1>0 DEF LoopType
  <2>2. CASE x.pos > Len(x.batch) \/ stopRequested
    <3>1. UNCHANGED <<rows, emits>> /\ c = d /\ x.pc \notin MidRow /\ EndCycle(l)
      BY <1>9, <2>2 DEF NextRow, tableVars, c, d, MidRow
    <3> QED
      BY <1>1, <1>4, <1>6, <3>1
  <2>3. CASE ~(x.pos > Len(x.batch) \/ stopRequested)
    <3>1. x.pos <= Len(x.batch) /\ ~stopRequested
      BY <2>1, <2>3
    <3>2. /\ UNCHANGED <<rows, emits>> /\ c = d /\ x.pc = "rows"
          /\ y.batch = x.batch /\ y.pos = x.pos
          /\ \/ y.pc = "failed" /\ y.markTo \in {MaxAttempts, x.batch[x.pos].attempts + 1}
             \/ y.pc = "done" /\ Events[x.batch[x.pos].id] = 0
             \/ y.pc = "emit" /\ y.ev = 1
      BY <1>0, <1>9, <3>1, NextRowFacts DEF Row, c, d
    <3> QED
      BY <1>0, <1>1, <1>2, <3>1, <3>2, WorkTurns DEF AbsentIsNew
  <2> QED
    BY <2>2, <2>3
<1>10. CASE Emit(l)
  <2>1. /\ UNCHANGED rows /\ c = d /\ x.pc = "emit" /\ y.batch = x.batch /\ y.pos = x.pos
        /\ y.ev = x.ev + 1
        /\ y.pc = IF x.ev < Events[x.batch[x.pos].id] THEN "emit" ELSE "done"
        /\ emits' = [emits EXCEPT ![<<x.batch[x.pos].id, x.ev>>] = @ + 1]
    BY <1>0, <1>10 DEF Emit, Row, LoopType, tableVars, c, d
  <2> QED
    BY <1>0, <1>1, <1>2, <2>1, WorkEmits DEF AbsentIsNew
<1>11. CASE EmitThrows(l)
  <2>1. /\ UNCHANGED <<rows, emits>> /\ c = d /\ x.pc = "emit" /\ y.batch = x.batch /\ y.pos = x.pos
        /\ y.pc = "failed" /\ y.markTo = x.batch[x.pos].attempts + 1
    BY <1>0, <1>11 DEF EmitThrows, Row, LoopType, tableVars, c, d
  <2> QED
    BY <1>0, <1>1, <1>2, <2>1, WorkThrows DEF AbsentIsNew
<1>12. ASSUME Marked(x, rows, rows') PROVE AbsentIsNew'
  <2>1. MarkedOne(x, rows, rows')
    BY <1>0, <1>1, <1>12, MarkFacts
  <2> QED
    BY <1>0, <1>1, <1>12, <2>1 DEF MarkedOne, AbsentIsNew
<1>13. CASE MarkProcessed(l) \/ MarkFailed(l)
  <2>1. /\ emits' = emits /\ c = d /\ y.batch = x.batch /\ y.pos = x.pos + 1 /\ y.pc = "rows"
    BY <1>0, <1>13 DEF MarkProcessed, MarkFailed, LoopType, c, d
  <2>2. Marked(x, rows, rows')
    BY <1>13, UpdatesMark DEF MarkProcessed, MarkFailed
  <2> QED
    BY <1>0, <1>1, <1>2, <1>12, <2>1, <2>2, WorkMarks
<1>14. CASE DbThrows(l)
  <2>1. emits' = emits /\ c < d /\ y.pc \notin Working
    BY <1>0, <1>6, <1>14 DEF DbThrows, c, d
  <2>2. CASE UNCHANGED rows
    BY <1>1, <1>4, <2>1, <2>2
  <2>3. CASE Marked(x, rows, rows')
    <3>1. \A i \in Ids : rows[i].attempts <= rows'[i].attempts
                         /\ (rows[i].processed => rows'[i].processed)
      BY <1>0, <1>1, <2>3, MarkFacts DEF MarkedOne
    <3> QED
      BY <1>0, <1>1, <1>2, <1>12, <2>1, <2>3, <3>1, WorkEnds, SMTT(30)
  <2> QED
    BY <1>14, <2>2, <2>3, UpdatesMark DEF DbThrows
<1>15. CASE Crash
  <2>1. UNCHANGED <<rows, emits>> /\ c < d /\ y.pc \notin Working
    BY <1>0, <1>15 DEF Crash, tableVars, FreeLoop, Working, c, d
  <2> QED
    BY <1>1, <1>4, <2>1
<1>16. CASE Stop \/ Tick \/ UNCHANGED vars
  <2>1. UNCHANGED <<loop, rows, emits>> /\ c = d
    BY <1>16 DEF Stop, Tick, vars, tableVars, drainerVars, c, d
  <2> QED
    BY <1>0, <1>1, <1>3, <2>1 DEF AbsentIsNew
<1> QED
  BY <1>5, <1>7, <1>8, <1>9, <1>10, <1>11, <1>13, <1>14, <1>15, <1>16 DEF Next, LoopStep

-----------------------------------------------------------------------------
LEMMA OneLoopInit == Init => OneLoopInv
  BY InitIInv, PermitInit, ControlInit, WorkInit DEF OneLoopInv

LEMMA OneLoopStep ==
    ASSUME NEW l, Loops = {l}
    PROVE  OneLoopInv /\ [Next]_vars => OneLoopInv'
<1> SUFFICES ASSUME OneLoopInv, [Next]_vars PROVE OneLoopInv'
  OBVIOUS
<1>1. IInv'
  BY NextIInv DEF OneLoopInv
<1>2. PermitInv' /\ LoopControl'
  BY PermitStep, ControlStep DEF OneLoopInv, IInv
<1>3. WorkInv'
  BY <1>1, WorkStep DEF OneLoopInv
<1> QED
  BY <1>1, <1>2, <1>3 DEF OneLoopInv

LEMMA OneLoopIsSound ==
    ASSUME NEW l, Loops = {l}
    PROVE  OneLoopInv => ServiceIsSound
<1> SUFFICES ASSUME OneLoopInv PROVE ServiceIsSound
  OBVIOUS
<1>1. /\ rows \in Tables /\ emits \in [Slots -> Nat] /\ crashes \in Nat /\ dbFaults \in Nat
      /\ loop[l] \in LoopType
  BY DEF OneLoopInv, IInv, TypeOK, Tables
<1>2. EveryRepeatHasACause
  <2> SUFFICES ASSUME NEW i \in Ids, NEW k \in 1..Events[i]
               PROVE  emits[<<i, k>>] <= 1 + rows[i].attempts + crashes + dbFaults
    BY DEF EveryRepeatHasACause
  <2>1. emits[<<i, k>>] <= rows[i].attempts + (crashes + dbFaults) + Credit(loop[l], rows, i, k)
    BY DEF OneLoopInv, WorkInv, Work, RepeatsPaid
  <2>2. /\ Credit(loop[l], rows, i, k) \in {0, 1} /\ rows[i].attempts \in Nat
        /\ emits[<<i, k>>] \in Nat
    BY <1>1 DEF Credit, Tables, RowType, Slots
  <2> QED
    BY <1>1, <2>1, <2>2
<1>3. StopIsQuiet
  BY <1>1 DEF OneLoopInv, LoopControl, StopIsQuiet, Active, LoopType
<1> QED
  BY <1>2, <1>3 DEF OneLoopInv, PermitInv, ServiceIsSound

(* With one chain of timers each emission beyond the first is paid for by a*)
(* failed attempt, a crash or a database error; when the drainer is not    *)
(* running no cycle of a chain is under way; and permits come back         *)
(* (drainer.ts, http.ts).                                                  *)
THEOREM OneLoopService ==
    ASSUME NEW l, Loops = {l}
    PROVE  Spec => []ServiceIsSound
<1>1. OneLoopInv /\ [Next]_vars => OneLoopInv'
  BY OneLoopStep
<1>2. OneLoopInv => ServiceIsSound
  BY OneLoopIsSound
<1> QED
  BY <1>1, <1>2, OneLoopInit, PTL DEF Spec

-----------------------------------------------------------------------------
(* The delivery contract.                                                  *)
stages == [i \in Ids |-> Stage(i)]

(* A step that touches one row moves at most its stage.                    *)
LEMMA OneStageMoves ==
    ASSUME NEW r \in Ids, \A i \in Ids : i # r => rows'[i] = rows[i]
    PROVE  stages' = [stages EXCEPT ![r] = Stage(r)']
<1>1. \A i \in Ids : i # r => Stage(i)' = Stage(i)
  BY DEF Stage
<1> QED
  BY <1>1 DEF stages

LEMMA Stutters ==
    ASSUME UNCHANGED <<rows, emits>>
    PROVE  UNCHANGED Delivery!vars
  BY DEF Delivery!vars, Stage

LEMMA InsertAccepts ==
    ASSUME TypeOK, NEW i \in Ids, NEW t \in Nat, insert(i, t), emits' = emits
    PROVE  [Delivery!Next]_(Delivery!vars)
<1>1. CASE rows[i].present
  BY <1>1, Stutters DEF insert
<1>2. CASE ~rows[i].present
  <2>1. rows'[i] = NewRow(t) /\ \A j \in Ids : j # i => rows'[j] = rows[j]
    BY <1>2 DEF insert, TypeOK
  <2>2. Stage(i) = "absent" /\ Stage(i)' = "pending"
    BY <1>2, <2>1, OutboxAssumption DEF Stage, NewRow
  <2>3. stages[i] = "absent" /\ stages' = [stages EXCEPT ![i] = "pending"]
    BY <2>1, <2>2, OneStageMoves DEF stages
  <2>4. Delivery!Accept(i)
    BY <2>3 DEF Delivery!Accept, stages
  <2> QED
    BY <2>4 DEF Delivery!Next
<1> QED
  BY <1>1, <1>2

(* The row under way is pending.                                           *)
LEMMA MidRowIsPending ==
    ASSUME OneLoopInv, NEW l \in Loops, loop[l].pc \in MidRow
    PROVE  Row(l).id \in Ids /\ stages[Row(l).id] = "pending"
<1>0. /\ loop[l] \in LoopType /\ Promise(loop[l], emits) /\ Fresh(loop[l], rows)
      /\ Row(l) = loop[l].batch[loop[l].pos]
  BY DEF OneLoopInv, IInv, TypeOK, CycleInv, WorkInv, Work, Row
<1>1. /\ loop[l].pos \in DOMAIN loop[l].batch /\ Row(l).id \in Ids
      /\ Row(l).attempts \in 0..(MaxAttempts - 1) /\ loop[l].pos \in Nat
  BY <1>0, MidRowFacts DEF LoopType
<1>2. /\ rows[Row(l).id].present /\ ~rows[Row(l).id].processed
      /\ rows[Row(l).id].attempts = Row(l).attempts
  BY <1>0, <1>1, SMTT(30) DEF Fresh, MidRow, Working
<1>3. Stage(Row(l).id) = "pending"
  BY <1>1, <1>2, OutboxAssumption DEF Stage
<1> QED
  BY <1>1, <1>3 DEF stages

LEMMA MarkDelivers ==
    ASSUME OneLoopInv, NEW l \in Loops, Marked(loop[l], rows, rows'), emits' = emits
    PROVE  [Delivery!Next]_(Delivery!vars)
<1> DEFINE x == loop[l]
<1>0. /\ x \in LoopType /\ rows \in Tables /\ emits \in [Slots -> Nat] /\ Promise(x, emits)
      /\ crashes + dbFaults \in Nat /\ Work(x, rows, emits, crashes + dbFaults)
      /\ Row(l).id = x.batch[x.pos].id
  BY NatSum DEF OneLoopInv, IInv, TypeOK, CycleInv, WorkInv, Tables, Row
<1>1. x.pc \in {"done", "failed"}
  BY DEF Marked
<1>2. PICK r \in Ids : r = Row(l).id /\ stages[r] = "pending"
  BY <1>1, MidRowIsPending DEF MidRow
<1>3. /\ rows' \in Tables /\ rows[r].present /\ rows'[r].present /\ ~rows[r].processed
      /\ \A i \in Ids : i # r => rows'[i] = rows[i]
      /\ x.pc = "done" => rows'[r].processed
      /\ x.pc = "failed" => ~rows'[r].processed
  <2>1. r = x.batch[x.pos].id
    BY <1>0, <1>2
  <2>2. PICK c \in Nat : Work(x, rows, emits, c)
    BY <1>0
  <2> HIDE DEF x
  <2>3. Marked(x, rows, rows')
    BY DEF x
  <2>4. /\ rows' \in Tables /\ \A i \in Ids : i # x.batch[x.pos].id => rows'[i] = rows[i]
        /\ rows[x.batch[x.pos].id].present /\ rows'[x.batch[x.pos].id].present
        /\ ~rows[x.batch[x.pos].id].processed
        /\ \/ x.pc = "done" /\ rows'[x.batch[x.pos].id].processed
           \/ x.pc = "failed" /\ ~rows'[x.batch[x.pos].id].processed
    BY <1>0, <2>2, <2>3, MarkFacts DEF MarkedOne
  <2> QED
    BY <2>1, <2>4
<1>4. stages' = [stages EXCEPT ![r] = Stage(r)']
  BY <1>2, <1>3, OneStageMoves
<1>5. CASE x.pc = "done"
  <2>1. Stage(r)' = "delivered"
    BY <1>3, <1>5 DEF Stage
  <2>2. \A k \in 1..Events[r] : emits[<<r, k>>] > 0
    BY <1>0, <1>2, <1>5 DEF Promise
  <2>3. Delivery!Deliver(r)
    BY <1>2, <1>4, <2>1, <2>2 DEF Delivery!Deliver, stages
  <2> QED
    BY <1>2, <2>3 DEF Delivery!Next
<1>6. CASE x.pc = "failed"
  <2>1. CASE rows'[r].attempts >= MaxAttempts
    <3>1. Stage(r)' = "parked"
      BY <1>3, <1>6, <2>1 DEF Stage
    <3>2. Delivery!Park(r)
      BY <1>2, <1>4, <3>1 DEF Delivery!Park, stages
    <3> QED
      BY <1>2, <3>2 DEF Delivery!Next
  <2>2. CASE ~(rows'[r].attempts >= MaxAttempts)
    <3>1. Stage(r)' = "pending"
      BY <1>3, <1>6, <2>2 DEF Stage
    <3>2. stages' = stages
      BY <1>2, <1>4, <3>1 DEF stages
    <3> QED
      BY <3>2 DEF Delivery!vars, stages
  <2> QED
    BY <2>1, <2>2
<1> QED
  BY <1>1, <1>5, <1>6

LEMMA EmitGoesOut ==
    ASSUME OneLoopInv, NEW l \in Loops, Emit(l)
    PROVE  Delivery!Next
<1> DEFINE x == loop[l]
           r == Row(l).id
<1>0. /\ x \in LoopType /\ Promise(x, emits) /\ Descend(x, emits)
      /\ r = x.batch[x.pos].id /\ x.pc = "emit"
  BY DEF OneLoopInv, IInv, TypeOK, CycleInv, WorkInv, Work, Row, Emit
<1>1. r \in Ids /\ stages[r] = "pending"
  BY <1>0, MidRowIsPending DEF MidRow
<1>2. x.ev \in 1..Events[r] /\ x.ev \in Nat /\ Events[r] \in Nat
  BY <1>0, <1>1, MidRowFacts, OutboxAssumption DEF MidRow
<1>3. \A j \in 1..(x.ev - 1) : emits[<<r, j>>] > emits[<<r, x.ev>>]
  <2> SUFFICES ASSUME NEW j \in 1..(x.ev - 1) PROVE emits[<<r, j>>] > emits[<<r, x.ev>>]
    OBVIOUS
  <2>1. j \in 1..Events[r] /\ j < x.ev
    BY <1>2
  <2>2. <<r, j>> \in Slots /\ <<r, x.ev>> \in Slots
    BY <1>1, <1>2, <2>1 DEF Slots
  <2>3. emits[<<r, j>>] \in Nat /\ emits[<<r, x.ev>>] \in Nat
    BY <2>2 DEF OneLoopInv, IInv, TypeOK
  <2> QED
    <3>1. \A k \in 1..Events[r] : j < x.ev /\ x.ev <= k => emits[<<r, k>>] < emits[<<r, j>>]
      BY <1>0, <2>1 DEF Descend
    <3>2. emits[<<r, x.ev>>] < emits[<<r, j>>]
      BY <1>2, <2>1, <3>1
    <3> QED
      BY <2>3, <3>2
<1>4. emits' = [emits EXCEPT ![<<r, x.ev>>] = @ + 1] /\ rows' = rows
  BY DEF Emit, tableVars
<1>5. stages' = stages
  BY <1>4 DEF stages, Stage
<1> HIDE DEF r, x
<1>6. Delivery!Emit(r, x.ev)
  BY <1>1, <1>3, <1>4, <1>5 DEF Delivery!Emit, stages
<1> QED
  BY <1>1, <1>2, <1>6 DEF Delivery!Next

LEMMA StepRefines ==
    ASSUME NEW l, Loops = {l}, OneLoopInv, [Next]_vars
    PROVE  [Delivery!Next]_(Delivery!vars)
<1>0. TypeOK /\ IInv
  BY DEF OneLoopInv, IInv
<1>1. ASSUME NEW r \in Requests, Receiver(r) PROVE [Delivery!Next]_(Delivery!vars)
  <2>1. emits' = emits
    BY <1>1 DEF Receiver, Deliver, RejectSaturated, InsertNext, InsertThrows, Respond
  <2>2. UNCHANGED rows \/ \E i \in Ids : \E t \in Nat : insert(i, t)
    <3>1. CASE InsertNext(r) \/ InsertThrows(r)
      <4>1. request[r].pos <= Len(request[r].body)
        BY <3>1 DEF InsertNext, InsertThrows
      <4> QED
        BY <1>0, <3>1, <4>1, NextInsert DEF InsertNext, InsertThrows
    <3>2. CASE ~(InsertNext(r) \/ InsertThrows(r))
      BY <1>1, <3>2 DEF Receiver, Deliver, RejectSaturated, Respond, tableVars
    <3> QED
      BY <3>1, <3>2
  <2> QED
    BY <1>0, <2>1, <2>2, Stutters, InsertAccepts
<1>2. CASE MarkProcessed(l) \/ MarkFailed(l)
  <2>1. emits' = emits /\ Marked(loop[l], rows, rows')
    BY <1>0, <1>2, UpdatesMark DEF MarkProcessed, MarkFailed
  <2> QED
    BY <2>1, MarkDelivers
<1>3. CASE DbThrows(l)
  <2>1. emits' = emits /\ (UNCHANGED rows \/ Marked(loop[l], rows, rows'))
    BY <1>0, <1>3, UpdatesMark DEF DbThrows
  <2> QED
    BY <2>1, Stutters, MarkDelivers
<1>4. CASE Emit(l)
  BY <1>4, EmitGoesOut
<1>5. CASE Start(l) \/ DrainOnce(l) \/ RunCycle(l) \/ (\E b \in pendingResults : Query(l, b))
           \/ NextRow(l) \/ EmitThrows(l) \/ Stop \/ Tick \/ Crash \/ UNCHANGED vars
  <2>1. UNCHANGED <<rows, emits>>
    BY <1>5 DEF Start, DrainOnce, RunCycle, Query, NextRow, EmitThrows, Stop, Tick, Crash, vars, tableVars
  <2> QED
    BY <2>1, Stutters
<1> QED
  BY <1>1, <1>2, <1>3, <1>4, <1>5 DEF Next, LoopStep

LEMMA InitRefines == Init => Delivery!Init
<1> SUFFICES ASSUME Init PROVE Delivery!Init
  OBVIOUS
<1>1. \A i \in Ids : Stage(i) = "absent"
  BY DEF Init, Stage, NoRow
<1> QED
  BY <1>1 DEF Init, Delivery!Init, Slots

(* With one chain of timers the outbox implements the delivery contract:   *)
(* through any crashes, errors, stops and redeliveries nothing is emitted  *)
(* before its row is stored or after it is settled, and the events of a row*)
(* go out in order on every attempt.                                       *)
THEOREM OneLoopDelivers ==
    ASSUME NEW l, Loops = {l}
    PROVE  Spec => ImplementsDelivery
<1>1. OneLoopInv /\ [Next]_vars => OneLoopInv'
  BY OneLoopStep
<1>2. OneLoopInv /\ [Next]_vars => [Delivery!Next]_(Delivery!vars)
  BY StepRefines
<1> QED
  BY <1>1, <1>2, OneLoopInit, InitRefines, PTL DEF Spec, ImplementsDelivery, Delivery!Spec

-----------------------------------------------------------------------------
(* Processed rows, for any number of loops: rows in a batch and processed  *)
(* rows are in the table.                                                  *)
BatchIsStored == \A l \in Loops : \A k \in DOMAIN loop[l].batch : rows[loop[l].batch[k].id].present
ProcessedIsStored == \A i \in Ids : rows[i].processed => rows[i].present
StoredInv == BatchIsStored /\ ProcessedIsStored

(* Where the batch of a loop comes from.                                   *)
LEMMA BatchComesFrom ==
    ASSUME TypeOK, [Next]_vars, NEW m \in Loops
    PROVE  \/ loop'[m].batch = loop[m].batch \/ loop'[m].batch = <<>>
           \/ loop'[m].batch \in pendingResults /\ rows' = rows
<1>0. loop \in [Loops -> LoopType]
  BY DEF TypeOK
<1>1. CASE loop' = loop
  BY <1>1
<1>2. ASSUME NEW l \in Loops, EndCycle(l) PROVE loop'[m].batch \in {loop[m].batch, <<>>}
  BY <1>0, <1>2 DEF EndCycle, FreeLoop
<1>3. ASSUME NEW l \in Loops, Start(l) \/ DrainOnce(l) \/ Emit(l) \/ EmitThrows(l)
                              \/ MarkProcessed(l) \/ MarkFailed(l)
      PROVE  loop'[m].batch = loop[m].batch
  <2>1. CASE Start(l)
    BY <1>0, <2>1 DEF Start, LoopType
  <2>5. CASE DrainOnce(l)
    BY <1>0, <2>5 DEF DrainOnce, LoopType
  <2>2. CASE Emit(l)
    BY <1>0, <2>2 DEF Emit, LoopType
  <2>3. CASE EmitThrows(l)
    BY <1>0, <2>3 DEF EmitThrows, LoopType
  <2>4. CASE MarkProcessed(l)
    BY <1>0, <2>4 DEF MarkProcessed, LoopType
  <2>6. CASE MarkFailed(l)
    BY <1>0, <2>6 DEF MarkFailed, LoopType
  <2> QED
    BY <1>3, <2>1, <2>2, <2>3, <2>4, <2>5, <2>6
<1>4. ASSUME NEW l \in Loops, RunCycle(l) PROVE loop'[m].batch \in {loop[m].batch, <<>>}
  <2>1. CASE stopRequested
    BY <1>0, <1>4, <2>1 DEF RunCycle, FreeLoop
  <2>2. CASE ~stopRequested
    <3>1. loop' = [loop EXCEPT ![l].pc = "query"]
      BY <1>4, <2>2 DEF RunCycle
    <3>2. loop'[m].batch = loop[m].batch
      BY <1>0, <3>1 DEF LoopType
    <3> QED
      BY <3>2
  <2> QED
    BY <2>1, <2>2
<1>5. ASSUME NEW l \in Loops, NEW b \in pendingResults, Query(l, b)
      PROVE  loop'[m].batch = loop[m].batch \/ (loop'[m].batch = b /\ rows' = rows)
  BY <1>0, <1>5 DEF Query, LoopType, tableVars
<1>6. ASSUME NEW l \in Loops, NextRow(l) PROVE loop'[m].batch \in {loop[m].batch, <<>>}
  <2>1. loop[l].pos \in Nat /\ Len(loop[l].batch) \in Nat
    BY <1>0 DEF LoopType
  <2>2. CASE EndCycle(l)
    BY <1>2, <2>2
  <2>3. CASE loop[l].pos <= Len(loop[l].batch) /\ ~stopRequested
    <3>1. loop' = [loop EXCEPT ![l] = loop'[l]] /\ loop'[l].batch = loop[l].batch
      BY <1>6, <2>3, NextRowFacts
    <3> QED
      BY <1>0, <3>1
  <2> QED
    BY <1>6, <2>1, <2>2, <2>3 DEF NextRow
<1>7. ASSUME NEW l \in Loops, DbThrows(l) PROVE loop'[m].batch \in {loop[m].batch, <<>>}
  BY <1>2, <1>7 DEF DbThrows
<1>8. CASE Crash
  BY <1>8 DEF Crash, FreeLoop
<1>9. CASE Stop \/ Tick \/ UNCHANGED vars \/ \E r \in Requests : Receiver(r)
  BY <1>1, <1>9 DEF Stop, Tick, vars, drainerVars, Receiver, Deliver, RejectSaturated, InsertNext,
     InsertThrows, Respond
<1> QED
  BY <1>3, <1>4, <1>5, <1>6, <1>7, <1>8, <1>9 DEF Next, LoopStep

(* What every step keeps of the rows.                                      *)
LEMMA RowsOnlyGain ==
    ASSUME IInv, StoredInv, [Next]_vars
    PROVE  \A i \in Ids : /\ rows[i].present => rows'[i].present
                          /\ rows[i].processed => rows'[i].processed
                          /\ rows'[i].processed => rows'[i].present
<1>0. TypeOK /\ CycleInv /\ ProcessedIsStored /\ BatchIsStored
  BY DEF IInv, StoredInv
<1>1. CASE UNCHANGED rows
  BY <1>0, <1>1 DEF ProcessedIsStored
<1>2. ASSUME NEW i \in Ids, NEW t \in Nat, insert(i, t)
      PROVE  \A j \in Ids : /\ rows[j].present => rows'[j].present
                            /\ rows[j].processed => rows'[j].processed
                            /\ rows'[j].processed => rows'[j].present
  <2>1. CASE rows[i].present
    BY <1>0, <1>2, <2>1 DEF insert, ProcessedIsStored
  <2>2. CASE ~rows[i].present
    <3>1. \A j \in Ids : IF j = i THEN rows'[j] = NewRow(t) ELSE rows'[j] = rows[j]
      BY <1>0, <1>2, <2>2 DEF insert, TypeOK
    <3> QED
      BY <1>0, <2>2, <3>1 DEF NewRow, ProcessedIsStored
  <2> QED
    BY <2>1, <2>2
<1>3. ASSUME NEW l \in Loops, Marked(loop[l], rows, rows'), loop[l].pc \in MidRow
      PROVE  \A j \in Ids : /\ rows[j].present => rows'[j].present
                            /\ rows[j].processed => rows'[j].processed
                            /\ rows'[j].processed => rows'[j].present
  <2>0. loop[l] \in LoopType /\ Promise(loop[l], emits) /\ rows \in Tables
    BY <1>0 DEF TypeOK, CycleInv, Tables
  <2>1. PICK r \in Ids : r = loop[l].batch[loop[l].pos].id /\ rows[r].present
    BY <1>0, <1>3, <2>0, MidRowFacts DEF BatchIsStored
  <2>2. PICK v \in RowType : /\ rows' = [rows EXCEPT ![r] = v] /\ v.present = rows[r].present
                             /\ rows[r].processed => v.processed
    BY <1>3, <2>1 DEF Marked
  <2>3. \A j \in Ids : IF j = r THEN rows'[j] = v ELSE rows'[j] = rows[j]
    BY <2>0, <2>2 DEF Tables
  <2> QED
    BY <1>0, <2>1, <2>2, <2>3 DEF ProcessedIsStored
<1>4. ASSUME NEW r \in Requests, InsertNext(r) \/ InsertThrows(r)
      PROVE  UNCHANGED rows \/ \E i \in Ids : \E t \in Nat : insert(i, t)
  <2>1. request[r].pos <= Len(request[r].body)
    BY <1>4 DEF InsertNext, InsertThrows
  <2> QED
    BY <1>0, <1>4, <2>1, NextInsert DEF InsertNext, InsertThrows
<1>5. ASSUME NEW l \in Loops, MarkProcessed(l) \/ MarkFailed(l) \/ DbThrows(l)
      PROVE  UNCHANGED rows \/ (Marked(loop[l], rows, rows') /\ loop[l].pc \in MidRow)
  BY <1>5, UpdatesMark DEF MarkProcessed, MarkFailed, DbThrows, MidRow
<1>6. \/ UNCHANGED rows
      \/ \E r \in Requests : InsertNext(r) \/ InsertThrows(r)
      \/ \E l \in Loops : MarkProcessed(l) \/ MarkFailed(l) \/ DbThrows(l)
  BY DEF Next, Receiver, LoopStep, Deliver, RejectSaturated, Respond, Start, DrainOnce, RunCycle, Query,
     NextRow, Emit, EmitThrows, Stop, Tick, Crash, vars, tableVars
<1> QED
  BY <1>1, <1>2, <1>3, <1>4, <1>5, <1>6

LEMMA StoredStep ==
    ASSUME IInv, StoredInv, [Next]_vars
    PROVE  StoredInv'
<1>0. TypeOK /\ BatchIsStored
  BY DEF IInv, StoredInv
<1>1. BatchIsStored'
  <2> SUFFICES ASSUME NEW l \in Loops, NEW k \in DOMAIN loop'[l].batch
               PROVE  rows'[loop'[l].batch[k].id].present
    BY DEF BatchIsStored
  <2>1. CASE loop'[l].batch = loop[l].batch
    <3>1. loop[l] \in LoopType
      BY <1>0 DEF TypeOK
    <3>2. loop[l].batch \in Seq(SnapshotType)
      BY <3>1 DEF LoopType
    <3>3. loop[l].batch[k] \in SnapshotType
      BY <2>1, <3>2
    <3>4. loop[l].batch[k].id \in Ids
      BY <3>3 DEF SnapshotType
    <3> QED
      BY <1>0, <2>1, <3>4, RowsOnlyGain DEF BatchIsStored
  <2>2. CASE loop'[l].batch = <<>>
    BY <2>2
  <2>3. ASSUME NEW b \in pendingResults, loop'[l].batch = b, rows' = rows
        PROVE  rows'[loop'[l].batch[k].id].present
    <3> DEFINE eligible == {i \in Ids : Pending(i)}
               n == IF Cardinality(eligible) < BatchSize THEN Cardinality(eligible) ELSE BatchSize
    <3>0. PICK t \in [1..n -> eligible] :
             b = [j \in 1..n |-> [id |-> t[j], attempts |-> rows[t[j]].attempts]]
      BY DEF pendingResults
    <3> HIDE DEF n
    <3>2. k \in 1..n /\ b[k].id = t[k]
      BY <2>3, <3>0
    <3> QED
      BY <2>3, <3>0, <3>2 DEF Pending
  <2> QED
    BY <1>0, <2>1, <2>2, <2>3, BatchComesFrom
<1>2. ProcessedIsStored'
  BY RowsOnlyGain DEF ProcessedIsStored
<1> QED
  BY <1>1, <1>2 DEF StoredInv

(* Once processed a row stays processed, through redeliveries, late        *)
(* failures of overlapping loops, database errors and crashes.             *)
THEOREM ProcessedStays == Spec => ProcessedIsFinal
<1>1. Init => IInv /\ StoredInv
  <2>1. Init => StoredInv
    BY DEF Init, StoredInv, BatchIsStored, ProcessedIsStored, FreeLoop, NoRow
  <2> QED
    BY <2>1, InitIInv
<1>2. IInv /\ StoredInv /\ [Next]_vars => (IInv /\ StoredInv)'
  BY NextIInv, StoredStep
<1>3. IInv /\ StoredInv /\ [Next]_vars => [\A i \in Ids : rows[i].processed => rows'[i].processed]_vars
  BY RowsOnlyGain
<1> QED
  BY <1>1, <1>2, <1>3, PTL DEF Spec, ProcessedIsFinal
=============================================================================
