--------------------------- MODULE WebhookOutbox ---------------------------
(***************************************************************************)
(* The outbox of solana-webhooks: the HTTP receiver that persists          *)
(* deliveries (server/http.ts), the outbox table (outbox/sqlite.ts and     *)
(* outbox/postgres.ts) and the drainer that polls it, emits the normalised *)
(* events and marks rows (outbox/drainer.ts).                              *)
(*                                                                         *)
(* Every await of the code is a point where another step may happen: one   *)
(* action is the code between two awaits.  The table survives a crash;     *)
(* the semaphore, the requests and the drainer do not.                     *)
(***************************************************************************)
EXTENDS Naturals, Sequences, FiniteSets

CONSTANTS
    Ids,            \* primary keys (source, id) of outbox rows
    Kind,           \* Kind[i]: what processing the stored payload of i does
    Events,         \* Events[i]: how many typed events it normalises to
    Deliveries,     \* bodies the provider may post: sequences of ids
    Requests,       \* HTTP requests that can be open at once
    MaxConcurrent,  \* permits of the receiver's semaphore
    MaxAttempts, BatchSize, RetryDelay,     \* DrainerOptions
    Loops,          \* chains of timers a process can have alive
    None,
    MaxTime, MaxSent, MaxStarts, MaxManual, MaxCrashes, MaxDbFaults \* bounds

ASSUME OutboxAssumption ==
    /\ IsFiniteSet(Ids)
    /\ Kind \in [Ids -> {"ok", "no_driver", "corrupt", "unmappable"}]
    /\ Events \in [Ids -> Nat]
    /\ Deliveries \subseteq Seq(Ids)
    /\ MaxConcurrent \in Nat \ {0}
    /\ MaxAttempts \in Nat \ {0}
    /\ BatchSize \in Nat \ {0}
    /\ RetryDelay \in Nat
    /\ None \notin Loops
    /\ \A n \in {MaxTime, MaxSent, MaxStarts, MaxManual, MaxCrashes,
                 MaxDbFaults} : n \in Nat

(* The events of all rows: event k of row i is <<i, k>>.                   *)
Slots == UNION {{i} \X (1..Events[i]) : i \in Ids}

VARIABLES
    now,        \* Date.now()
    rows,       \* the table: id -> columns, "present" once inserted
    request,    \* request -> progress of its ingest()
    available,  \* permits left in the semaphore
    running, stopRequested, \* fields of the drainer
    waiter,     \* the loop whose runCycle made the waiter promise, or None
    stopping,   \* the loop whose promise an unfinished stop() awaits, or None
    loop,       \* loop -> progress of its runCycle()
    sent, starts, manual, crashes, dbFaults, \* how often each has happened
    acked,      \* history: ids of deliveries answered with 200
    emits       \* history: emits[<<i, k>>] = times event k of row i was emitted

tableVars == <<rows, now>>
receiverVars == <<request, available, sent, acked>>
drainerVars == <<running, stopRequested, waiter, stopping, loop, starts, manual>>
vars == <<tableVars, receiverVars, drainerVars, crashes, dbFaults, emits>>

-----------------------------------------------------------------------------
(* The table.                                                              *)

NoRow == [present |-> FALSE, receivedAt |-> 0, processed |-> FALSE, attempts |-> 0]

NewRow(receivedAt) ==
    [present |-> TRUE, receivedAt |-> receivedAt, processed |-> FALSE, attempts |-> 0]

(* Mutant: ON CONFLICT DO UPDATE.                                          *)
InsertOrReplace(i, receivedAt) ==
    rows' = [rows EXCEPT ![i] = NewRow(receivedAt)]

(* INSERT ... ON CONFLICT (source, id) DO NOTHING                          *)
insert(i, receivedAt) ==
    rows' = IF rows[i].present THEN rows
            ELSE [rows EXCEPT ![i] = NewRow(receivedAt)]

(* Mutant: attempts <= ? instead of attempts < ?.                          *)
PendingOnceTooOften(i) ==
    /\ rows[i].present /\ ~rows[i].processed
    /\ rows[i].attempts <= MaxAttempts
    /\ rows[i].attempts = 0 \/ rows[i].receivedAt + RetryDelay <= now

(* The WHERE clause of pendingWithMaxAttempts.                             *)
Pending(i) ==
    /\ rows[i].present /\ ~rows[i].processed
    /\ rows[i].attempts < MaxAttempts
    /\ rows[i].attempts = 0 \/ rows[i].receivedAt + RetryDelay <= now

(* ORDER BY received_at ASC LIMIT BatchSize: rows received at the same     *)
(* millisecond come back in any order.  Each row carries the attempts it   *)
(* had when it was read.                                                   *)
pendingResults ==
    LET eligible == {i \in Ids : Pending(i)}
        n == IF Cardinality(eligible) < BatchSize THEN Cardinality(eligible) ELSE BatchSize
        Ordered(t) == \A k \in 1..n :
            /\ \A j \in 1..(k - 1) : t[j] # t[k]
            /\ \A i \in eligible : (\A j \in 1..k : t[j] # i)
                                      => rows[t[k]].receivedAt <= rows[i].receivedAt
    IN  {[k \in 1..n |-> [id |-> t[k], attempts |-> rows[t[k]].attempts]] :
            t \in {u \in [1..n -> eligible] : Ordered(u)}}

markProcessed(i) == rows' = [rows EXCEPT ![i].processed = TRUE]

(* Mutants: markFailed closes a row that ran out of attempts; markFailed   *)
(* sets processed_at back to NULL.                                         *)
MarkFailedCloses(i, n) ==
    rows' = [rows EXCEPT ![i].attempts = n, ![i].processed = @ \/ n >= MaxAttempts]

MarkFailedReopens(i, n) ==
    rows' = [rows EXCEPT ![i].attempts = n, ![i].processed = FALSE]

markFailed(i, n) == rows' = [rows EXCEPT ![i].attempts = n]

-----------------------------------------------------------------------------
(* The receiver.                                                           *)

NoRequest == [pc |-> "idle", body |-> <<>>, pos |-> 1, receivedAt |-> 0]

(* ingest() up to its first await.  Requests failing authentication, the   *)
(* size cap or the parse return without changing any state.                *)
Deliver(r, b) ==
    /\ request[r].pc = "idle"
    /\ sent < MaxSent /\ now + RetryDelay <= MaxTime
    /\ available > 0
    /\ available' = available - 1
    /\ sent' = sent + 1
    /\ request' = [request EXCEPT ![r] =
                     [pc |-> "insert", body |-> b, pos |-> 1, receivedAt |-> now]]
    /\ UNCHANGED <<tableVars, acked, drainerVars, crashes, dbFaults, emits>>

(* No permit left: 503, and nothing of the body is kept.                   *)
RejectSaturated(r) ==
    /\ request[r].pc = "idle"
    /\ sent < MaxSent
    /\ available = 0
    /\ sent' = sent + 1
    /\ UNCHANGED <<tableVars, request, available, acked, drainerVars, crashes,
                   dbFaults, emits>>

(* One turn of the for loop over the parsed events.                        *)
InsertNext(r) ==
    /\ request[r].pc = "insert" /\ request[r].pos <= Len(request[r].body)
    /\ insert(request[r].body[request[r].pos], request[r].receivedAt)
    /\ request' = [request EXCEPT ![r].pos = @ + 1]
    /\ UNCHANGED <<now, available, sent, acked, drainerVars, crashes, dbFaults, emits>>

(* Mutant: a failed insert is logged and skipped.                          *)
InsertThrowsSkipped(r) ==
    /\ request[r].pc = "insert" /\ request[r].pos <= Len(request[r].body)
    /\ dbFaults < MaxDbFaults
    /\ dbFaults' = dbFaults + 1
    /\ request' = [request EXCEPT ![r].pos = @ + 1]
    /\ UNCHANGED <<tableVars, available, sent, acked, drainerVars, crashes, emits>>

(* An insert that throws, before or after the database applied it: the     *)
(* finally block releases the permit and the provider gets a 500.  The     *)
(* rows inserted before it stay.                                           *)
InsertThrows(r) ==
    /\ request[r].pc = "insert" /\ request[r].pos <= Len(request[r].body)
    /\ dbFaults < MaxDbFaults
    /\ dbFaults' = dbFaults + 1
    /\ insert(request[r].body[request[r].pos], request[r].receivedAt) \/ UNCHANGED rows
    /\ request' = [request EXCEPT ![r] = NoRequest]
    /\ available' = available + 1
    /\ UNCHANGED <<now, sent, acked, drainerVars, crashes, emits>>

(* After the loop: release the permit and answer 200, which vouches for    *)
(* every event of the body, duplicates included.                           *)
Respond(r) ==
    /\ request[r].pc = "insert" /\ request[r].pos > Len(request[r].body)
    /\ request' = [request EXCEPT ![r] = NoRequest]
    /\ available' = available + 1
    /\ acked' = acked \union {request[r].body[k] : k \in DOMAIN request[r].body}
    /\ UNCHANGED <<tableVars, sent, drainerVars, crashes, dbFaults, emits>>

-----------------------------------------------------------------------------
(* The drainer.  A loop is a chain of timers and cycles begun by one       *)
(* start() (or one drainOnce(), which has no timer):                       *)
(*   free    nothing scheduled                                             *)
(*   timer   a setTimeout callback is pending                              *)
(*   query   awaiting outbox.pending()                                     *)
(*   rows    between two rows of the batch, next row at batch[pos]         *)
(*   emit    awaiting emit() of event ev of that row                       *)
(*   done    all its events emitted, awaiting markProcessed()              *)
(*   failed  awaiting markFailed() with markTo attempts                    *)

FreeLoop == [pc |-> "free", once |-> FALSE, batch |-> <<>>, pos |-> 1, ev |-> 0, markTo |-> 0]

Row(l) == loop[l].batch[loop[l].pos]

(* start(): begins a chain with a zero-delay timer unless already running. *)
Start(l) ==
    /\ ~running
    /\ loop[l].pc = "free" /\ starts < MaxStarts
    /\ running' = TRUE
    /\ stopRequested' = FALSE
    /\ starts' = starts + 1
    /\ loop' = [loop EXCEPT ![l].pc = "timer"]
    /\ UNCHANGED <<tableVars, receiverVars, waiter, stopping, manual, crashes, dbFaults, emits>>

(* Mutant: stop() does not await the cycle.                                *)
StopAtOnce ==
    /\ running /\ stopping = None
    /\ stopRequested' = TRUE
    /\ running' = FALSE
    /\ UNCHANGED <<tableVars, receiverVars, waiter, stopping, loop, starts, manual,
                   crashes, dbFaults, emits>>

(* stop(): the pending timer, if any, is left alone.                       *)
Stop ==
    /\ running /\ stopping = None
    /\ stopRequested' = TRUE
    /\ stopping' = waiter
    /\ running' = (waiter # None)
    /\ UNCHANGED <<tableVars, receiverVars, waiter, loop, starts, manual, crashes,
                   dbFaults, emits>>

(* The timer callback: runCycle() up to the query.                         *)
RunCycle(l) ==
    /\ loop[l].pc = "timer"
    /\ IF stopRequested
         THEN loop' = [loop EXCEPT ![l] = FreeLoop] /\ UNCHANGED waiter
         ELSE loop' = [loop EXCEPT ![l].pc = "query"] /\ waiter' = l
    /\ UNCHANGED <<tableVars, receiverVars, running, stopRequested, stopping, starts,
                   manual, crashes, dbFaults, emits>>

(* drainOnce(): one cycle outside any loop.                                *)
DrainOnce(l) ==
    /\ loop[l].pc = "free" /\ manual < MaxManual
    /\ manual' = manual + 1
    /\ loop' = [loop EXCEPT ![l].pc = "query", ![l].once = TRUE]
    /\ UNCHANGED <<tableVars, receiverVars, running, stopRequested, waiter, stopping,
                   starts, crashes, dbFaults, emits>>

(* Mutant: the waiter field is cleared without resolving its promise.      *)
EndCycleUnresolved(l) ==
    IF loop[l].once
      THEN loop' = [loop EXCEPT ![l] = FreeLoop] /\ UNCHANGED <<waiter, stopping, running>>
      ELSE /\ waiter' = None
           /\ UNCHANGED <<stopping, running>>
           /\ loop' = [loop EXCEPT ![l] = [FreeLoop EXCEPT
                         !.pc = IF stopRequested THEN "free" ELSE "timer"]]

(* The end of cycle() or of its catch: resolve whatever promise the waiter *)
(* field holds, clear it, and rearm the timer unless a stop was requested. *)
(* A stop() awaiting that promise finishes.                                *)
EndCycle(l) ==
    IF loop[l].once
      THEN loop' = [loop EXCEPT ![l] = FreeLoop] /\ UNCHANGED <<waiter, stopping, running>>
      ELSE /\ waiter' = None
           /\ IF waiter # None /\ stopping = waiter
                THEN stopping' = None /\ running' = FALSE
                ELSE UNCHANGED <<stopping, running>>
           /\ loop' = [loop EXCEPT ![l] = [FreeLoop EXCEPT
                         !.pc = IF stopRequested THEN "free" ELSE "timer"]]

(* pending() resolves with a snapshot of the table.                        *)
Query(l, b) ==
    /\ loop[l].pc = "query"
    /\ b \in pendingResults
    /\ loop' = [loop EXCEPT ![l].pc = "rows", ![l].batch = b, ![l].pos = 1]
    /\ UNCHANGED <<tableVars, receiverVars, running, stopRequested, waiter, stopping,
                   starts, manual, crashes, dbFaults, emits>>

(* The head of cycle()'s loop: finished, stopped, or the synchronous part  *)
(* of processOne() for the next row.                                       *)
NextRow(l) ==
    /\ loop[l].pc = "rows"
    /\ IF loop[l].pos > Len(loop[l].batch) \/ stopRequested
         THEN EndCycle(l)
         ELSE /\ loop' = [loop EXCEPT ![l] =
                  CASE Kind[Row(l).id] \in {"no_driver", "corrupt"} ->
                         [@ EXCEPT !.pc = "failed", !.markTo = MaxAttempts]
                    [] Kind[Row(l).id] = "unmappable" ->
                         [@ EXCEPT !.pc = "failed", !.markTo = Row(l).attempts + 1]
                    [] Kind[Row(l).id] = "ok" ->
                         [@ EXCEPT !.pc = IF Events[Row(l).id] = 0 THEN "done" ELSE "emit",
                                   !.ev = 1]]
              /\ UNCHANGED <<waiter, stopping, running>>
    /\ UNCHANGED <<tableVars, receiverVars, stopRequested, starts, manual, crashes,
                   dbFaults, emits>>

(* emit() of one event resolves.                                           *)
Emit(l) ==
    /\ loop[l].pc = "emit"
    /\ emits' = [emits EXCEPT ![<<Row(l).id, loop[l].ev>>] = @ + 1]
    /\ loop' = [loop EXCEPT
                  ![l].pc = IF loop[l].ev < Events[Row(l).id] THEN "emit" ELSE "done",
                  ![l].ev = @ + 1]
    /\ UNCHANGED <<tableVars, receiverVars, running, stopRequested, waiter, stopping,
                   starts, manual, crashes, dbFaults>>

(* Mutant: the try/catch is inside the loop over the events.               *)
EmitThrowsSkipped(l) ==
    /\ loop[l].pc = "emit"
    /\ loop' = [loop EXCEPT
                  ![l].pc = IF loop[l].ev < Events[Row(l).id] THEN "emit" ELSE "done",
                  ![l].ev = @ + 1]
    /\ UNCHANGED <<tableVars, receiverVars, running, stopRequested, waiter, stopping,
                   starts, manual, crashes, dbFaults, emits>>

(* emit() rejects: the events after it are not tried.                      *)
EmitThrows(l) ==
    /\ loop[l].pc = "emit"
    /\ loop' = [loop EXCEPT ![l].pc = "failed", ![l].markTo = Row(l).attempts + 1]
    /\ UNCHANGED <<tableVars, receiverVars, running, stopRequested, waiter, stopping,
                   starts, manual, crashes, dbFaults, emits>>

MarkProcessed(l) ==
    /\ loop[l].pc = "done"
    /\ markProcessed(Row(l).id)
    /\ loop' = [loop EXCEPT ![l].pc = "rows", ![l].pos = @ + 1]
    /\ UNCHANGED <<now, receiverVars, running, stopRequested, waiter, stopping, starts,
                   manual, crashes, dbFaults, emits>>

MarkFailed(l) ==
    /\ loop[l].pc = "failed"
    /\ markFailed(Row(l).id, loop[l].markTo)
    /\ loop' = [loop EXCEPT ![l].pc = "rows", ![l].pos = @ + 1]
    /\ UNCHANGED <<now, receiverVars, running, stopRequested, waiter, stopping, starts,
                   manual, crashes, dbFaults, emits>>

(* A query or an update throws, before or after the database applied it:   *)
(* it leaves cycle(), the rest of the batch waits for the next cycle.      *)
DbThrows(l) ==
    /\ loop[l].pc \in {"query", "done", "failed"}
    /\ dbFaults < MaxDbFaults
    /\ dbFaults' = dbFaults + 1
    /\ EndCycle(l)
    /\ \/ UNCHANGED rows
       \/ loop[l].pc = "done" /\ markProcessed(Row(l).id)
       \/ loop[l].pc = "failed" /\ markFailed(Row(l).id, loop[l].markTo)
    /\ UNCHANGED <<now, receiverVars, stopRequested, starts, manual, crashes, emits>>

-----------------------------------------------------------------------------
Tick ==
    /\ now < MaxTime
    /\ now' = now + 1
    /\ UNCHANGED <<rows, receiverVars, drainerVars, crashes, dbFaults, emits>>

(* The process dies and a new one comes up on the same table.              *)
Crash ==
    /\ crashes < MaxCrashes
    /\ crashes' = crashes + 1
    /\ request' = [r \in Requests |-> NoRequest]
    /\ available' = MaxConcurrent
    /\ running' = FALSE /\ stopRequested' = FALSE
    /\ waiter' = None /\ stopping' = None
    /\ loop' = [l \in Loops |-> FreeLoop]
    /\ starts' = 0 /\ manual' = 0
    /\ UNCHANGED <<tableVars, sent, acked, dbFaults, emits>>

Init ==
    /\ now = 0
    /\ rows = [i \in Ids |-> NoRow]
    /\ request = [r \in Requests |-> NoRequest]
    /\ available = MaxConcurrent
    /\ running = FALSE /\ stopRequested = FALSE
    /\ waiter = None /\ stopping = None
    /\ loop = [l \in Loops |-> FreeLoop]
    /\ sent = 0 /\ starts = 0 /\ manual = 0 /\ crashes = 0 /\ dbFaults = 0
    /\ acked = {}
    /\ emits = [s \in Slots |-> 0]

Receiver(r) ==
    \/ \E b \in Deliveries : Deliver(r, b)
    \/ RejectSaturated(r) \/ InsertNext(r) \/ InsertThrows(r) \/ Respond(r)

(* What a loop does on its own once started.                               *)
LoopStep(l) ==
    \/ RunCycle(l) \/ \E b \in pendingResults : Query(l, b)
    \/ NextRow(l) \/ Emit(l) \/ EmitThrows(l)
    \/ MarkProcessed(l) \/ MarkFailed(l) \/ DbThrows(l)

Next ==
    \/ \E r \in Requests : Receiver(r)
    \/ \E l \in Loops : Start(l) \/ DrainOnce(l) \/ LoopStep(l)
    \/ Stop \/ Tick \/ Crash

Spec == Init /\ [][Next]_vars

(* Node runs timers and pending promises: a loop that was started goes on, *)
(* and time passes.  Whether deliveries, stops or crashes happen is up to  *)
(* the environment.                                                        *)
FairSpec == Spec /\ WF_vars(Tick) /\ \A l \in Loops : WF_vars(LoopStep(l))

-----------------------------------------------------------------------------
RowType == [present : BOOLEAN, receivedAt : Nat, processed : BOOLEAN, attempts : 0..MaxAttempts]

RequestType == [pc : {"idle", "insert"}, body : Seq(Ids), pos : Nat \ {0}, receivedAt : Nat]

SnapshotType == [id : Ids, attempts : 0..(MaxAttempts - 1)]

LoopType == [pc : {"free", "timer", "query", "rows", "emit", "done", "failed"},
             once : BOOLEAN, batch : Seq(SnapshotType), pos : Nat \ {0}, ev : Nat,
             markTo : 0..MaxAttempts]

(* Every variable has its type, and no row is ever charged more than       *)
(* MaxAttempts attempts, however stale the batch it was read in.           *)
TypeOK ==
    /\ now \in Nat
    /\ rows \in [Ids -> RowType]
    /\ request \in [Requests -> RequestType]
    /\ available \in Nat
    /\ running \in BOOLEAN /\ stopRequested \in BOOLEAN
    /\ waiter \in Loops \union {None} /\ stopping \in Loops \union {None}
    /\ loop \in [Loops -> LoopType]
    /\ sent \in Nat /\ starts \in Nat /\ manual \in Nat
    /\ crashes \in Nat /\ dbFaults \in Nat
    /\ acked \subseteq Ids
    /\ emits \in [Slots -> Nat]

(* A 200 from the receiver is a promise: whatever crashes or database      *)
(* errors happen around it, every event of an answered delivery has a row. *)
AckedIsPersisted == \A i \in acked : rows[i].present

(* A row is marked processed only when each of its events went through     *)
(* emit() at least once: a failure half-way, a stop or a crash never lets  *)
(* the row be settled with events missing (processOne, markProcessed).     *)
ProcessedWasEmitted ==
    \A i \in Ids : rows[i].processed =>
        Kind[i] = "ok" /\ \A k \in 1..Events[i] : emits[<<i, k>>] > 0

(* An event is emitted again only for a reason: each emission beyond the   *)
(* first is paid for by a failed attempt, a crash or a database error.     *)
(* Redelivery by the provider is no reason (insert is a no-op).            *)
EveryRepeatHasACause ==
    \A i \in Ids : \A k \in 1..Events[i] :
        emits[<<i, k>>] <= 1 + rows[i].attempts + crashes + dbFaults

(* Once marked processed a row stays processed: neither a redelivery nor a *)
(* late markFailed brings it back.                                         *)
ProcessedIsFinal == [][\A i \in Ids : rows[i].processed => rows'[i].processed]_vars

(* stop() "resolves when the in-flight cycle (if any) completes": when the *)
(* drainer is not running no cycle of a loop is under way.                 *)
StopIsQuiet ==
    ~running => \A l \in Loops : loop[l].once \/ loop[l].pc \in {"free", "timer"}

(* Permits are conserved: an ingest() that throws, and one that succeeds,  *)
(* gives back the one permit it took.                                      *)
PermitsBalanced ==
    available + Cardinality({r \in Requests : request[r].pc # "idle"}) = MaxConcurrent

Settled(i) == rows[i].processed \/ rows[i].attempts >= MaxAttempts

(* If the drainer is kept running, every row the receiver answered for is  *)
(* in the end processed or parked: failing rows ahead of it, the batch     *)
(* limit and the retry delay only postpone it.                             *)
AckedIsSettled == <>[]running => \A i \in Ids : (i \in acked) ~> Settled(i)

(* stop() resolves: the promise it awaits is always resolved by some cycle *)
(* even when cycles share the waiter field.                                *)
StopResolves == stopping # None ~> stopping = None

-----------------------------------------------------------------------------
(* The delivery contract of OutboxDelivery: a row is pending from its      *)
(* insertion until it is processed or its attempts are used up.            *)
Stage(i) ==
    CASE ~rows[i].present -> "absent"
      [] rows[i].present /\ rows[i].processed -> "delivered"
      [] rows[i].present /\ ~rows[i].processed /\ rows[i].attempts >= MaxAttempts -> "parked"
      [] OTHER -> "pending"

Delivery == INSTANCE OutboxDelivery WITH
    stage <- [i \in Ids |-> Stage(i)], emitted <- emits

(* The outbox implements the delivery contract: nothing is emitted before  *)
(* a row is stored or after it is settled, and events of a row go out in   *)
(* order on every attempt.                                                 *)
ImplementsDelivery == Delivery!Spec

(* What a single drainer loop and the receiver keep beside the delivery    *)
(* itself: repeats have causes, stop() is quiet, permits come back.        *)
ServiceIsSound ==
    /\ EveryRepeatHasACause
    /\ StopIsQuiet
    /\ PermitsBalanced

(* The outbox comes to its ends: stop() resolves, and what was acknowledged*)
(* is settled.                                                             *)
OutboxProgresses ==
    /\ StopResolves
    /\ AckedIsSettled
=============================================================================
