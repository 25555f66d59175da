-------------------------- MODULE PostgresOutbox --------------------------
(***************************************************************************)
(* The Postgres backend of the outbox, which several processes share: each *)
(* has a PostgresOutbox of its own with its init() and close(), inserts    *)
(* deliveries and drains the one table.  A query is one step of the server;*)
(* WebhookOutbox models the receiver and the drainer of one process in     *)
(* full, this module what they make of each other's rows.                  *)
(***************************************************************************)
EXTENDS Naturals, Sequences, FiniteSets, FiniteSetsExt

CONSTANTS
    Procs,          \* processes that share the table
    Rows,           \* primary keys (source, id)
    MaxAttempts,    \* DrainerOptions.maxAttempts
    PgBatchSize,    \* DrainerOptions.batchSize
    MaxTries,       \* bound on the emissions tried, over all rows
    MaxPools        \* bound on the pools a process makes

ASSUME PostgresAssumption ==
    /\ IsFiniteSet(Rows)
    /\ MaxAttempts \in Nat \ {0} /\ PgBatchSize \in Nat \ {0}
    /\ MaxTries \in Nat /\ MaxPools \in Nat

VARIABLES
    table,      \* table[r]: the row, Unwritten before it is inserted
    ripe,       \* rows whose received_at has passed the retry cutoff
    connection,     \* connection[p]: this.pool, 0 for null
    opening,    \* opening[p]: pools of init() calls that have not returned
    pools,      \* <<p, k>> that are not ended
    made,       \* made[p]: pools made so far
    batch,      \* batch[p]: the rows pending() returned that are not done
    marking,    \* marking[p]: the update processOne() goes on with, "none" before the emit
    emitted,    \* history: emissions that succeeded, per row
    tries,      \* history: emissions tried, per row
    unmarked,   \* history: rows tried whose mark was rejected, or not made before a crash
    shared,     \* history: rows two batches held at once
    initOverlapped  \* history: processes with an init() that met another or a close()

pgVars == <<table, ripe, connection, opening, pools, made, batch, marking, emitted, tries, unmarked,
           shared, initOverlapped>>
poolVars == <<connection, opening, pools, made, initOverlapped>>
drainVars == <<batch, marking, emitted, tries, unmarked, shared>>

Unwritten == [processed |-> FALSE, error |-> FALSE, attempts |-> 0, present |-> FALSE]

---------------------------------------------------------------------------
(* init(): nothing while a pool is set; otherwise a pool is made, the      *)
(* schema created, and only then the field set.                            *)
InitBegins(p) ==
    /\ connection[p] = 0 /\ made[p] < MaxPools
    /\ made' = [made EXCEPT ![p] = @ + 1]
    /\ opening' = [opening EXCEPT ![p] = @ \cup {made'[p]}]
    /\ pools' = pools \cup {<<p, made'[p]>>}
    /\ initOverlapped' = IF opening[p] = {} THEN initOverlapped ELSE initOverlapped \cup {p}
    /\ UNCHANGED <<connection, table, ripe, drainVars>>

InitReturns(p, k) ==
    /\ k \in opening[p]
    /\ opening' = [opening EXCEPT ![p] = @ \ {k}]
    /\ connection' = [connection EXCEPT ![p] = k]
    /\ UNCHANGED <<pools, made, initOverlapped, table, ripe, drainVars>>

\* Mutant: the pool of a failed init() is not ended.
InitFailsOpen(p, k) ==
    /\ k \in opening[p]
    /\ opening' = [opening EXCEPT ![p] = @ \ {k}]
    /\ UNCHANGED <<connection, pools, made, initOverlapped, table, ripe, drainVars>>

\* init() whose schema statements fail ends its pool.
InitFails(p, k) ==
    /\ k \in opening[p]
    /\ opening' = [opening EXCEPT ![p] = @ \ {k}]
    /\ pools' = pools \ {<<p, k>>}
    /\ UNCHANGED <<connection, made, initOverlapped, table, ripe, drainVars>>

(* close(): the field is cleared before the pool is ended. *)
CloseOutbox(p) ==
    /\ connection[p] # 0
    /\ connection' = [connection EXCEPT ![p] = 0]
    /\ pools' = pools \ {<<p, connection[p]>>}
    /\ initOverlapped' = IF opening[p] = {} THEN initOverlapped ELSE initOverlapped \cup {p}
    /\ UNCHANGED <<opening, made, table, ripe, drainVars>>

---------------------------------------------------------------------------
(* Every other method throws without a pool. *)
Connected(p) == connection[p] # 0

insertRow(r) == IF table[r].present THEN table[r] ELSE [Unwritten EXCEPT !.present = TRUE]

Insert(p, r) ==
    /\ Connected(p)
    /\ table' = [table EXCEPT ![r] = insertRow(r)]
    /\ UNCHANGED <<ripe, poolVars, drainVars>>

CutoffPasses(r) ==
    /\ table[r].present /\ r \notin ripe
    /\ ripe' = ripe \cup {r}
    /\ UNCHANGED <<table, poolVars, drainVars>>

pendingRow(r) ==
    /\ table[r].present /\ ~table[r].processed /\ table[r].attempts < MaxAttempts
    /\ table[r].attempts = 0 \/ r \in ripe

InBatch(p) == {batch[p][k][1] : k \in DOMAIN batch[p]}

(* pending(): up to LIMIT rows in the order they were received, whichever  *)
(* that is, with the attempts they had then.                               *)
pendingOrders ==
    LET found == {r \in Rows : pendingRow(r)}
        n == IF Cardinality(found) < PgBatchSize THEN Cardinality(found) ELSE PgBatchSize
    IN  {s \in [1..n -> found] : \A i, j \in 1..n : s[i] = s[j] => i = j}

Fetch(p, order) ==
    /\ Connected(p)
    /\ batch[p] = <<>> /\ marking[p] = "none"
    /\ order # <<>>
    /\ batch' = [batch EXCEPT ![p] = [k \in DOMAIN order |-> <<order[k], table[order[k]].attempts>>]]
    /\ shared' = shared \cup UNION {InBatch(p)' \cap InBatch(q) : q \in Procs \ {p}}
    /\ UNCHANGED <<table, ripe, poolVars, marking, emitted, tries, unmarked>>

TriedSoFar == MapThenSumSet(LAMBDA r : tries[r], Rows)

(* processOne(): emit the head of the batch, then mark it. *)
Emits(p, ok) ==
    /\ batch[p] # <<>> /\ marking[p] = "none"
    /\ TriedSoFar < MaxTries
    /\ LET r == Head(batch[p])[1]
       IN /\ tries' = [tries EXCEPT ![r] = @ + 1]
          /\ emitted' = IF ok THEN [emitted EXCEPT ![r] = @ + 1] ELSE emitted
    /\ marking' = [marking EXCEPT ![p] = IF ok THEN "processed" ELSE "failed"]
    /\ UNCHANGED <<table, ripe, poolVars, batch, unmarked, shared>>

markProcessed(row) == [row EXCEPT !.processed = TRUE, !.error = FALSE]
markFailed(row, attempts) == [row EXCEPT !.error = TRUE, !.attempts = attempts]

Mark(p) ==
    /\ marking[p] # "none" /\ Connected(p)
    /\ LET r == Head(batch[p])[1]
           row == IF marking[p] = "processed" THEN markProcessed(table[r])
                  ELSE markFailed(table[r], Head(batch[p])[2] + 1)
       IN table' = [table EXCEPT ![r] = row]
    /\ batch' = [batch EXCEPT ![p] = Tail(@)]
    /\ marking' = [marking EXCEPT ![p] = "none"]
    /\ UNCHANGED <<ripe, poolVars, emitted, tries, unmarked, shared>>

(* The update rejects: the cycle throws, and the rest of the batch is       *)
(* dropped until the next one.                                             *)
MarkRejects(p) ==
    /\ marking[p] # "none"
    /\ batch' = [batch EXCEPT ![p] = <<>>]
    /\ marking' = [marking EXCEPT ![p] = "none"]
    /\ unmarked' = unmarked \cup {Head(batch[p])[1]}
    /\ UNCHANGED <<table, ripe, poolVars, emitted, tries, shared>>

(* A process dies and is started again: what it had in memory is gone, its *)
(* connections too.                                                        *)
ProcessCrashes(p) ==
    /\ opening[p] # {} \/ connection[p] # 0 \/ batch[p] # <<>>
    /\ connection' = [connection EXCEPT ![p] = 0]
    /\ opening' = [opening EXCEPT ![p] = {}]
    /\ pools' = {c \in pools : c[1] # p}
    /\ initOverlapped' = initOverlapped \ {p}
    /\ batch' = [batch EXCEPT ![p] = <<>>]
    /\ marking' = [marking EXCEPT ![p] = "none"]
    /\ unmarked' = IF marking[p] = "none" THEN unmarked ELSE unmarked \cup {Head(batch[p])[1]}
    /\ UNCHANGED <<made, table, ripe, emitted, tries, shared>>

---------------------------------------------------------------------------
PgInit ==
    /\ table = [r \in Rows |-> Unwritten] /\ ripe = {}
    /\ connection = [p \in Procs |-> 0] /\ opening = [p \in Procs |-> {}]
    /\ pools = {} /\ made = [p \in Procs |-> 0]
    /\ batch = [p \in Procs |-> <<>>] /\ marking = [p \in Procs |-> "none"]
    /\ emitted = [r \in Rows |-> 0] /\ tries = [r \in Rows |-> 0]
    /\ unmarked = {} /\ shared = {} /\ initOverlapped = {}

PgNext ==
    \E p \in Procs :
        \/ InitBegins(p)
        \/ \E k \in opening[p] : InitReturns(p, k) \/ InitFails(p, k)
        \/ CloseOutbox(p) \/ ProcessCrashes(p)
        \/ \E r \in Rows : Insert(p, r) \/ CutoffPasses(r)
        \/ \E order \in pendingOrders : Fetch(p, order)
        \/ \E ok \in BOOLEAN : Emits(p, ok)
        \/ Mark(p) \/ MarkRejects(p)

PgSpec == PgInit /\ [][PgNext]_pgVars

---------------------------------------------------------------------------
PgTypeOK ==
    /\ \A r \in Rows : table[r].attempts \in 0..MaxAttempts
    /\ ripe \subseteq {r \in Rows : table[r].present}
    /\ \A p \in Procs : /\ connection[p] \in 0..made[p] /\ opening[p] \subseteq 1..made[p]
                        /\ marking[p] # "none" => batch[p] # <<>>
    /\ pools \subseteq Procs \X (1..MaxPools)

(* A pool nobody will end is left behind only by two init() calls of one    *)
(* outbox that overlap, or an init() that overlaps a close(); a failed     *)
(* init() ends the pool it made.                                           *)
OrphanNeedsOverlap ==
    \A c \in pools : c[1] \in initOverlapped \/ c[2] = connection[c[1]] \/ c[2] \in opening[c[1]]

(* Two processes drain one table without a lock.  A row is emitted twice   *)
(* only if both had it in a batch at once, or the update that would have   *)
(* marked it was rejected or lost to a crash between the emit and the      *)
(* mark: never because of a redelivery or of a failure recorded late.      *)
RepeatNeedsSharing ==
    \A r \in Rows : emitted[r] > 1 => r \in shared \/ r \in unmarked

(* maxAttempts bounds the tries of a row, again unless two batches held it *)
(* (the attempts written are those of the read plus one, so a late update  *)
(* lowers the count) or an update was rejected or lost to a crash.         *)
TriesAreBounded ==
    \A r \in Rows : tries[r] > MaxAttempts => r \in shared \/ r \in unmarked

(* The safety of the shared table (postgres.ts): what overlapping callers  *)
(* may cost, and no more.                                                  *)
PgSafe ==
    /\ PgTypeOK
    /\ OrphanNeedsOverlap
    /\ RepeatNeedsSharing
    /\ TriesAreBounded
=============================================================================
