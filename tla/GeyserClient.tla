---------------------------- MODULE GeyserClient ----------------------------
(***************************************************************************)
(* Geyser subscriptions (geyser-client.ts) that checkpoint to one store    *)
(* and fill their gaps with gapBackfill (historical-backfill.ts), over     *)
(* crashes and restarts of the process.                                    *)
(*                                                                         *)
(* The chain produces slots; in each at most one transaction of the        *)
(* subscribed program, and the slot's status.  An open stream delivers     *)
(* both; a late transaction comes after the status of its slot, perhaps of *)
(* later ones.  What the client cannot take in time it drops.              *)
(***************************************************************************)
EXTENDS Integers, Sequences, SequencesExt, FiniteSets

CONSTANTS
    NSubs,              \* bound on subscriptions, numbered as they are opened
    QueueCapacity, CheckpointEvery,     \* GeyserClientOptions
    LateSlots,          \* slots whose transaction may be sent late (a bound)
    MaxTip, MaxCrashes, MaxFaults       \* bounds

ASSUME GeyserAssumption ==
    /\ NSubs \in Nat
    /\ QueueCapacity \in Nat \ {0} /\ CheckpointEvery \in Nat \ {0}
    /\ MaxTip \in Nat /\ MaxCrashes \in Nat /\ MaxFaults \in Nat

Subs == 1..NSubs

VARIABLES
    tip,            \* the newest slot with a status, or skipped
    txs,            \* slots with a transaction
    late,           \* those whose transaction is sent after the slot's status
    unsent,         \* those of them still to be sent
    sub,            \* the subscriptions
    opened,         \* how many were opened
    stored,         \* the checkpoint in the store; slot 0 when there is none
    crashes, faults,
    delivered,      \* history: slots whose transaction was handed to the handler or deliver
    excused,        \* history: slots whose transaction the client had no way to know of,
                    \* dropped, or failed to fetch
    gone,           \* history: late transactions sent to nobody, or queued when their
                    \* stream closed or the process crashed
    overlap         \* history: a subscription was opened while the loop of a closed one ran

geyserVars == <<tip, txs, late, unsent, sub, opened, stored, crashes, faults, delivered, excused,
                gone, overlap>>
chainVars == <<tip, txs, late, unsent, crashes, gone, overlap>>

NoSub == [at |-> "idle", open |-> FALSE, loading |-> FALSE, queue |-> <<>>, lastSlot |-> -1,
          count |-> 0, hand |-> [kind |-> "slot", slot |-> 0], todo |-> {}]

Updates == [kind : {"tx", "slot"}, slot : 1..MaxTip]

SubStates ==
    [at : {"idle", "gap", "handler", "save", "stopped"}, open : BOOLEAN, loading : BOOLEAN,
     queue : Seq(Updates), lastSlot : -1..MaxTip, count : Nat,
     hand : [kind : {"tx", "slot"}, slot : 0..MaxTip], todo : SUBSET (1..MaxTip)]

GeyserTypeOK ==
    /\ tip \in 0..MaxTip /\ txs \subseteq 1..MaxTip
    /\ late \subseteq txs /\ unsent \subseteq late
    /\ sub \in [Subs -> SubStates]
    /\ \A k \in Subs : Len(sub[k].queue) <= QueueCapacity
    /\ opened \in 0..NSubs
    /\ stored \in [slot : 0..MaxTip, count : Nat]
    /\ overlap \in BOOLEAN

GeyserInit ==
    /\ tip = 0 /\ txs = {} /\ late = {} /\ unsent = {}
    /\ sub = [k \in Subs |-> NoSub]
    /\ opened = 0
    /\ stored = [slot |-> 0, count |-> 0]
    /\ crashes = 0 /\ faults = 0
    /\ delivered = {} /\ excused = {} /\ gone = {} /\ overlap = FALSE

-----------------------------------------------------------------------------
(* The drain loop.                                                         *)

\* #draining
Running(k) == sub[k].at \notin {"idle", "stopped"}

\* The handler is called with update u.
Handle(k, s, u) ==
    /\ sub' = [sub EXCEPT ![k] = [s EXCEPT !.at = "handler"]]
    /\ delivered' = IF u.kind = "tx" THEN delivered \cup {u.slot} ELSE delivered

\* Mutant: the gap begins one slot late.
GapLate(s, u) == u.kind = "slot" /\ s.lastSlot >= 0 /\ u.slot > s.lastSlot + 2

\* Slot updates only: at least one slot is missing before u.
Gap(s, u) == u.kind = "slot" /\ s.lastSlot >= 0 /\ u.slot > s.lastSlot + 1

passed(s, u) == IF u.kind = "slot" /\ u.slot > s.lastSlot THEN u.slot ELSE s.lastSlot

\* The first slot a client without a checkpoint sees: it knows of none before.
FirstSlot(s, u) == u.kind = "slot" /\ s.lastSlot < 0

\* The transactions of the missing slots, the end excluded.
Missing(s, u) == {n \in txs : s.lastSlot < n /\ n < u.slot}

\* At the end of its loop a subscription that was closed is done with.
Resting(s) == IF s.open THEN [s EXCEPT !.at = "idle"] ELSE NoSub

\* The loop's head, with subscription k in state s and the transactions of
\* ns just dropped: the next await is onGap's, the handler's, or none.
DrainOn(k, s, ns) ==
    IF ~s.open \/ s.queue = <<>>
    THEN /\ sub' = [sub EXCEPT ![k] = Resting(s)]
         /\ excused' = excused \cup ns
         /\ UNCHANGED delivered
    ELSE LET u == Head(s.queue)
             t == [s EXCEPT !.queue = Tail(@)]
         IN  IF Gap(s, u)
             THEN /\ sub' = [sub EXCEPT ![k] = [t EXCEPT !.at = "gap", !.hand = u,
                                                         !.todo = Missing(s, u)]]
                  /\ excused' = excused \cup ns
                  /\ UNCHANGED delivered
             ELSE /\ Handle(k, [t EXCEPT !.lastSlot = passed(s, u)], u)
                  /\ excused' = excused \cup ns \cup
                                IF FirstSlot(s, u) THEN {n \in txs : n < u.slot} ELSE {}

\* The oldest transaction that the backfill has not come to yet.
NextMissing(k, n) == n \in sub[k].todo /\ \A m \in sub[k].todo : n <= m

\* The backfill has fetched and delivered the next missing transaction.
BackfillDelivers(k) ==
    /\ sub[k].at = "gap"
    /\ \E n \in sub[k].todo :
        /\ NextMissing(k, n)
        /\ delivered' = delivered \cup {n}
        /\ sub' = [sub EXCEPT ![k].todo = @ \ {n}]
    /\ UNCHANGED <<chainVars, opened, stored, faults, excused>>

\* getTransaction answered null: the transaction is passed over.
BackfillFindsNull(k) ==
    /\ sub[k].at = "gap" /\ faults < MaxFaults
    /\ faults' = faults + 1
    /\ \E n \in sub[k].todo :
        /\ NextMissing(k, n)
        /\ excused' = excused \cup {n}
        /\ sub' = [sub EXCEPT ![k].todo = @ \ {n}]
    /\ UNCHANGED <<chainVars, opened, stored, delivered>>

\* onGap settles: with everything delivered, or by an error on the way.
BackfillEnds(k) ==
    /\ sub[k].at = "gap"
    /\ sub[k].todo # {} => faults < MaxFaults
    /\ faults' = IF sub[k].todo = {} THEN faults ELSE faults + 1
    /\ excused' = excused \cup sub[k].todo
    /\ Handle(k, [sub[k] EXCEPT !.todo = {}, !.lastSlot = passed(sub[k], sub[k].hand),
                               !.hand = NoSub.hand], sub[k].hand)
    /\ UNCHANGED <<chainVars, opened, stored>>

CheckpointDue(s) == s.lastSlot >= 0 /\ s.count % CheckpointEvery = 0

\* Mutant: the loop goes on only once the checkpoint is loaded.
HandlerSettledLoaded(k) ==
    LET s == [sub[k] EXCEPT !.count = @ + 1]
    IN  /\ sub[k].at = "handler" /\ ~sub[k].loading
        /\ IF CheckpointDue(s)
           THEN /\ sub' = [sub EXCEPT ![k] = [s EXCEPT !.at = "save"]]
                /\ UNCHANGED <<delivered, excused>>
           ELSE DrainOn(k, s, {})
        /\ UNCHANGED <<chainVars, opened, stored, faults>>

\* The handler settles: count, checkpoint when due, go on.
HandlerSettled(k) ==
    LET s == [sub[k] EXCEPT !.count = @ + 1]
    IN  /\ sub[k].at = "handler"
        /\ IF CheckpointDue(s)
           THEN /\ sub' = [sub EXCEPT ![k] = [s EXCEPT !.at = "save"]]
                /\ UNCHANGED <<delivered, excused>>
           ELSE DrainOn(k, s, {})
        /\ UNCHANGED <<chainVars, opened, stored, faults>>

\* The store's save() settles; a failed one leaves the old checkpoint.
SaveSettles(k, ok) ==
    /\ sub[k].at = "save"
    /\ ok \/ faults < MaxFaults
    /\ faults' = IF ok THEN faults ELSE faults + 1
    /\ stored' = IF ok THEN [slot |-> sub[k].lastSlot, count |-> sub[k].count] ELSE stored
    /\ DrainOn(k, sub[k], {})
    /\ UNCHANGED <<chainVars, opened>>

\* A listener of 'gap', 'update' or 'error' throws, or 'error' has none: the
\* loop is left at once, with what is queued.
ListenerThrows(k) ==
    /\ Running(k) /\ faults < MaxFaults
    /\ faults' = faults + 1
    /\ sub' = [sub EXCEPT ![k].at = "stopped", ![k].todo = {}, ![k].hand = NoSub.hand]
    /\ UNCHANGED <<chainVars, opened, stored, delivered, excused>>

-----------------------------------------------------------------------------
(* Opening and closing.                                                    *)

Alive == {k \in Subs : sub[k].open}

\* A transaction of the slot in the making was sent before this stream,
\* unless it is late.
Subscribe ==
    /\ Alive = {} /\ opened + 1 \in Subs
    /\ opened' = opened + 1
    /\ sub' = [sub EXCEPT ![opened + 1] = [NoSub EXCEPT !.open = TRUE, !.loading = TRUE]]
    /\ excused' = excused \cup {n \in txs \ late : n > tip}
    /\ overlap' = (overlap \/ \E k \in Subs : Running(k))
    /\ UNCHANGED <<tip, txs, late, unsent, crashes, stored, faults, delivered, gone>>

\* The checkpoint is loaded; it counts only if no slot was seen meanwhile.
LoadSettles(k, ok) ==
    /\ sub[k].loading
    /\ ok \/ faults < MaxFaults
    /\ faults' = IF ok THEN faults ELSE faults + 1
    /\ sub' = [sub EXCEPT ![k] =
                 IF ok /\ stored.slot > 0 /\ @.lastSlot < 0
                 THEN [@ EXCEPT !.loading = FALSE, !.lastSlot = stored.slot, !.count = stored.count]
                 ELSE [@ EXCEPT !.loading = FALSE]]
    /\ UNCHANGED <<chainVars, opened, stored, delivered, excused>>

\* The transaction of slot n waits in the queue of subscription k.
Queued(k, n) == \E u \in ToSet(sub[k].queue) : u.kind = "tx" /\ u.slot = n

\* close(), or the stream's end: what is queued is never handled, and a drain
\* loop that awaits something finishes the update in hand.
CloseSub(k) ==
    /\ sub[k].open
    /\ sub' = [sub EXCEPT ![k] = IF Running(k) THEN [@ EXCEPT !.open = FALSE, !.queue = <<>>]
                                 ELSE NoSub]
    /\ gone' = gone \cup {n \in late : Queued(k, n)}
    /\ UNCHANGED <<tip, txs, late, unsent, opened, stored, crashes, faults, delivered, excused,
                   overlap>>

CrashAndRestart ==
    /\ crashes < MaxCrashes
    /\ crashes' = crashes + 1
    /\ sub' = [k \in Subs |-> NoSub]
    /\ gone' = gone \cup {n \in late : \E k \in Subs : Queued(k, n)}
    /\ UNCHANGED <<tip, txs, late, unsent, opened, stored, faults, delivered, excused, overlap>>

-----------------------------------------------------------------------------
(* Updates.                                                                *)

enqueue(q, u) == Append(IF Len(q) >= QueueCapacity THEN Tail(q) ELSE q, u)

DroppedTx(k) ==
    IF Len(sub[k].queue) >= QueueCapacity /\ Head(sub[k].queue).kind = "tx"
    THEN {Head(sub[k].queue).slot} ELSE {}

\* The stream's 'data': queue the update and start the drain loop, if it is
\* not running.  Without an open stream nobody hears of it.
Receive(u) ==
    IF Alive = {} THEN UNCHANGED <<sub, delivered, excused>>
    ELSE LET k == CHOOSE k \in Alive : TRUE
             s == [sub[k] EXCEPT !.queue = enqueue(@, u)]
         IN  IF ~Running(k) THEN DrainOn(k, s, DroppedTx(k))
             ELSE /\ sub' = [sub EXCEPT ![k] = s]
                  /\ excused' = excused \cup DroppedTx(k)
                  /\ UNCHANGED delivered

\* A transaction of the slot in the making, sent at once.
ChainTx ==
    /\ tip < MaxTip /\ tip + 1 \notin txs
    /\ txs' = txs \cup {tip + 1}
    /\ Receive([kind |-> "tx", slot |-> tip + 1])
    /\ UNCHANGED <<tip, late, unsent, opened, stored, crashes, faults, gone, overlap>>

\* A transaction of the slot in the making that will be sent late.
ChainLateTx ==
    /\ tip < MaxTip /\ tip + 1 \in LateSlots \ txs
    /\ txs' = txs \cup {tip + 1}
    /\ late' = late \cup {tip + 1} /\ unsent' = unsent \cup {tip + 1}
    /\ UNCHANGED <<tip, sub, opened, stored, crashes, faults, delivered, excused, gone, overlap>>

\* A late transaction is sent: "we can get an account update for slot 100
\* after a slot update for slot 101".
SendLate(n) ==
    /\ n \in unsent /\ n <= tip
    /\ unsent' = unsent \ {n}
    /\ Receive([kind |-> "tx", slot |-> n])
    /\ gone' = IF Alive = {} THEN gone \cup {n} ELSE gone
    /\ UNCHANGED <<tip, txs, late, opened, stored, crashes, faults, overlap>>

\* The slot's status.
ChainSlot ==
    /\ tip < MaxTip
    /\ tip' = tip + 1
    /\ Receive([kind |-> "slot", slot |-> tip + 1])
    /\ UNCHANGED <<txs, late, unsent, opened, stored, crashes, faults, gone, overlap>>

\* A slot without a block.
ChainSkips ==
    /\ tip < MaxTip /\ tip + 1 \notin txs
    /\ tip' = tip + 1
    /\ UNCHANGED <<txs, late, unsent, sub, opened, stored, crashes, faults, delivered, excused,
                   gone, overlap>>

DrainStep(k) ==
    \/ BackfillDelivers(k) \/ BackfillFindsNull(k) \/ BackfillEnds(k)
    \/ HandlerSettled(k) \/ \E ok \in BOOLEAN : SaveSettles(k, ok)

GeyserNext ==
    \/ Subscribe \/ CrashAndRestart
    \/ ChainTx \/ ChainLateTx \/ ChainSlot \/ ChainSkips
    \/ \E n \in unsent : SendLate(n)
    \/ \E k \in Subs :
        \/ DrainStep(k) \/ ListenerThrows(k) \/ CloseSub(k)
        \/ \E ok \in BOOLEAN : LoadSettles(k, ok)

\* RPC calls, handlers and the store settle.
GeyserFairness == \A k \in Subs : WF_geyserVars(DrainStep(k))

GeyserSpec == GeyserInit /\ [][GeyserNext]_geyserVars /\ GeyserFairness

-----------------------------------------------------------------------------
(* Properties.                                                             *)

\* The transactions that were sent before the status of their slot.
Prompt == txs \ late

(* A checkpoint vouches for what came before it: every transaction up to   *)
(* its slot that was sent before the slot's status was handed over, live   *)
(* or from history, unless it was dropped from a full queue, could not be  *)
(* fetched, or was produced before the client knew of any slot.  A restart *)
(* may go on from there.                                                   *)
CheckpointIsHonest ==
    \A n \in Prompt : n <= stored.slot => n \in delivered \cup excused

(* The same of a subscription's own lastSlot, over gaps, drops, a listener *)
(* that throws and a checkpoint that loads late: no transaction sent in    *)
(* time slips by unaccounted for.                                          *)
NothingSlips ==
    \A k \in Subs, n \in Prompt :
        n <= sub[k].lastSlot => n \in delivered \cup excused

(* A late transaction has no checkpoint to fall back on, which may be past *)
(* it already, but nor does it vanish inside the client: once sent it is   *)
(* handed over, dropped from a full queue, failed to fetch, produced       *)
(* before the client knew of any slot or still queued, unless there was no *)
(* stream to send it on or the stream ended while it was queued.           *)
LateIsLostWithItsStream ==
    \A n \in late \ unsent :
        n \in delivered \cup excused \cup gone \/ \E k \in Subs : Queued(k, n)

(* "Using slot updates as the timeline source-of-truth keeps the detector  *)
(* simple and correct" (geyser-client.ts:53-58), had a checkpoint vouched  *)
(* for late transactions too.                                              *)
CheckpointCoversLate ==
    \A n \in txs \ unsent : n <= stored.slot => n \in delivered \cup excused

(* The drain loop of an open stream rests only when its queue is empty, or *)
(* when a listener threw.                                                  *)
RestsWhenEmpty ==
    \A k \in Subs : sub[k].open /\ sub[k].at = "idle" => sub[k].queue = <<>>

(* The checkpoint goes back only if a subscription was opened while the    *)
(* loop of a closed one still had an update in hand: close() leaves the    *)
(* loop alone (geyser-client.ts:570), and two loops save under one key.    *)
CheckpointGoesBackByOverlap ==
    [][stored'.slot < stored.slot => overlap]_geyserVars

(* An update in the queue of a subscription that stays open is handled or  *)
(* dropped, whatever fails on the way, unless a listener throws: the queue *)
(* then waits for the next update (geyser-client.ts:656).                  *)
QueueIsDrained ==
    \A k \in Subs :
        sub[k].queue # <<>> ~> sub[k].queue = <<>> \/ ~sub[k].open \/ sub[k].at = "stopped"

(* "If a listener throws, it is caught and re-emitted as 'error' - we do   *)
(* not let a faulty observer take down the stream" (geyser-client.ts:45).  *)
ListenersAreHarmless ==
    \A k \in Subs : sub[k].queue # <<>> ~> sub[k].queue = <<>> \/ ~sub[k].open

(* The safety of the client (geyser-client.ts): what a crash or a full     *)
(* queue may cost.                                                         *)
GeyserSafe ==
    /\ GeyserTypeOK
    /\ CheckpointIsHonest
    /\ NothingSlips
    /\ LateIsLostWithItsStream
    /\ RestsWhenEmpty
=============================================================================
