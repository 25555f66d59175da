------------------------------ MODULE TxStream ------------------------------
(***************************************************************************)
(* A WebSocket transaction stream (tx-stream.ts): several subscriptions on *)
(* one socket, a reconnect with doubling delay after every drop, and       *)
(* onReconnect(lastSlot) so that the caller can fetch what it missed.      *)
(*                                                                         *)
(* Transaction n lands in slot n.  A transaction may mention several       *)
(* programs, each with a subscription of its own; RecentSet keeps it from  *)
(* being delivered twice while it remembers it.                            *)
(***************************************************************************)
EXTENDS Integers, Sequences, SequencesExt, FiniteSets

CONSTANTS
    StreamRequests,           \* subscriptions on the socket (one per program)
    RecentCapacity,     \* RecentSet's capacity
    BaseDelay, MaxDelay,
    MaxTx, MaxDrops     \* bounds

ASSUME StreamAssumption ==
    /\ IsFiniteSet(StreamRequests) /\ StreamRequests # {}
    /\ \A n \in {RecentCapacity, BaseDelay, MaxDelay} : n \in Nat \ {0}
    /\ MaxTx \in Nat /\ MaxDrops \in Nat

VARIABLES
    socket,         \* "connecting", "open", "waiting" (for the retry timer) or "closed"
    started,        \* the promise has resolved
    acked,          \* subscriptions of this socket the server has acknowledged
    subscribed,     \* subscriptions the server serves on this socket
    attempts,
    delay,          \* the delay of the pending retry
    lastSeen,       \* lastSlot; 0 for null
    recent,         \* RecentSet, oldest first
    head,           \* the newest transaction of the chain
    mentions,       \* transaction -> the programs it mentions
    drops,
    told,           \* history: the last onReconnect, its slot and how many drops it answers
    atDrop,         \* history: lastSlot when the socket dropped
    early,          \* history: a transaction came since, before the last acknowledgement
    got,            \* history: transactions delivered, in order
    repeated        \* history: one was delivered again within RecentSet's memory

txVars == <<socket, started, acked, subscribed, attempts, delay, lastSeen, recent, head, mentions,
            drops, told, atDrop, early, got, repeated>>
deliveryVars == <<lastSeen, recent, early, got, repeated>>

TxTypeOK ==
    /\ socket \in {"connecting", "open", "waiting", "closed"}
    /\ acked \subseteq subscribed /\ subscribed \subseteq StreamRequests
    /\ delay \in Int /\ delay <= MaxDelay /\ attempts \in Nat
    /\ Len(recent) <= RecentCapacity /\ IsInjective(recent)

TxInit ==
    /\ socket = "connecting" /\ started = FALSE
    /\ acked = {} /\ subscribed = {}
    /\ attempts = 0 /\ delay = 0 /\ lastSeen = 0 /\ recent = <<>>
    /\ head = 0 /\ mentions = <<>> /\ drops = 0
    /\ told = [drops |-> 0, slot |-> 0] /\ atDrop = 0 /\ early = FALSE /\ got = <<>> /\ repeated = FALSE

-----------------------------------------------------------------------------
(* The socket.                                                             *)

\* 'open': the requests go out; the server takes them up one by one.
Opens ==
    /\ socket = "connecting"
    /\ socket' = "open"
    /\ UNCHANGED <<started, acked, subscribed, attempts, delay, deliveryVars, head, mentions,
                   drops, told, atDrop>>

\* The server starts to serve a subscription, before or after it says so.
Serves(r) ==
    /\ socket = "open" /\ r \in StreamRequests \ subscribed
    /\ subscribed' = subscribed \cup {r}
    /\ UNCHANGED <<socket, started, acked, attempts, delay, deliveryVars, head, mentions, drops,
                   told, atDrop>>

AllAcked(a) == a = StreamRequests

\* Mutant: onReconnect is called only if a slot was seen.
AckedQuietly(r) ==
    /\ socket = "open" /\ r \in subscribed \ acked
    /\ acked' = acked \cup {r}
    /\ IF ~AllAcked(acked') THEN UNCHANGED <<started, attempts, told>>
       ELSE /\ attempts' = 0
            /\ started' = TRUE
            /\ told' = IF started /\ lastSeen > 0 THEN [drops |-> drops, slot |-> lastSeen]
                       ELSE told
    /\ UNCHANGED <<socket, subscribed, delay, deliveryVars, head, mentions, drops, atDrop>>

\* A subscription is acknowledged; with the last one the backoff starts
\* over and the caller hears of it.
Acked(r) ==
    /\ socket = "open" /\ r \in subscribed \ acked
    /\ acked' = acked \cup {r}
    /\ IF ~AllAcked(acked') THEN UNCHANGED <<started, attempts, told>>
       ELSE /\ attempts' = 0
            /\ started' = TRUE
            /\ told' = IF started THEN [drops |-> drops, slot |-> lastSeen] ELSE told
    /\ UNCHANGED <<socket, subscribed, delay, deliveryVars, head, mentions, drops, atDrop>>

backoff == IF BaseDelay * 2 ^ attempts < MaxDelay THEN BaseDelay * 2 ^ attempts ELSE MaxDelay

\* fail(): an error, a close, or a rejected subscription.  The first
\* connection has one chance; after it every failure schedules a retry.
Fail ==
    /\ socket \in {"connecting", "open"} /\ drops < MaxDrops
    /\ drops' = drops + 1
    /\ acked' = {} /\ subscribed' = {}
    /\ IF ~started
       THEN socket' = "closed" /\ UNCHANGED <<attempts, delay, atDrop, early>>
       ELSE /\ socket' = "waiting"
            /\ delay' = backoff
            /\ attempts' = attempts + 1
            /\ atDrop' = lastSeen /\ early' = FALSE
    /\ UNCHANGED <<started, lastSeen, recent, got, repeated, head, mentions, told>>

\* The retry timer.
Retry ==
    /\ socket = "waiting"
    /\ socket' = "connecting"
    /\ UNCHANGED <<started, acked, subscribed, attempts, delay, deliveryVars, head, mentions,
                   drops, told, atDrop>>

CloseStream ==
    /\ socket # "closed" /\ started
    /\ socket' = "closed"
    /\ acked' = {} /\ subscribed' = {}
    /\ UNCHANGED <<started, attempts, delay, deliveryVars, head, mentions, drops, told, atDrop>>

-----------------------------------------------------------------------------
(* Transactions.                                                           *)

\* A transaction lands; it mentions some of the programs.
Lands(ps) ==
    /\ head < MaxTx
    /\ head' = head + 1
    /\ mentions' = Append(mentions, ps)
    /\ UNCHANGED <<socket, started, acked, subscribed, attempts, delay, deliveryVars, drops, told,
                   atDrop>>

\* RecentSet.add of a new signature: the oldest goes when it outgrows.
add(n) == IF Len(recent) >= RecentCapacity THEN Append(Tail(recent), n) ELSE Append(recent, n)

WithinMemory(n) == \E k \in DOMAIN got : got[k] = n /\ Len(got) - k < RecentCapacity

\* A notification of subscription r for transaction n, which is recent:
\* dropped when remembered, else it moves lastSlot and is delivered.
Notified(r, n) ==
    /\ socket = "open" /\ r \in subscribed \cap mentions[n]
    /\ IF n \in ToSet(recent) THEN UNCHANGED deliveryVars
       ELSE /\ recent' = add(n)
            /\ lastSeen' = IF n > lastSeen THEN n ELSE lastSeen
            /\ repeated' = (repeated \/ WithinMemory(n))
            /\ got' = Append(got, n)
            /\ early' = (early \/ acked # StreamRequests)
    /\ UNCHANGED <<socket, started, acked, subscribed, attempts, delay, head, mentions, drops, told,
                   atDrop>>

TxNext ==
    \/ Opens \/ Fail \/ Retry \/ CloseStream
    \/ \E r \in StreamRequests : Serves(r) \/ Acked(r) \/ \E n \in 1..head : n >= head - 1 /\ Notified(r, n)
    \/ \E ps \in SUBSET StreamRequests \ {{}} : Lands(ps)

\* Timers fire, and once the stream has started the server is there again: it
\* accepts a socket and answers one that stays up.
TxFairness ==
    /\ WF_txVars(Retry) /\ WF_txVars(started /\ Opens)
    /\ \A r \in StreamRequests : WF_txVars(Serves(r)) /\ WF_txVars(Acked(r))

TxSpec == TxInit /\ [][TxNext]_txVars /\ TxFairness

-----------------------------------------------------------------------------
(* Properties.                                                             *)

(* RecentSet keeps a transaction that several subscriptions report, also   *)
(* on the next socket, from being delivered again while it is among the    *)
(* last RecentCapacity delivered (tx-stream.ts:145, :253).                 *)
NoRepeatWithinMemory == ~repeated

\* The server has acknowledged the last subscription of a later socket.
Reconnects == started /\ acked # StreamRequests /\ acked' = StreamRequests

(* Whenever a stream that has started is served in full again,             *)
(* onReconnect() is called, in that step, once for all the drops since it  *)
(* was served last, and in no other step.  The slot it tells is never      *)
(* behind the one the stream had seen when the socket dropped; it is ahead *)
(* only if a transaction of the new socket came before the last            *)
(* acknowledgement, and then a backfill from there misses what landed in   *)
(* between (tx-stream.ts:221).                                             *)
ReconnectIsTold ==
    [][/\ Reconnects => told'.drops = drops
       /\ told' # told => /\ Reconnects
                          /\ told.drops < told'.drops
                          /\ told'.slot >= atDrop
                          /\ told'.slot > atDrop => early]_txVars

(* "`lastSlot` is the last slot seen before it" (tx-stream.ts:57), so that *)
(* a backfill from there misses nothing.                                   *)
ToldIsBefore ==
    [][told' # told => told'.slot = atDrop]_txVars

(* A stream that has started comes back after every drop, unless it is     *)
(* closed.                                                                 *)
StreamComesBack ==
    started /\ socket = "waiting" ~> socket = "closed" \/ acked = StreamRequests

(* The safety of the stream (tx-stream.ts).                                *)
TxSafe ==
    /\ TxTypeOK
    /\ NoRepeatWithinMemory
=============================================================================
