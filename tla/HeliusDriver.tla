--------------------------- MODULE HeliusDriver ---------------------------
(***************************************************************************)
(* The Helius driver: the admin client, whose calls read the webhook's     *)
(* configuration, change its addresses and write all of it back; the       *)
(* receiving side, which checks the Authorization header, splits a body    *)
(* into records and normalises each; and the health probe the accepted     *)
(* events feed.  The catch-up client is a reader of HistoryWalk.           *)
(***************************************************************************)
EXTENDS Integers, Sequences, SequencesExt, Selection

CONSTANTS
    Calls,          \* admin calls that can be under way at once
    Addresses,      \* account addresses
    WebhookBodies,         \* parsed request bodies: sequences of records
    Headers,        \* Authorization values, as sequences of bytes; <<>> is none
    Secret,         \* the configured secret
    Threshold,      \* silentThresholdMs
    MaxEdits, MaxAdminNow, MaxReceived  \* bounds: configuration versions, time, requests

\* What the receiver reads of an enhanced transaction.
HeliusTx == [sig : STRING, failed : BOOLEAN, type : STRING, source : STRING]

ASSUME HeliusAssumption ==
    /\ Threshold \in Nat /\ MaxEdits \in Nat /\ MaxAdminNow \in Nat /\ MaxReceived \in Nat
    /\ Headers \subseteq Seq(0..255) /\ Secret \in Seq(0..255)
    /\ WebhookBodies \subseteq Seq(HeliusTx)

VARIABLES
    webhook,    \* the configuration Helius holds: addresses, and the rest as a version
    admin,      \* admin[c]: the call's progress
    wanted,     \* history: the configuration as asked for, call after call; a PUT that writes
                \* back a configuration changed since its GET starts it anew
    events,     \* the events of the last accepted body
    body,       \* that body
    accepted,   \* history: the header of the last accepted request
    lastAt,     \* Healthz.lastAt, 0 while null
    recorded,   \* history: the times recordEvent() was given
    clock       \* Date.now(), from 1

heliusVars == <<webhook, admin, wanted, events, body, accepted, lastAt, recorded, clock>>
driverVars == <<events, body, accepted, lastAt, recorded, clock>>

IdleCall == [step |-> "idle", op |-> "none", addresses |-> {}, read |-> [addresses |-> {}, rest |-> 0]]

---------------------------------------------------------------------------
(* HeliusAdmin. *)
nextAddresses(op, have, given) ==
    CASE op = "subscribe" -> have \cup given
      [] op = "remove"    -> have \ given
      [] op = "reconcile" -> given

AdminCall(c, op, given) ==
    /\ admin[c].step = "idle"
    /\ admin' = [admin EXCEPT ![c] = [IdleCall EXCEPT !.step = "get", !.op = op, !.addresses = given]]
    /\ UNCHANGED <<webhook, wanted, driverVars>>

Ended(c) == admin' = [admin EXCEPT ![c] = IdleCall]

(* reconcile() returns without a PUT when it finds nothing to add or remove. *)
NothingToDo(call, have) == call.op = "reconcile" /\ have = call.addresses

GetConfig(c) ==
    /\ admin[c].step = "get"
    /\ IF NothingToDo(admin[c], webhook.addresses)
       THEN /\ Ended(c)
            /\ wanted' = [wanted EXCEPT !.addresses = admin[c].addresses]
       ELSE /\ admin' = [admin EXCEPT ![c].step = "put", ![c].read = webhook]
            /\ UNCHANGED wanted
    /\ UNCHANGED <<webhook, driverVars>>

\* Mutant: only the addresses are sent.
PutAddresses(c) ==
    /\ admin[c].step = "put"
    /\ LET call == admin[c]
           set == nextAddresses(call.op, call.read.addresses, call.addresses)
       IN /\ webhook' = [addresses |-> set, rest |-> 0]
          /\ wanted' = IF webhook # call.read THEN webhook'
                       ELSE [wanted EXCEPT !.addresses = nextAddresses(call.op, @, call.addresses)]
    /\ Ended(c)
    /\ UNCHANGED driverVars

(* The PUT carries every field of the GET but the addresses unchanged. *)
PutConfig(c) ==
    /\ admin[c].step = "put"
    /\ LET call == admin[c]
           set == nextAddresses(call.op, call.read.addresses, call.addresses)
       IN /\ webhook' = [call.read EXCEPT !.addresses = set]
          /\ wanted' = IF webhook # call.read THEN webhook'
                       ELSE [wanted EXCEPT !.addresses = nextAddresses(call.op, @, call.addresses)]
    /\ Ended(c)
    /\ UNCHANGED driverVars

(* A GET or a PUT that is refused throws and changes nothing. *)
AdminFails(c) ==
    /\ admin[c].step \in {"get", "put"}
    /\ Ended(c)
    /\ UNCHANGED <<webhook, wanted, driverVars>>

(* Somebody changes another field in the dashboard. *)
DashboardEdit ==
    /\ webhook.rest < MaxEdits
    /\ webhook' = [webhook EXCEPT !.rest = @ + 1]
    /\ wanted' = [wanted EXCEPT !.rest = @ + 1]
    /\ UNCHANGED <<admin, driverVars>>

---------------------------------------------------------------------------
(* verifyAuthHeader(): both values are padded with zero bytes to one length *)
(* for timingSafeEqual(), so the lengths are compared as well.             *)
padded(s, n) == [k \in 1..n |-> IF k \in DOMAIN s THEN s[k] ELSE 0]
constantTimeEquals(a, b) ==
    LET n == IF Len(a) > Len(b) THEN Len(a) ELSE Len(b)
    IN padded(a, n) = padded(b, n) /\ Len(a) = Len(b)
verifyAuthHeader(value) == value # <<>> /\ constantTimeEquals(value, Secret)

(* parseRawPayload(): records without a signature are skipped. *)
parseRawPayload(b) == Only(b, {tx \in ToSet(b) : tx.sig # ""})

Variant == [SWAP |-> "helius-swap", TOKEN_MINT |-> "helius-token-mint", TRANSFER |-> "helius-transfer"]
venueProgramId(tx) ==
    CASE tx.source = "PUMP"    -> "PUMPFUN_PROGRAM"
      [] tx.source = "JUPITER" -> "JUPITER_V6_PROGRAM"
      [] tx.source = "RAYDIUM" -> "RAYDIUM_AMM_V4_PROGRAM"
      [] OTHER                 -> "UNKNOWN_PROGRAM"

(* normalizeHeliusTx(): one event for every record, an unknown one for a    *)
(* failed or unclassified transaction; a transfer has no venue.            *)
unknownEvent(tx) == [kind |-> "unknown", signature |-> tx.sig, programId |-> "UNKNOWN_PROGRAM"]
normalizeHeliusTx(tx) ==
    IF tx.failed \/ tx.type \notin DOMAIN Variant THEN <<unknownEvent(tx)>>
    ELSE << [kind |-> Variant[tx.type], signature |-> tx.sig,
             programId |-> IF tx.type = "TRANSFER" THEN "UNKNOWN_PROGRAM" ELSE venueProgramId(tx)] >>

normalizeAll(txs) == FlattenSeq([k \in DOMAIN txs |-> normalizeHeliusTx(txs[k])])

(* recordEvent(), with the time of the call or an older one it is given. *)
recordEvent(at) == lastAt' = at /\ recorded' = Append(recorded, at)

Receive(header, b, at) ==
    /\ verifyAuthHeader(header)
    /\ Len(recorded) < MaxReceived
    /\ body' = b
    /\ events' = normalizeAll(parseRawPayload(b))
    /\ accepted' = header
    /\ IF events' = <<>> THEN UNCHANGED <<lastAt, recorded>> ELSE recordEvent(at)
    /\ UNCHANGED <<webhook, admin, wanted, clock>>

HeliusTick ==
    /\ clock < MaxAdminNow
    /\ clock' = clock + 1
    /\ UNCHANGED <<webhook, admin, wanted, events, body, accepted, lastAt, recorded>>

(* isHealthy(): a probe that has seen no event is not healthy. *)
isHealthy == lastAt # 0 /\ clock - lastAt <= Threshold

---------------------------------------------------------------------------
HeliusInit ==
    /\ webhook = [addresses |-> {}, rest |-> 0] /\ wanted = webhook
    /\ admin = [c \in Calls |-> IdleCall]
    /\ events = <<>> /\ body = <<>> /\ accepted = Secret
    /\ lastAt = 0 /\ recorded = <<>> /\ clock = 1

HeliusNext ==
    \/ \E c \in Calls :
          \/ \E op \in {"subscribe", "remove", "reconcile"}, given \in SUBSET Addresses :
                AdminCall(c, op, given)
          \/ GetConfig(c) \/ PutConfig(c) \/ AdminFails(c)
    \/ DashboardEdit
    \/ \E header \in Headers, b \in WebhookBodies, at \in 1..clock : Receive(header, b, at)
    \/ HeliusTick

HeliusSpec == HeliusInit /\ [][HeliusNext]_heliusVars

---------------------------------------------------------------------------
HeliusTypeOK ==
    /\ webhook \in [addresses : SUBSET Addresses, rest : 0..MaxEdits]
    /\ \A c \in Calls : /\ admin[c].step \in {"idle", "get", "put"}
                        /\ admin[c].step = "put" => ~NothingToDo(admin[c], admin[c].read.addresses)
    /\ lastAt \in 0..clock /\ recorded \in Seq(1..clock)
    /\ Len(events) <= Len(parseRawPayload(body))

(* subscribeAddresses(), removeAddresses() and reconcile() leave what they  *)
(* were asked for and every other field as it was, unless a PUT wrote back  *)
(* a configuration that had changed since its GET ("last-write-wins").     *)
CallsAreExact == webhook = wanted

(* A request is accepted only with the secret itself: the zero padding of   *)
(* the comparison lets no shorter or longer value through.                 *)
OnlyTheSecretOpens == accepted = Secret

(* The driver never drops a record that has a signature: one event each,    *)
(* in the order of the body; only a transaction that succeeded is decoded, *)
(* and only a swap or a token mint names a venue.                          *)
NothingIsDropped ==
    LET signed == {k \in DOMAIN body : body[k].sig # ""}
    IN /\ \E f \in [DOMAIN events -> signed] :
             /\ \A k \in signed : \E j \in DOMAIN events : f[j] = k
             /\ \A i, j \in DOMAIN events : i < j => f[i] < f[j]
             /\ \A j \in DOMAIN events :
                   LET tx == body[f[j]] IN
                   /\ events[j].signature = tx.sig
                   /\ events[j].kind # "unknown" => ~tx.failed
                   /\ events[j].programId # "UNKNOWN_PROGRAM" => tx.type \in {"SWAP", "TOKEN_MINT"}

(* The probe is healthy only if an event was recorded within the            *)
(* threshold, and it is healthy after one unless an older time was          *)
(* recorded since.                                                         *)
HealthTellsSilence ==
    /\ isHealthy => \E k \in DOMAIN recorded : clock - recorded[k] <= Threshold
    /\ recorded # <<>> /\ clock - Last(recorded) <= Threshold => isHealthy

(* The safety of the driver (helius admin.ts, receiver.ts, normalize.ts,   *)
(* health.ts).                                                             *)
HeliusSafe ==
    /\ HeliusTypeOK
    /\ CallsAreExact
    /\ OnlyTheSecretOpens
    /\ NothingIsDropped
    /\ HealthTellsSilence
=============================================================================
