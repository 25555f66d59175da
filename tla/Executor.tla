------------------------------ MODULE Executor ------------------------------
(***************************************************************************)
(* The executor of solana-executor: submit() with its in-flight map and    *)
(* retry loop, the failover over submitters, the bundle accumulator, the   *)
(* submitters' health, and the polling for landing (executor.ts,           *)
(* in-flight.ts, bundle-accumulator.ts, submitter.ts, confirm-landed.ts).  *)
(*                                                                         *)
(* The chain is the environment: a transaction that reached the network    *)
(* may land, revert or expire at any time, whatever the executor was told. *)
(* Every attempt signs over a fresh blockhash, so <<c, n>>, the n-th       *)
(* attempt of call c, names a transaction.                                 *)
(***************************************************************************)
EXTENDS Naturals, Sequences, FiniteSets

CONSTANTS
    Calls,          \* calls of submit()
    Intent,         \* Intent[c]: the intentId call c submits
    Intents,        \* per intent: attempts, deadline, group (or None), tipped,
                    \*   prefers: the submitters it may use, in order
    Submitters, Jito,       \* all submitters; those of a jito kind
    JitoOrder,      \* the jito submitters in the order flushBundle tries them
    MaxPerBundle, Cooldown,
    None,
    MaxTime         \* bound on the clock

Groups == {Intents[i].group : i \in DOMAIN Intents} \ {None}

(* intent.retry.maxAttempts, with 0 read as 1.                             *)
MaxAttempts(c) == IF Intents[Intent[c]].attempts > 0 THEN Intents[Intent[c]].attempts ELSE 1

AttemptBound == 10      \* bound on intent.retry.maxAttempts

Txs == {t \in Calls \X (1..AttemptBound) : t[2] <= MaxAttempts(t[1])}

ASSUME ExecutorAssumption ==
    /\ Intent \in [Calls -> DOMAIN Intents]
    /\ \A i \in DOMAIN Intents :
          /\ Intents[i].attempts \in 0..AttemptBound /\ Intents[i].deadline \in Nat
          /\ Intents[i].tipped \in BOOLEAN
          /\ Intents[i].prefers \in Seq(Submitters)
    /\ Jito \subseteq Submitters /\ JitoOrder \in Seq(Jito)
    /\ None \notin Calls \union Submitters
    /\ MaxPerBundle \in Nat \ {0} /\ Cooldown \in Nat /\ MaxTime \in Nat

VARIABLES
    now,
    call,       \* call -> progress of the call and of the execution it runs
    inFlight,   \* intent -> the call whose execution is in flight, or None
    failedAt,   \* submitter -> time of the failure its health remembers, or None
    group,      \* group -> calls whose entries wait in the accumulator
    flights,    \* bundles being submitted by flushBundle
    chain,      \* transaction -> none | sent | landed | reverted | expired
    outcome     \* history: transaction -> how its attempt ended, "open" before

vars == <<now, call, inFlight, failedAt, group, flights, chain, outcome>>

-----------------------------------------------------------------------------
(* Submitter health (HealthTracker): a failure makes it unhealthy for the  *)
(* cooldown, then it is usable again.                                      *)
Usable(s) == failedAt[s] = None \/ now - failedAt[s] >= Cooldown

(* The usable ones of a list of submitters, as positions in it: they are   *)
(* tried from the first on.                                                *)
usableIn(order) == {k \in DOMAIN order : Usable(order[k])}
First(S) == CHOOSE k \in S : \A m \in S : k <= m

candidates(i) == usableIn(Intents[i].prefers)

track(s, ok) == failedAt' = [failedAt EXCEPT ![s] = IF ok THEN None ELSE now]

-----------------------------------------------------------------------------
(* Results.  A call waits for an execution and settles with its result:    *)
(* what happened and which transaction it names; "threw" is a rejection of *)
(* the promise itself.                                                     *)

(* Mutant: a revert counts as transient.                                   *)
RetryableReverts == {"timeout", "blockhash_fetch_failed", "no_submitter", "submit_failed",
                     "bundle_flush_failed", "reverted"}

Retryable == {"timeout", "blockhash_fetch_failed", "no_submitter", "submit_failed",
              "bundle_flush_failed"}
TerminalReject == {"wallet_locked", "reserve_breach", "sign_failed", "no_tip_account",
                   "bundle_without_tip", "no_jito_submitter_for_bundle"}
Results == Retryable \union TerminalReject \union {"landed", "reverted", "threw"}

NoTx == <<None, 0>>

NoCall == [pc |-> "idle", runs |-> None, attempt |-> 0, subs |-> {}, result |-> "none",
           tx |-> NoTx]

Tx(c) == <<c, call[c].attempt>>

Settled(x, result, tx) ==
    [x EXCEPT !.pc = "settled", !.subs = {}, !.result = result, !.tx = tx]

Retries(c, result) == result \in Retryable /\ call[c].attempt < MaxAttempts(c)

(* The calls that settle when the attempts of cs end with result: all that *)
(* are attached to an execution that does not retry.                       *)
Settling(cs, result) ==
    {c \in Calls : /\ call[c].pc # "settled" /\ call[c].runs \in cs
                   /\ ~Retries(call[c].runs, result)}

(* An attempt of the executions in cs ended with result: run the next      *)
(* attempt (runWithRetry), or settle every call attached to the execution  *)
(* and free the slot (InFlightMap.run).  The result names the transaction  *)
(* of the attempt when there is a signature to name.                       *)
EndAttempt(cs, result, named) ==
    /\ call' = [c \in Calls |->
         IF c \in Settling(cs, result)
           THEN Settled(call[c], result, IF named THEN Tx(call[c].runs) ELSE NoTx)
         ELSE IF c \in cs
           THEN [call[c] EXCEPT !.pc = "attempt", !.attempt = @ + 1, !.subs = {}]
         ELSE call[c]]
    /\ inFlight' = [i \in DOMAIN inFlight |->
                      IF inFlight[i] \in Settling(cs, result) THEN None ELSE inFlight[i]]
    /\ outcome' = [t \in DOMAIN outcome |->
                     IF \E c \in cs : t = Tx(c) THEN result ELSE outcome[t]]

-----------------------------------------------------------------------------
(* The transactions of the calls in cs reach the network.                  *)
reach(cs) == [t \in DOMAIN chain |->
                IF chain[t] = "none" /\ \E c \in cs : t = Tx(c) THEN "sent" ELSE chain[t]]

executionOf(i) == inFlight[i]

(* submit(): the bundle check, then attach to the execution in flight for  *)
(* this intent or begin one.                                               *)
Submit(c) ==
    /\ call[c].pc = "idle"
    /\ IF Intents[Intent[c]].group # None /\ ~\E s \in Jito : Usable(s)
         THEN /\ call' = [call EXCEPT ![c] =
                            Settled(@, "no_jito_submitter_for_bundle", NoTx)]
              /\ UNCHANGED inFlight
         ELSE LET existing == executionOf(Intent[c]) IN
              IF existing # None
                THEN /\ call' = [call EXCEPT ![c] = [@ EXCEPT !.pc = "attached",
                                                               !.runs = existing]]
                     /\ UNCHANGED inFlight
                ELSE /\ call' = [call EXCEPT ![c] = [@ EXCEPT !.pc = "attempt", !.runs = c,
                                                               !.attempt = 1]]
                     /\ inFlight' = [inFlight EXCEPT ![Intent[c]] = c]
    /\ UNCHANGED <<now, failedAt, group, flights, chain, outcome>>

(* execute() fails before anything is signed: wallet, blockhash, tip       *)
(* account, assembly.                                                      *)
PrepareFails(c, code) ==
    /\ call[c].pc = "attempt"
    /\ \/ code \in {"wallet_locked", "blockhash_fetch_failed", "reserve_breach", "sign_failed"}
       \/ code = "no_tip_account" /\ Intents[Intent[c]].group # None /\ Intents[Intent[c]].tipped
    /\ EndAttempt({c}, code, FALSE)
    /\ UNCHANGED <<now, failedAt, group, flights, chain>>

NoSubmitter(c) ==
    /\ call[c].pc = "attempt"
    /\ candidates(Intent[c]) = {}
    /\ EndAttempt({c}, "no_submitter", FALSE)
    /\ UNCHANGED <<now, failedAt, group, flights, chain>>

(* The signed transaction goes to the submitters of a single-tx kind that  *)
(* were usable when the attempt looked.                                    *)
Route(c) ==
    /\ call[c].pc = "attempt"
    /\ Intents[Intent[c]].group = None
    /\ candidates(Intent[c]) # {}
    /\ call' = [call EXCEPT ![c] = [@ EXCEPT !.pc = "send",
                  !.subs = {k \in candidates(Intent[c]) : Intents[Intent[c]].prefers[k] \notin Jito}]]
    /\ UNCHANGED <<now, inFlight, failedAt, group, flights, chain, outcome>>

NextSubmitter(c) == Intents[Intent[c]].prefers[First(call[c].subs)]

(* candidate.submit() accepts the transaction.                             *)
SendOk(c) ==
    /\ call[c].pc = "send" /\ call[c].subs # {}
    /\ track(NextSubmitter(c), TRUE)
    /\ chain' = reach({c})
    /\ call' = [call EXCEPT ![c].pc = "poll", ![c].subs = {}]
    /\ UNCHANGED <<now, inFlight, group, flights, outcome>>

(* candidate.submit() throws, or returns no signature (which its health    *)
(* counts as a success), whether or not the transaction got through: the   *)
(* next candidate is tried with the same one.                              *)
SendFails(c) ==
    /\ call[c].pc = "send" /\ call[c].subs # {}
    /\ \E ok \in BOOLEAN : track(NextSubmitter(c), ok)
    /\ chain' \in {chain, reach({c})}
    /\ call' = [call EXCEPT ![c].subs = @ \ {First(@)}]
    /\ UNCHANGED <<now, inFlight, group, flights, outcome>>

SendExhausted(c) ==
    /\ call[c].pc = "send" /\ call[c].subs = {}
    /\ EndAttempt({c}, "submit_failed", FALSE)
    /\ UNCHANGED <<now, failedAt, group, flights, chain>>

-----------------------------------------------------------------------------
(* Bundles.  The accumulator collects the calls of a group until it is     *)
(* full or its window timer fires; flush() then takes the whole group out  *)
(* and submits it as one bundle.                                           *)

Flight(cs) == [calls |-> cs, subs |-> usableIn(JitoOrder)]

Tipped(f) == \E k \in DOMAIN f.calls : Intents[Intent[f.calls[k]]].tipped

Members(f) == {f.calls[k] : k \in DOMAIN f.calls}

(* add(), with the flush of a group that became full.                      *)
AddToBundle(c) ==
    LET g == Intents[Intent[c]].group
        entries == Append(group[g], c)
    IN  /\ call[c].pc = "attempt"
        /\ g # None
        /\ candidates(Intent[c]) # {}
        /\ call' = [call EXCEPT ![c].pc = "bundled"]
        /\ IF Len(entries) >= MaxPerBundle
             THEN group' = [group EXCEPT ![g] = <<>>] /\ flights' = flights \union {Flight(entries)}
             ELSE group' = [group EXCEPT ![g] = entries] /\ UNCHANGED flights
        /\ UNCHANGED <<now, inFlight, failedAt, chain, outcome>>

(* Mutants: flush() leaves the group in the map; the timer only flushes a  *)
(* full group.                                                             *)
FlushTimerKeepsGroup(g) ==
    /\ group[g] # <<>>
    /\ flights' = flights \union {Flight(group[g])}
    /\ UNCHANGED <<now, call, inFlight, failedAt, group, chain, outcome>>

FlushTimerFullOnly(g) ==
    /\ Len(group[g]) >= MaxPerBundle
    /\ flights' = flights \union {Flight(group[g])}
    /\ group' = [group EXCEPT ![g] = <<>>]
    /\ UNCHANGED <<now, call, inFlight, failedAt, chain, outcome>>

(* The window timer, armed by the first entry of the group.                *)
FlushTimer(g) ==
    /\ group[g] # <<>>
    /\ flights' = flights \union {Flight(group[g])}
    /\ group' = [group EXCEPT ![g] = <<>>]
    /\ UNCHANGED <<now, call, inFlight, failedAt, chain, outcome>>

(* flushBundle() without a tipped entry throws before submitting.          *)
FlightUntipped(f) ==
    /\ ~Tipped(f)
    /\ flights' = flights \ {f}
    /\ EndAttempt(Members(f), "bundle_without_tip", FALSE)
    /\ UNCHANGED <<now, failedAt, group, chain>>

(* A jito submitter accepts the bundle: every entry goes on to poll for    *)
(* its own signature.                                                      *)
FlightOk(f) ==
    /\ Tipped(f) /\ f.subs # {}
    /\ track(JitoOrder[First(f.subs)], TRUE)
    /\ chain' = reach(Members(f))
    /\ flights' = flights \ {f}
    /\ call' = [c \in Calls |-> IF c \in Members(f) THEN [call[c] EXCEPT !.pc = "poll"]
                                ELSE call[c]]
    /\ UNCHANGED <<now, inFlight, group, outcome>>

(* A jito submitter throws, with or without the bundle getting through:    *)
(* the next one is tried.                                                  *)
FlightFails(f) ==
    /\ Tipped(f) /\ f.subs # {}
    /\ track(JitoOrder[First(f.subs)], FALSE)
    /\ chain' \in {chain, reach(Members(f))}
    /\ flights' = (flights \ {f}) \union {[f EXCEPT !.subs = @ \ {First(@)}]}
    /\ UNCHANGED <<now, call, inFlight, group, outcome>>

FlightExhausted(f) ==
    /\ Tipped(f) /\ f.subs = {}
    /\ flights' = flights \ {f}
    /\ EndAttempt(Members(f), "bundle_flush_failed", FALSE)
    /\ UNCHANGED <<now, failedAt, group, chain>>

-----------------------------------------------------------------------------
(* confirmLanded().                                                        *)

Deadline(c) == Intents[Intent[c]].deadline

PollTimeout(c) ==
    /\ call[c].pc = "poll" /\ now >= Deadline(c)
    /\ EndAttempt({c}, "timeout", TRUE)
    /\ UNCHANGED <<now, failedAt, group, flights, chain>>

PollAsk(c) ==
    /\ call[c].pc = "poll" /\ now < Deadline(c)
    /\ call' = [call EXCEPT ![c].pc = "asking"]
    /\ UNCHANGED <<now, inFlight, failedAt, group, flights, chain, outcome>>

(* Mutant: a status counts as landed without a look at its err.            *)
StatusLandedAnyhow(c) ==
    /\ call[c].pc = "asking" /\ chain[Tx(c)] \in {"landed", "reverted"}
    /\ EndAttempt({c}, "landed", TRUE)
    /\ UNCHANGED <<now, failedAt, group, flights, chain>>

(* getSignatureStatuses answers: confirmed, failed on chain, or nothing    *)
(* yet (which an endpoint that lags may say of a landed transaction too).  *)
StatusLanded(c) ==
    /\ call[c].pc = "asking" /\ chain[Tx(c)] = "landed"
    /\ EndAttempt({c}, "landed", TRUE)
    /\ UNCHANGED <<now, failedAt, group, flights, chain>>

StatusReverted(c) ==
    /\ call[c].pc = "asking" /\ chain[Tx(c)] = "reverted"
    /\ call' = [call EXCEPT ![c].pc = "reverting"]
    /\ UNCHANGED <<now, inFlight, failedAt, group, flights, chain, outcome>>

StatusNothing(c) ==
    /\ call[c].pc = "asking"
    /\ call' = [call EXCEPT ![c].pc = "poll"]
    /\ UNCHANGED <<now, inFlight, failedAt, group, flights, chain, outcome>>

(* getTransaction answers with the logs.                                   *)
RevertedLogs(c) ==
    /\ call[c].pc = "reverting"
    /\ EndAttempt({c}, "reverted", TRUE)
    /\ UNCHANGED <<now, failedAt, group, flights, chain>>

(* Either RPC call of confirmLanded() throws.  Nothing above it catches.   *)
ConfirmThrows(c) ==
    /\ call[c].pc \in {"asking", "reverting"}
    /\ EndAttempt({c}, "threw", FALSE)
    /\ UNCHANGED <<now, failedAt, group, flights, chain>>

-----------------------------------------------------------------------------
(* The network (external) decides about what reached it.                   *)
ChainDecides(t) ==
    /\ chain[t] = "sent"
    /\ chain' \in {[chain EXCEPT ![t] = v] : v \in {"landed", "reverted", "expired"}}
    /\ UNCHANGED <<now, call, inFlight, failedAt, group, flights, outcome>>

Tick ==
    /\ now < MaxTime
    /\ now' = now + 1
    /\ UNCHANGED <<call, inFlight, failedAt, group, flights, chain, outcome>>

Init ==
    /\ now = 0
    /\ call = [c \in Calls |-> NoCall]
    /\ inFlight = [i \in DOMAIN Intents |-> None]
    /\ failedAt = [s \in Submitters |-> None]
    /\ group = [g \in Groups |-> <<>>]
    /\ flights = {}
    /\ chain = [t \in Txs |-> "none"]
    /\ outcome = [t \in Txs |-> "open"]

(* What the runtime owes a call once made: promises settle.                *)
Proceed(c) ==
    \/ \E code \in Results : PrepareFails(c, code)
    \/ NoSubmitter(c) \/ Route(c) \/ AddToBundle(c)
    \/ SendOk(c) \/ SendFails(c) \/ SendExhausted(c)
    \/ PollTimeout(c) \/ PollAsk(c) \/ StatusLanded(c) \/ StatusReverted(c)
    \/ StatusNothing(c) \/ RevertedLogs(c) \/ ConfirmThrows(c)

Flying ==
    \E f \in flights :
        FlightUntipped(f) \/ FlightOk(f) \/ FlightFails(f) \/ FlightExhausted(f)

Next ==
    \/ \E c \in Calls : Submit(c) \/ Proceed(c)
    \/ \E g \in Groups : FlushTimer(g)
    \/ Flying
    \/ \E t \in Txs : ChainDecides(t)
    \/ Tick

Spec == Init /\ [][Next]_vars

(* Promises settle, timers fire and time passes while a call is waiting;   *)
(* callers need not call and the network owes nothing.                     *)
ExecutorFairness ==
    /\ WF_vars((\E c \in Calls : call[c].pc \notin {"idle", "settled"}) /\ Tick)
    /\ WF_vars(Flying)
    /\ \A c \in Calls : WF_vars(Proceed(c))
    /\ \A g \in Groups : WF_vars(FlushTimer(g))

-----------------------------------------------------------------------------
Pcs == {"idle", "attached", "attempt", "send", "bundled", "poll", "asking", "reverting",
        "settled"}

Executing(c) == call[c].pc \notin {"idle", "attached", "settled"}

(* Every variable has its type, and no execution exceeds its attempts.     *)
TypeOK ==
    /\ now \in Nat
    /\ call \in [Calls -> [pc : Pcs, runs : Calls \union {None}, attempt : Nat,
                           subs : SUBSET Nat, result : Results \union {"none"},
                           tx : Txs \union {NoTx}]]
    /\ \A c \in Calls : /\ call[c].attempt <= MaxAttempts(c)
                       /\ call[c].subs \subseteq DOMAIN Intents[Intent[c]].prefers
    /\ inFlight \in [DOMAIN Intents -> Calls \union {None}]
    /\ failedAt \in [Submitters -> Nat \union {None}]
    /\ group \in [Groups -> Seq(Calls)]
    /\ \A f \in flights : f.calls \in Seq(Calls) /\ f.subs \subseteq DOMAIN JitoOrder
    /\ chain \in [Txs -> {"none", "sent", "landed", "reverted", "expired"}]
    /\ outcome \in [Txs -> Results \union {"open"}]

(* "Duplicate intentIds share one InFlightMap slot": two executions of one *)
(* intent are never under way at the same time, retries included.          *)
OneExecutionPerIntent ==
    \A c, d \in Calls : Executing(c) /\ Executing(d) /\ Intent[c] = Intent[d] => c = d

(* Calls that shared an execution "receive the same resolution".           *)
SharedResolution ==
    \A c, d \in Calls :
        /\ call[c].runs # None /\ call[c].runs = call[d].runs
        /\ call[c].pc = "settled"
        => call[d].pc = "settled" /\ call[d].result = call[c].result /\ call[d].tx = call[c].tx

(* A landed or reverted result is the truth about a transaction of that    *)
(* very intent, also for the entries of a bundle.                          *)
VerdictIsTrue ==
    \A c \in Calls : call[c].result \in {"landed", "reverted"} =>
        chain[call[c].tx] = call[c].result /\ Intent[call[c].tx[1]] = Intent[c]

(* The retry loop can let two transactions of one execution take effect    *)
(* only when the earlier attempt ended without knowing: a timeout or a     *)
(* failed submission whose bytes got through after all.                    *)
DoubleLandingIsAmbiguous ==
    \A s, t \in Txs :
        /\ s[1] = t[1] /\ s[2] < t[2]
        /\ chain[s] \in {"landed", "reverted"} /\ chain[t] # "none"
        => outcome[s] \in {"timeout", "submit_failed", "bundle_flush_failed"}

(* The parts above of what callers of one intent are promised: one         *)
(* execution, one result for all, and a result that is the truth.          *)
CallsShareTheTruth ==
    TypeOK /\ OneExecutionPerIntent /\ SharedResolution /\ VerdictIsTrue

(* An attempt rejected before submission put nothing on the network: a     *)
(* bundle without a tip in particular is refused before any submitter saw  *)
(* it.                                                                     *)
RejectedIsUnsent ==
    \A t \in Txs :
        outcome[t] \in TerminalReject \union {"blockhash_fetch_failed", "no_submitter"} =>
            chain[t] = "none"

(* A call waiting for its bundle is in exactly one place, once: an open    *)
(* group or one bundle in flight; and bundles keep to their limit.         *)
BundledOnce ==
    /\ \A c \in Calls :
         LET inGroups == {p \in Groups \X (1..MaxPerBundle) :
                            p[2] \in DOMAIN group[p[1]] /\ group[p[1]][p[2]] = c}
             inFlights == {p \in flights \X (1..MaxPerBundle) :
                            p[2] \in DOMAIN p[1].calls /\ p[1].calls[p[2]] = c}
         IN  Cardinality(inGroups) + Cardinality(inFlights) =
                IF call[c].pc = "bundled" THEN 1 ELSE 0
    /\ \A f \in flights : Len(f.calls) <= MaxPerBundle

(* What bundling may not do: lose or repeat a call, or send what it        *)
(* refused.                                                                *)
BundlesAreSound == TypeOK /\ RejectedIsUnsent /\ BundledOnce

(* Every call of submit() settles, whatever fails and whoever it shares a  *)
(* bundle or a slot with.                                                  *)
EveryCallSettles == \A c \in Calls : call[c].pc # "idle" ~> call[c].pc = "settled"

(* "The Executor never throws for user-visible failure modes."             *)
NeverThrows == \A c \in Calls : call[c].result # "threw"
=============================================================================
