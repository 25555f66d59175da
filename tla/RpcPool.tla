------------------------------ MODULE RpcPool ------------------------------
(***************************************************************************)
(* solana-connectivity's RpcPool: concurrent call()s routed over the       *)
(* endpoints by pickEndpoint, and the HealthState machine of every         *)
(* endpoint that their outcomes drive.                                     *)
(*                                                                         *)
(* The pool's HttpClients make one attempt and have no circuit breaker, so *)
(* a send is one answer: "ok" (a result, or a method error, which the      *)
(* health machine treats alike), "rate_limited" or "error".  Time is, for  *)
(* every endpoint, what is left until its probe is due.                    *)
(***************************************************************************)
EXTENDS Naturals, FiniteSets

CONSTANTS
    EndpointCount,       \* endpoints are 0..EndpointCount - 1, as configured
    Calls,               \* call()s that may be in flight together
    PoolAttempts,        \* retry.attempts
    DegradeThreshold,    \* HealthState.DEGRADE_THRESHOLD
    UnhealthyThreshold,  \* HealthState.UNHEALTHY_THRESHOLD
    BaseCooldown,        \* HealthState.PROBE_COOLDOWN_MS
    MaxCooldown          \* HealthState.MAX_PROBE_COOLDOWN_MS

ASSUME PoolAssumption ==
    /\ EndpointCount \in Nat \ {0} /\ PoolAttempts \in Nat \ {0}
    /\ DegradeThreshold \in Nat \ {0} /\ UnhealthyThreshold \in Nat
    /\ DegradeThreshold < UnhealthyThreshold
    /\ BaseCooldown \in Nat \ {0} /\ MaxCooldown \in Nat
    /\ BaseCooldown <= MaxCooldown

Endpoints == 0..(EndpointCount - 1)

VARIABLES
    health,     \* HealthState.#state per endpoint
    errors,     \* #consecutiveErrors, counted up to UnhealthyThreshold
    cooldown,   \* #cooldownMs
    probeIn,    \* #probeAt - now, 0 when the probe is due
    cursor,     \* RpcPool.#cursor
    callAt,     \* where each call() is: "idle", "sent" or "backoff"
    sentTo,     \* the endpoint of its latest attempt
    tries,      \* its attempt, 1..PoolAttempts
    sinceProbe  \* history: time since the last claimed probe, to BaseCooldown

healthVars == <<health, errors, cooldown, probeIn>>
callVars == <<callAt, sentTo, tries>>
poolVars == <<healthVars, cursor, callVars, sinceProbe>>

PoolTypeOK ==
    /\ health \in [Endpoints -> {"healthy", "degraded", "unhealthy"}]
    /\ errors \in [Endpoints -> 0..UnhealthyThreshold]
    /\ cooldown \in [Endpoints -> BaseCooldown..MaxCooldown]
    /\ probeIn \in [Endpoints -> 0..MaxCooldown]
    /\ cursor \in Endpoints
    /\ callAt \in [Calls -> {"idle", "sent", "backoff"}]
    /\ sentTo \in [Calls -> Endpoints]
    /\ tries \in [Calls -> 1..PoolAttempts]
    /\ sinceProbe \in [Endpoints -> 0..BaseCooldown]

PoolInit ==
    /\ health = [e \in Endpoints |-> "healthy"]
    /\ errors = [e \in Endpoints |-> 0]
    /\ cooldown = [e \in Endpoints |-> BaseCooldown]
    /\ probeIn = [e \in Endpoints |-> 0]
    /\ cursor = 0
    /\ callAt = [c \in Calls |-> "idle"]
    /\ sentTo = [c \in Calls |-> 0]
    /\ tries = [c \in Calls |-> 1]
    /\ sinceProbe = [e \in Endpoints |-> BaseCooldown]

-----------------------------------------------------------------------------
(* HealthState.                                                            *)

Lesser(a, b) == IF a < b THEN a ELSE b
OneMore(e) == Lesser(errors[e] + 1, UnhealthyThreshold)

\* Mutant: the cooldown of an earlier outage survives the recovery.
healthSuccessKeepsCooldown(e) ==
    /\ errors' = [errors EXCEPT ![e] = 0]
    /\ health' = [health EXCEPT ![e] = "healthy"]
    /\ UNCHANGED <<cooldown, probeIn>>

healthSuccess(e) ==
    /\ errors' = [errors EXCEPT ![e] = 0]
    /\ health' = [health EXCEPT ![e] = "healthy"]
    /\ cooldown' = [cooldown EXCEPT ![e] = BaseCooldown]
    /\ UNCHANGED probeIn

healthError(e) ==
    LET wait == IF health[e] = "unhealthy"
                THEN Lesser(2 * cooldown[e], MaxCooldown) ELSE cooldown[e]
        down == OneMore(e) >= UnhealthyThreshold
    IN  /\ errors' = [errors EXCEPT ![e] = OneMore(e)]
        /\ cooldown' = [cooldown EXCEPT ![e] = IF down THEN wait ELSE @]
        /\ probeIn' = [probeIn EXCEPT ![e] = IF down THEN wait ELSE @]
        /\ health' = [health EXCEPT ![e] = IF down THEN "unhealthy"
                          ELSE IF OneMore(e) >= DegradeThreshold THEN "degraded" ELSE @]

healthRateLimit(e) ==
    /\ errors' = [errors EXCEPT ![e] = OneMore(e)]
    /\ health' = [health EXCEPT ![e] =
                     IF @ = "healthy" /\ OneMore(e) >= DegradeThreshold
                     THEN "degraded" ELSE @]
    /\ UNCHANGED <<cooldown, probeIn>>

ProbeDue(e) == health[e] = "unhealthy" /\ probeIn[e] = 0

-----------------------------------------------------------------------------
(* Routing.                                                                *)

FirstFromCursor(S) ==
    CHOOSE e \in S : \A f \in S :
        (e + EndpointCount - cursor) % EndpointCount
            <= (f + EndpointCount - cursor) % EndpointCount

Tier(h) == {e \in Endpoints : health[e] = h}

\* Mutant: every endpoint, probed or not, may be picked when all are down.
PickableUnclaimed ==
    IF Tier("healthy") # {} THEN Tier("healthy")
    ELSE IF Tier("degraded") # {} THEN Tier("degraded")
    ELSE Tier("unhealthy")

\* Mutant: the last pass, which probes, is missing.
PickableNoProbe ==
    IF Tier("healthy") # {} THEN Tier("healthy") ELSE Tier("degraded")

\* The candidates of pickEndpoint's first pass that finds one.
Pickable ==
    IF Tier("healthy") # {} THEN Tier("healthy")
    ELSE IF Tier("degraded") # {} THEN Tier("degraded")
    ELSE {e \in Endpoints : ProbeDue(e)}

\* The order of the stable sort by EWMA.
Precedes(ewma, e, f) == ewma[e] < ewma[f] \/ (ewma[e] = ewma[f] /\ e <= f)

\* pinForWrite: the lowest EWMA of the best tier, the first one configured
\* among equals (a stable sort); nothing (it throws) when the tier is empty.
pinForWrite(ewma) ==
    LET tier == IF Tier("healthy") # {} THEN Tier("healthy") ELSE Tier("degraded")
    IN  CHOOSE e \in tier : \A f \in tier : Precedes(ewma, e, f)

\* call()'s loop body up to the await: pick an endpoint and send to it; a
\* picked unhealthy endpoint has its probe claimed (takeProbe).
SendAttempt(c, n) ==
    LET e == FirstFromCursor(Pickable)
        claimed == health[e] = "unhealthy"
    IN  /\ Pickable # {}
        /\ cursor' = (e + 1) % EndpointCount
        /\ probeIn' = [probeIn EXCEPT ![e] = IF claimed THEN cooldown[e] ELSE @]
        /\ sinceProbe' = [sinceProbe EXCEPT ![e] = IF claimed THEN 0 ELSE @]
        /\ callAt' = [callAt EXCEPT ![c] = "sent"]
        /\ sentTo' = [sentTo EXCEPT ![c] = e]
        /\ tries' = [tries EXCEPT ![c] = n]
        /\ UNCHANGED <<health, errors, cooldown>>

EndCall(c) == callAt' = [callAt EXCEPT ![c] = "idle"]

\* The loop finds nothing callable: circuit_open, thrown at once.
NothingCallable(c) ==
    /\ Pickable = {}
    /\ EndCall(c)
    /\ UNCHANGED <<healthVars, cursor, sentTo, tries, sinceProbe>>

Call(c) == callAt[c] = "idle" /\ (SendAttempt(c, 1) \/ NothingCallable(c))

\* The backoff is over: the next attempt picks again, on health as it is now.
RetryCall(c) ==
    callAt[c] = "backoff" /\ (SendAttempt(c, tries[c] + 1) \/ NothingCallable(c))

\* sendOnce() is awaiting its answer.
InFlight(c) == callAt[c] = "sent"

\* A result, or a JSON-RPC method error: a transport success either way.
Answered(c) ==
    /\ InFlight(c)
    /\ healthSuccess(sentTo[c])
    /\ EndCall(c)
    /\ UNCHANGED <<cursor, sentTo, tries, sinceProbe>>

\* A failed attempt backs off, the last one throws.
AfterFailure(c) ==
    callAt' = [callAt EXCEPT ![c] = IF tries[c] < PoolAttempts THEN "backoff" ELSE "idle"]

Failed(c) ==
    /\ InFlight(c)
    /\ healthError(sentTo[c])
    /\ AfterFailure(c)
    /\ UNCHANGED <<cursor, sentTo, tries, sinceProbe>>

RateLimited(c) ==
    /\ InFlight(c)
    /\ healthRateLimit(sentTo[c])
    /\ AfterFailure(c)
    /\ UNCHANGED <<cursor, sentTo, tries, sinceProbe>>

PoolTick ==
    /\ \E e \in Endpoints : probeIn[e] > 0 \/ sinceProbe[e] < BaseCooldown
    /\ probeIn' = [e \in Endpoints |-> IF probeIn[e] > 0 THEN probeIn[e] - 1 ELSE 0]
    /\ sinceProbe' = [e \in Endpoints |-> Lesser(sinceProbe[e] + 1, BaseCooldown)]
    /\ UNCHANGED <<health, errors, cooldown, cursor, callVars>>

PoolNext ==
    \/ PoolTick
    \/ \E c \in Calls :
        Call(c) \/ RetryCall(c) \/ Answered(c) \/ Failed(c) \/ RateLimited(c)

\* A send ends (HttpClient's timeout), a backoff is a timer, time passes.
\* That some caller keeps calling is an assumption on the application.
PoolFairness ==
    /\ WF_poolVars(PoolTick)
    /\ \A c \in Calls :
        /\ WF_poolVars(Answered(c) \/ Failed(c) \/ RateLimited(c))
        /\ WF_poolVars(RetryCall(c))
        /\ WF_poolVars(Call(c))

PoolSpec == PoolInit /\ [][PoolNext]_poolVars /\ PoolFairness

-----------------------------------------------------------------------------
(* Properties.                                                             *)

(* Health tells the streak of failures since the last success, whichever   *)
(* calls reported them and in whichever order: a short streak is healthy,  *)
(* unhealthy takes the full streak, and only an unhealthy endpoint has a   *)
(* cooldown above the base (health-state.ts recordError, recordSuccess).   *)
HealthIsTheStreak ==
    \A e \in Endpoints :
        /\ errors[e] < DegradeThreshold => health[e] = "healthy"
        /\ health[e] = "healthy" => errors[e] < DegradeThreshold
        /\ health[e] = "unhealthy" => errors[e] = UnhealthyThreshold
        /\ cooldown[e] > BaseCooldown => health[e] = "unhealthy"

(* Concurrent callers send one probe, not a burst (takeProbe's comment):   *)
(* two probes of an endpoint are claimed at least the base cooldown apart, *)
(* although results of older calls keep moving its state in between.       *)
ProbesAreSpaced ==
    [][\A c \in Calls :
          callAt[c] # "sent" /\ callAt'[c] = "sent" /\ health[sentTo'[c]] = "unhealthy"
          => sinceProbe[sentTo'[c]] = BaseCooldown]_poolVars

(* pinForWrite never pins an unhealthy endpoint, and pins a degraded or a  *)
(* slower one only when nothing better is there, whatever the trackers     *)
(* read (2 stands for the Infinity of an unseeded one).                    *)
PinIsBest ==
    \A ewma \in [Endpoints -> 0..2] :
        (\E e \in Endpoints : health[e] # "unhealthy") =>
            LET p == pinForWrite(ewma)
            IN  /\ health[p] # "unhealthy"
                /\ \A f \in Endpoints \ {p} :
                      \/ health[p] = "healthy" /\ health[f] # "healthy"
                      \/ health[f] = "unhealthy"
                      \/ health[f] = health[p] /\ ewma[p] <= ewma[f]

(* An outage of the whole pool ends in a probe: when every endpoint is     *)
(* unhealthy, a call reaches one of them again.                            *)
OutageIsProbed ==
    (Tier("unhealthy") = Endpoints) ~> (\E c \in Calls : callAt[c] = "sent")

(* Every call settles, although the pool may move it to another endpoint   *)
(* on each attempt.                                                        *)
CallSettles ==
    \A c \in Calls : callAt[c] = "sent" ~> callAt[c] = "idle"

(* The safety of the pool (rpc-pool.ts, health-state.ts).                  *)
PoolSafe ==
    /\ PoolTypeOK
    /\ HealthIsTheStreak
    /\ PinIsBest
=============================================================================
