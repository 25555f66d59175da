---------------------------- MODULE ConnectivityProofs ----------------------------
(***************************************************************************)
(* The circuit breaker of solana-core's HttpClient and the RpcPool of      *)
(* solana-connectivity, for any number of requests, calls, endpoints,      *)
(* attempts and thresholds: the half-open slot is never leaked and a closed*)
(* circuit is below its threshold; an endpoint's health is its streak of   *)
(* failures, the pinned endpoint is the best one, and two probes of an     *)
(* endpoint are the base cooldown apart.                                   *)
(***************************************************************************)
EXTENDS MCConnectivity, WellFoundedInduction, TLAPS

(* What the safety of the breaker rests on: the slot is taken exactly while*)
(* the circuit is half-open, by one of the probes in flight, and a request *)
(* that waits for its next attempt has one left.                           *)
SlotIsHalfOpen ==
    /\ probeFlag <=> circuit = "half-open"
    /\ circuit # "half-open" => prober = NoRequest
DelaysHaveAttempts == \A r \in Requests : reqAt[r] = "delay" => attempt[r] < HttpAttempts

ProberIsProbe == prober # NoRequest => prober \in probes

HttpInv == BreakerSafe /\ SlotIsHalfOpen /\ DelaysHaveAttempts /\ ProberIsProbe

(* A settlement, whatever its result, leaves the circuit open or closed    *)
(* with the slot free (_recordSuccess, _recordFailure), also when the      *)
(* request was admitted before the circuit opened.                         *)
LEMMA SettlementMovesOn ==
    ASSUME HttpInv, NEW r \in Requests, recordSuccess \/ recordFailure, Settle(r)
    PROVE  HttpInv'
<1> USE HttpAssumption DEF HttpInv, BreakerSafe
<1>1. HttpTypeOK'
  <2>1. /\ circuit' \in {"closed", "open", "half-open"} /\ failures' \in 0..FailureThreshold
        /\ openAge' \in 0..HttpRecovery /\ probeFlag' = FALSE /\ prober' = NoRequest
    BY DEF HttpTypeOK, recordSuccess, recordFailure, Counted
  <2>2. /\ reqAt' \in [Requests -> {"idle", "fetch", "delay"}]
        /\ attempt' \in [Requests -> 1..HttpAttempts] /\ aborted' \in [Requests -> BOOLEAN]
    BY DEF HttpTypeOK, Settle
  <2>3. probes' \subseteq Requests /\ overtaken' \subseteq probes'
    <3>1. prober # NoRequest => prober \in probes
      BY DEF ProberIsProbe
    <3> QED
      BY <3>1 DEF HttpTypeOK, Settle
  <2> QED
    BY <2>1, <2>2, <2>3 DEF HttpTypeOK
<1>2. /\ circuit' # "half-open" /\ ~probeFlag' /\ prober' = NoRequest
      /\ circuit' = "closed" => failures' < FailureThreshold
  BY DEF HttpTypeOK, recordSuccess, recordFailure, Counted, ClosedBelowThreshold
<1>3. DelaysHaveAttempts'
  BY DEF HttpTypeOK, Settle, DelaysHaveAttempts
<1>4. SecondProbeNeedsStraggler' /\ ProberIsProbe'
  BY <1>2 DEF HttpTypeOK, Settle, SecondProbeNeedsStraggler, ProberIsProbe
<1> QED
  BY <1>1, <1>2, <1>3, <1>4 DEF HalfOpenHasProbe, SlotIsHalfOpen, ClosedBelowThreshold

(* A step that leaves the breaker alone and makes no request idle.         *)
LEMMA BreakerUntouched ==
    ASSUME HttpInv, UNCHANGED breaker, HttpTypeOK', DelaysHaveAttempts',
           \A r \in Requests : reqAt'[r] = "idle" => reqAt[r] = "idle"
    PROVE  HttpInv'
  BY HttpAssumption DEF HttpInv, BreakerSafe, breaker, HttpTypeOK, HalfOpenHasProbe, SlotIsHalfOpen,
       ClosedBelowThreshold, SecondProbeNeedsStraggler, ProberIsProbe

(* Every step of a request or of the clock keeps the invariant.            *)
LEMMA HttpStep == HttpInv /\ [HttpNext]_httpVars => HttpInv'
<1> SUFFICES ASSUME HttpInv, [HttpNext]_httpVars PROVE HttpInv'
  OBVIOUS
<1>0. /\ HttpTypeOK /\ HalfOpenHasProbe /\ ClosedBelowThreshold /\ SlotIsHalfOpen
      /\ DelaysHaveAttempts /\ SecondProbeNeedsStraggler /\ ProberIsProbe
  BY DEF HttpInv, BreakerSafe
<1>1. CASE HttpTick
  <2>1. HttpTypeOK'
    BY <1>0, <1>1, HttpAssumption DEF HttpTick, HttpTypeOK
  <2> QED
    BY <1>0, <1>1, <2>1 DEF HttpTick, HttpInv, BreakerSafe, HalfOpenHasProbe, SlotIsHalfOpen,
         ClosedBelowThreshold, DelaysHaveAttempts, SecondProbeNeedsStraggler, ProberIsProbe
<1>2. ASSUME NEW r \in Requests, Request(r) PROVE HttpInv'
  <2>1. HttpTypeOK'
    BY <1>0, <1>2 DEF Request, reserve, HttpTypeOK
  <2>2. DelaysHaveAttempts'
    BY <1>0, <1>2 DEF Request, HttpTypeOK, DelaysHaveAttempts
  <2>3. CASE circuit = "closed"
    BY <1>0, <1>2, <2>1, <2>2, <2>3 DEF Request, reserve, HttpInv, BreakerSafe, HttpTypeOK,
         HalfOpenHasProbe, SlotIsHalfOpen, ClosedBelowThreshold, SecondProbeNeedsStraggler,
         ProberIsProbe
  <2>4. CASE circuit # "closed"
    <3>1. circuit' = "half-open" /\ probeFlag' /\ prober' = r /\ reqAt'[r] = "fetch"
      BY <1>0, <1>2, <2>4 DEF Request, reserve, Allowed, HttpTypeOK
    <3>2. r # NoRequest
      BY HttpAssumption
    <3>3. probes' = probes \cup {r} /\ overtaken' = overtaken /\ prober = NoRequest
      BY <1>0, <1>2, <2>4 DEF Request, reserve, Allowed, SlotIsHalfOpen
    <3>4. SecondProbeNeedsStraggler' /\ ProberIsProbe'
      <4>1. NoRequest \notin probes
        BY <1>0, HttpAssumption DEF HttpTypeOK
      <4> QED
        BY <1>0, <3>1, <3>3, <4>1 DEF SecondProbeNeedsStraggler, ProberIsProbe
    <3> QED
      BY <2>1, <2>2, <3>1, <3>2, <3>4 DEF HttpInv, BreakerSafe, HalfOpenHasProbe, SlotIsHalfOpen,
           ClosedBelowThreshold
  <2> QED
    BY <2>3, <2>4
<1>3. ASSUME NEW r \in Requests, CallerAborts(r) PROVE HttpInv'
  <2>1. HttpTypeOK' /\ DelaysHaveAttempts'
    BY <1>0, <1>3 DEF CallerAborts, breaker, HttpTypeOK, DelaysHaveAttempts
  <2> QED
    BY <1>3, <2>1, BreakerUntouched DEF CallerAborts
<1>4. ASSUME NEW r \in Requests, DelayOver(r) PROVE HttpInv'
  <2>1. attempt[r] + 1 \in 1..HttpAttempts
    BY <1>0, <1>4, HttpAssumption DEF DelayOver, HttpTypeOK, DelaysHaveAttempts
  <2>2. HttpTypeOK' /\ DelaysHaveAttempts'
    BY <1>0, <1>4, <2>1 DEF DelayOver, breaker, HttpTypeOK, DelaysHaveAttempts
  <2> QED
    BY <1>0, <1>4, <2>2, BreakerUntouched DEF DelayOver, HttpTypeOK
<1>5. ASSUME NEW r \in Requests, FetchOk(r) \/ FetchFinal(r) PROVE HttpInv'
  BY <1>5, SettlementMovesOn DEF FetchOk, FetchFinal
<1>6. ASSUME NEW r \in Requests, FetchRetryable(r) PROVE HttpInv'
  <2>1. CASE attempt[r] < HttpAttempts /\ UNCHANGED breaker
    <3>1. reqAt' = [reqAt EXCEPT ![r] = "delay"] /\ UNCHANGED <<attempt, aborted>>
      BY <1>0, <1>6, <2>1, HttpAssumption DEF FetchRetryable, HttpTypeOK
    <3>2. HttpTypeOK' /\ DelaysHaveAttempts'
      BY <1>0, <2>1, <3>1 DEF breaker, HttpTypeOK, DelaysHaveAttempts
    <3> QED
      BY <1>0, <2>1, <3>1, <3>2, BreakerUntouched DEF HttpTypeOK
  <2>2. CASE recordFailure /\ Settle(r)
    BY <2>2, SettlementMovesOn
  <2> QED
    BY <1>6, <2>1, <2>2 DEF FetchRetryable
<1>7. CASE UNCHANGED httpVars
  BY <1>0, <1>7 DEF httpVars, HttpInv, BreakerSafe, HttpTypeOK, HalfOpenHasProbe, SlotIsHalfOpen,
       ClosedBelowThreshold, DelaysHaveAttempts, SecondProbeNeedsStraggler, ProberIsProbe
<1> QED
  BY <1>1, <1>2, <1>3, <1>4, <1>5, <1>6, <1>7 DEF HttpNext, RequestRejected

LEMMA HttpStarts == HttpInit => HttpInv
<1> SUFFICES ASSUME HttpInit PROVE HttpInv
  OBVIOUS
<1>1. HttpTypeOK
  <2>1. 0 \in 0..FailureThreshold /\ 0 \in 0..HttpRecovery /\ 1 \in 1..HttpAttempts
    BY HttpAssumption
  <2>2. aborted \in [Requests -> BOOLEAN] /\ probeFlag \in BOOLEAN
    BY Zenon DEF HttpInit
  <2> QED
    BY <2>1, <2>2 DEF HttpInit, HttpTypeOK
<1>2. /\ HalfOpenHasProbe /\ SlotIsHalfOpen /\ ClosedBelowThreshold /\ DelaysHaveAttempts
      /\ SecondProbeNeedsStraggler /\ ProberIsProbe
  BY HttpAssumption DEF HttpInit, HalfOpenHasProbe, SlotIsHalfOpen, ClosedBelowThreshold,
       DelaysHaveAttempts, SecondProbeNeedsStraggler, ProberIsProbe
<1> QED
  BY <1>1, <1>2 DEF HttpInv, BreakerSafe

(* However many requests share a breaker, and in whatever order they       *)
(* settle: a half-open circuit has its probe in flight, nobody else holds  *)
(* the slot, a second probe joins one in flight only after a straggler's   *)
(* settlement, and no failure of an earlier period counts against a closed *)
(* circuit (http-client.ts _breakerPreCheck, _recordSuccess,               *)
(* _recordFailure).                                                        *)
THEOREM BreakerIsSafe == HttpSpec => []BreakerSafe
<1>1. HttpInv => BreakerSafe
  BY DEF HttpInv
<1> QED
  BY <1>1, HttpStarts, HttpStep, PTL DEF HttpSpec

-----------------------------------------------------------------------------
(* The pool.  A candidate that comes first in the order of the cursor, and *)
(* one of least EWMA, exist because sets of naturals have a least element. *)

LEMMA LeastNatural ==
    ASSUME NEW S \in SUBSET Nat, S # {}
    PROVE  \E n \in S : \A m \in S : n <= m
<1> DEFINE R == OpToRel(<, Nat)
<1>1. IsWellFoundedOn(R, Nat)
  BY NatLessThanWellFounded, Zenon
<1>2. \A m, n \in Nat : m < n => <<m, n>> \in R
  BY Zenon DEF OpToRel
<1> HIDE DEF R
<1>3. PICK n \in S : \A m \in S : ~(<<m, n>> \in R)
  BY <1>1, WFMin, Zenon
<1>4. \A m \in S : ~(m < n)
  BY <1>2, <1>3
<1> QED
  BY <1>3, <1>4

LEMMA NumbersOfEndpoints ==
    /\ \A e, d \in Endpoints : (e + EndpointCount - d) % EndpointCount \in Nat
    /\ \A e \in Endpoints : (e + 1) % EndpointCount \in Endpoints
  BY PoolAssumption, Z3 DEF Endpoints

LEMMA FirstIsCandidate ==
    ASSUME NEW S \in SUBSET Endpoints, S # {}, cursor \in Endpoints
    PROVE  FirstFromCursor(S) \in S
<1> DEFINE Dist(e) == (e + EndpointCount - cursor) % EndpointCount
           D == {Dist(e) : e \in S}
<1>1. D \in SUBSET Nat /\ D # {}
  BY NumbersOfEndpoints
<1>2. PICK n \in D : \A m \in D : n <= m
  BY <1>1, LeastNatural
<1>3. \E e \in S : \A f \in S : Dist(e) <= Dist(f)
  BY <1>2
<1> QED
  BY <1>3 DEF FirstFromCursor

LEMMA BestIsPinned ==
    ASSUME NEW ewma \in [Endpoints -> 0..2], NEW T \in SUBSET Endpoints, T # {}
    PROVE  \E e \in T : \A f \in T : Precedes(ewma, e, f)
<1> DEFINE W == {ewma[e] : e \in T}
<1>1. W \in SUBSET Nat /\ W # {}
  OBVIOUS
<1>2. PICK w \in W : \A v \in W : w <= v
  BY <1>1, LeastNatural
<1> DEFINE Ties == {e \in T : ewma[e] = w}
<1>3. Ties \in SUBSET Nat /\ Ties # {}
  <2>1. Endpoints \in SUBSET Nat
    BY PoolAssumption DEF Endpoints
  <2>2. \E e \in T : ewma[e] = w
    BY <1>2
  <2> QED
    BY <2>1, <2>2
<1>4. PICK n \in Ties : \A m \in Ties : n <= m
  BY <1>3, LeastNatural
<1>5. ASSUME NEW f \in T PROVE Precedes(ewma, n, f)
  <2>1. ewma[n] = w /\ w <= ewma[f] /\ w \in Nat /\ ewma[f] \in Nat
    BY <1>1, <1>2, <1>4
  <2> QED
    BY <1>4, <2>1 DEF Precedes
<1> QED
  BY <1>4, <1>5

(* pinForWrite is best in every state of the pool, whatever the EWMAs are. *)
LEMMA PinningIsBest == PoolTypeOK => PinIsBest
<1> SUFFICES ASSUME PoolTypeOK, NEW ewma \in [Endpoints -> 0..2],
                    \E e \in Endpoints : health[e] # "unhealthy"
             PROVE  /\ health[pinForWrite(ewma)] # "unhealthy"
                    /\ \A f \in Endpoints \ {pinForWrite(ewma)} :
                          \/ health[pinForWrite(ewma)] = "healthy" /\ health[f] # "healthy"
                          \/ health[f] = "unhealthy"
                          \/ /\ health[f] = health[pinForWrite(ewma)]
                             /\ ewma[pinForWrite(ewma)] <= ewma[f]
  BY Zenon DEF PinIsBest
<1> DEFINE T == IF Tier("healthy") # {} THEN Tier("healthy") ELSE Tier("degraded")
           p == pinForWrite(ewma)
<1>1. T \in SUBSET Endpoints /\ T # {}
  BY DEF PoolTypeOK, Tier
<1>2. p \in T /\ \A f \in T : Precedes(ewma, p, f)
  BY <1>1, BestIsPinned DEF pinForWrite
<1>3. \A f \in T : ewma[p] <= ewma[f]
  BY <1>1, <1>2 DEF Precedes
<1> HIDE DEF p
<1>4. health[p] # "unhealthy"
  BY <1>2 DEF Tier
<1>5. ASSUME NEW f \in Endpoints
      PROVE  \/ health[p] = "healthy" /\ health[f] # "healthy"
             \/ health[f] = "unhealthy"
             \/ health[f] = health[p] /\ ewma[p] <= ewma[f]
  BY <1>2, <1>3 DEF Tier, PoolTypeOK
<1> QED
  BY <1>4, <1>5 DEF p

(* Time passed since the last claimed probe and time left until the next   *)
(* one make up at least the base cooldown.                                 *)
CooldownIsServed == \A e \in Endpoints : sinceProbe[e] + probeIn[e] >= BaseCooldown

(* A call that backs off has an attempt left.                              *)
BackoffHasATry == \A c \in Calls : callAt[c] = "backoff" => tries[c] < PoolAttempts

PoolInv == PoolTypeOK /\ HealthIsTheStreak /\ CooldownIsServed /\ BackoffHasATry

LEMMA CandidatesAreEndpoints ==
    ASSUME PoolTypeOK, Pickable # {}
    PROVE  /\ FirstFromCursor(Pickable) \in Endpoints
           /\ health[FirstFromCursor(Pickable)] = "unhealthy"
                => probeIn[FirstFromCursor(Pickable)] = 0
<1>1. Pickable \in SUBSET Endpoints
  BY DEF Pickable, Tier
<1>2. \A e \in Pickable : health[e] = "unhealthy" => probeIn[e] = 0
  BY DEF Pickable, Tier, ProbeDue
<1>3. FirstFromCursor(Pickable) \in Pickable
  BY <1>1, FirstIsCandidate DEF PoolTypeOK
<1> QED
  BY <1>1, <1>2, <1>3

(* An attempt that is sent claims the probe of an unhealthy endpoint.      *)
LEMMA SendingKeeps ==
    ASSUME PoolInv, NEW c \in Calls, NEW n \in 1..PoolAttempts, SendAttempt(c, n)
    PROVE  PoolInv'
<1> USE PoolAssumption
<1>0. PoolTypeOK /\ HealthIsTheStreak /\ CooldownIsServed /\ BackoffHasATry
  BY DEF PoolInv
<1>1. PICK e \in Endpoints :
        /\ cursor' = (e + 1) % EndpointCount
        /\ probeIn' = [probeIn EXCEPT ![e] = IF health[e] = "unhealthy" THEN cooldown[e] ELSE @]
        /\ sinceProbe' = [sinceProbe EXCEPT ![e] = IF health[e] = "unhealthy" THEN 0 ELSE @]
        /\ callAt' = [callAt EXCEPT ![c] = "sent"]
        /\ sentTo' = [sentTo EXCEPT ![c] = e]
        /\ tries' = [tries EXCEPT ![c] = n]
        /\ UNCHANGED <<health, errors, cooldown>>
  BY <1>0, CandidatesAreEndpoints DEF SendAttempt
<1>2. cursor' \in Endpoints
  BY <1>1, NumbersOfEndpoints
<1>3. PoolTypeOK'
  BY <1>0, <1>1, <1>2 DEF PoolTypeOK
<1>4. CooldownIsServed'
  BY <1>0, <1>1 DEF PoolTypeOK, CooldownIsServed
<1>5. BackoffHasATry'
  BY <1>0, <1>1 DEF PoolTypeOK, BackoffHasATry
<1> QED
  BY <1>0, <1>1, <1>3, <1>4, <1>5 DEF PoolInv, HealthIsTheStreak

(* What an outcome may do to the health of the endpoint it is about; the   *)
(* other endpoints keep theirs.                                            *)
LEMMA OutcomesKeepTheStreak ==
    ASSUME PoolInv, NEW e \in Endpoints,
           healthSuccess(e) \/ healthError(e) \/ healthRateLimit(e),
           UNCHANGED sinceProbe
    PROVE  /\ health' \in [Endpoints -> {"healthy", "degraded", "unhealthy"}]
           /\ errors' \in [Endpoints -> 0..UnhealthyThreshold]
           /\ cooldown' \in [Endpoints -> BaseCooldown..MaxCooldown]
           /\ probeIn' \in [Endpoints -> 0..MaxCooldown]
           /\ HealthIsTheStreak'
           /\ CooldownIsServed'
<1> USE PoolAssumption
<1>0. PoolTypeOK /\ HealthIsTheStreak /\ CooldownIsServed /\ BackoffHasATry
  BY DEF PoolInv
<1>1. CASE healthSuccess(e)
  BY <1>0, <1>1 DEF healthSuccess, PoolTypeOK, HealthIsTheStreak, CooldownIsServed
<1>2. /\ OneMore(e) \in 1..UnhealthyThreshold
      /\ OneMore(e) > errors[e] \/ OneMore(e) = UnhealthyThreshold
  BY <1>0 DEF OneMore, Lesser, PoolTypeOK
<1>3. CASE healthRateLimit(e)
  BY <1>0, <1>2, <1>3 DEF healthRateLimit, PoolTypeOK, HealthIsTheStreak, CooldownIsServed
<1>4. CASE healthError(e)
  <2> DEFINE wait == IF health[e] = "unhealthy"
                     THEN Lesser(2 * cooldown[e], MaxCooldown) ELSE cooldown[e]
  <2>1. wait \in BaseCooldown..MaxCooldown
    BY <1>0 DEF Lesser, PoolTypeOK
  <2>2. CASE OneMore(e) >= UnhealthyThreshold
    BY <1>0, <1>2, <1>4, <2>1, <2>2
       DEF healthError, PoolTypeOK, HealthIsTheStreak, CooldownIsServed
  <2>3. CASE ~(OneMore(e) >= UnhealthyThreshold)
    BY <1>0, <1>2, <1>4, <2>3
       DEF healthError, PoolTypeOK, HealthIsTheStreak, CooldownIsServed
  <2> QED
    BY <2>2, <2>3
<1> QED
  BY <1>1, <1>3, <1>4

LEMMA PoolStep == PoolInv /\ [PoolNext]_poolVars => PoolInv'
<1> SUFFICES ASSUME PoolInv, [PoolNext]_poolVars PROVE PoolInv'
  OBVIOUS
<1> USE PoolAssumption
<1>0. PoolTypeOK /\ HealthIsTheStreak /\ CooldownIsServed /\ BackoffHasATry
  BY DEF PoolInv
<1>1. CASE PoolTick
  <2>1. PoolTypeOK'
    BY <1>0, <1>1 DEF PoolTick, PoolTypeOK, Lesser, callVars
  <2>2. CooldownIsServed'
    BY <1>0, <1>1 DEF PoolTick, PoolTypeOK, CooldownIsServed, Lesser
  <2> QED
    BY <1>0, <1>1, <2>1, <2>2
       DEF PoolTick, PoolInv, HealthIsTheStreak, BackoffHasATry, callVars
<1>2. ASSUME NEW c \in Calls, Call(c) \/ RetryCall(c) PROVE PoolInv'
  <2>1. CASE NothingCallable(c)
    BY <1>0, <2>1 DEF NothingCallable, EndCall, healthVars, PoolInv, PoolTypeOK,
         HealthIsTheStreak, CooldownIsServed, BackoffHasATry
  <2>2. CASE callAt[c] = "idle" /\ SendAttempt(c, 1)
    BY <2>2, SendingKeeps
  <2>3. CASE callAt[c] = "backoff" /\ SendAttempt(c, tries[c] + 1)
    <3>1. tries[c] + 1 \in 1..PoolAttempts
      BY <1>0, <2>3 DEF PoolTypeOK, BackoffHasATry
    <3> QED
      BY <2>3, <3>1, SendingKeeps
  <2> QED
    BY <1>2, <2>1, <2>2, <2>3 DEF Call, RetryCall
<1>3. ASSUME NEW c \in Calls, Answered(c) \/ Failed(c) \/ RateLimited(c) PROVE PoolInv'
  <2>1. sentTo[c] \in Endpoints
    BY <1>0 DEF PoolTypeOK
  <2>2. /\ healthSuccess(sentTo[c]) \/ healthError(sentTo[c]) \/ healthRateLimit(sentTo[c])
        /\ UNCHANGED <<cursor, sentTo, tries, sinceProbe>>
    BY <1>3 DEF Answered, Failed, RateLimited
  <2>3. callAt' \in [Calls -> {"idle", "sent", "backoff"}]
    BY <1>0, <1>3 DEF Answered, Failed, RateLimited, EndCall, AfterFailure, PoolTypeOK
  <2>4. BackoffHasATry'
    BY <1>0, <1>3 DEF Answered, Failed, RateLimited, EndCall, AfterFailure, PoolTypeOK,
         BackoffHasATry
  <2> QED
    BY <1>0, <2>1, <2>2, <2>3, <2>4, OutcomesKeepTheStreak DEF PoolInv, PoolTypeOK
<1>4. CASE UNCHANGED poolVars
  BY <1>0, <1>4 DEF poolVars, healthVars, callVars, PoolInv, PoolTypeOK, HealthIsTheStreak,
       CooldownIsServed, BackoffHasATry
<1> QED
  BY <1>1, <1>2, <1>3, <1>4 DEF PoolNext

LEMMA PoolStarts == PoolInit => PoolInv
<1> SUFFICES ASSUME PoolInit PROVE PoolInv
  OBVIOUS
<1>1. 0 \in Endpoints /\ 1 \in 1..PoolAttempts /\ 0 \in 0..UnhealthyThreshold
      /\ BaseCooldown \in BaseCooldown..MaxCooldown /\ 0 \in 0..MaxCooldown
      /\ BaseCooldown \in 0..BaseCooldown
  BY PoolAssumption DEF Endpoints
<1>2. PoolTypeOK
  BY <1>1 DEF PoolInit, PoolTypeOK
<1>3. HealthIsTheStreak /\ CooldownIsServed /\ BackoffHasATry
  BY PoolAssumption DEF PoolInit, HealthIsTheStreak, CooldownIsServed, BackoffHasATry
<1> QED
  BY <1>2, <1>3 DEF PoolInv

LEMMA PoolIsSound == PoolInv => PoolSafe
  BY PinningIsBest DEF PoolInv, PoolSafe

(* However many calls route over however many endpoints: the health of an  *)
(* endpoint is the streak of its failures in whatever order results come   *)
(* in, and a write is pinned to a best endpoint (health-state.ts           *)
(* recordError, recordSuccess; rpc-pool.ts pinForWrite).                   *)
THEOREM PoolIsSafe == PoolSpec => []PoolSafe
  BY PoolStarts, PoolStep, PoolIsSound, PTL DEF PoolSpec

(* An attempt goes to an unhealthy endpoint only when its probe is due,    *)
(* and a due probe is the base cooldown after the last one.                *)
LEMMA SentProbesWereDue ==
    ASSUME PoolInv, [PoolNext]_poolVars, NEW c \in Calls,
           callAt[c] # "sent", callAt'[c] = "sent", health[sentTo'[c]] = "unhealthy"
    PROVE  sinceProbe[sentTo'[c]] = BaseCooldown
<1>0. PoolTypeOK /\ CooldownIsServed
  BY DEF PoolInv
<1>1. PICK n \in Nat : SendAttempt(c, n)
  <2>1. ~PoolTick /\ ~UNCHANGED poolVars
    BY DEF PoolTick, callVars, poolVars
  <2>2. PICK d \in Calls : Call(d) \/ RetryCall(d) \/ Answered(d) \/ Failed(d) \/ RateLimited(d)
    BY <2>1 DEF PoolNext
  <2>3. ~(Answered(d) \/ Failed(d) \/ RateLimited(d) \/ NothingCallable(d))
    BY <1>0 DEF Answered, Failed, RateLimited, NothingCallable, EndCall, AfterFailure, PoolTypeOK
  <2>4. \E n \in Nat : SendAttempt(d, n)
    BY <1>0, <2>2, <2>3, PoolAssumption DEF Call, RetryCall, PoolTypeOK
  <2>5. d = c
    BY <1>0, <2>4 DEF SendAttempt, PoolTypeOK
  <2> QED
    BY <2>4, <2>5
<1>2. sentTo'[c] = FirstFromCursor(Pickable) /\ Pickable # {}
  BY <1>0, <1>1 DEF SendAttempt, PoolTypeOK
<1>3. sentTo'[c] \in Endpoints /\ probeIn[sentTo'[c]] = 0
  BY <1>0, <1>2, CandidatesAreEndpoints
<1> QED
  BY <1>0, <1>3, PoolAssumption DEF PoolTypeOK, CooldownIsServed

(* Concurrent callers send one probe and not a burst, however many there   *)
(* are (takeProbe's comment).                                              *)
THEOREM ProbesKeepTheirDistance == PoolSpec => ProbesAreSpaced
<1>1. PoolInv /\ [PoolNext]_poolVars =>
        [\A c \in Calls :
           callAt[c] # "sent" /\ callAt'[c] = "sent" /\ health[sentTo'[c]] = "unhealthy"
             => sinceProbe[sentTo'[c]] = BaseCooldown]_poolVars
  BY SentProbesWereDue
<1> QED
  BY <1>1, PoolStarts, PoolStep, PTL DEF PoolSpec, ProbesAreSpaced

-----------------------------------------------------------------------------
(* The two as they run beside each other: neither disturbs the other.      *)
THEOREM ConnectivityIsSafe == MCSpec => []ConnectivitySafe /\ ProbesAreSpaced
<1>1. MCInit => HttpInv /\ PoolInv
  BY HttpStarts, PoolStarts DEF MCInit
<1>2. MCNext => [HttpNext]_httpVars /\ [PoolNext]_poolVars
  BY DEF MCNext
<1>3. UNCHANGED mcVars => [HttpNext]_httpVars /\ [PoolNext]_poolVars
  BY DEF mcVars
<1>4. HttpInv /\ PoolInv => ConnectivitySafe
  BY PoolIsSound DEF HttpInv, ConnectivitySafe
<1>5. PoolInv /\ [PoolNext]_poolVars =>
        [\A c \in Calls :
           callAt[c] # "sent" /\ callAt'[c] = "sent" /\ health[sentTo'[c]] = "unhealthy"
             => sinceProbe[sentTo'[c]] = BaseCooldown]_poolVars
  BY SentProbesWereDue
<1> QED
  BY <1>1, <1>2, <1>3, <1>4, <1>5, HttpStep, PoolStep, PTL DEF MCSpec, ProbesAreSpaced
=============================================================================
