----------------------------- MODULE HttpClient -----------------------------
(***************************************************************************)
(* solana-core's HttpClient: the retry loop of request() and the circuit   *)
(* breaker its concurrent requests share.                                  *)
(*                                                                         *)
(* A request is admitted once by _breakerPreCheck, then makes up to        *)
(* HttpAttempts fetches with a delay between them; the breaker hears of    *)
(* the request when it settles and not of its single attempts.  Statuses   *)
(* and exceptions are kept as the three classes the loop tells apart: "ok",*)
(* "final" (an answer that is not retried) and "retryable" (429, 5xx,      *)
(* timeout, network error).  Time is the age of the current opening, which *)
(* stops to matter at HttpRecovery.                                        *)
(***************************************************************************)
EXTENDS Naturals, FiniteSets

CONSTANTS
    Requests,          \* requests that may be in flight together
    HttpAttempts,      \* retry.attempts
    FailureThreshold,  \* circuitBreaker.failureThreshold
    HttpRecovery,      \* circuitBreaker.recoveryMs
    NoRequest          \* nobody holds the half-open slot

ASSUME HttpAssumption ==
    /\ HttpAttempts \in Nat \ {0}
    /\ FailureThreshold \in Nat \ {0}
    /\ HttpRecovery \in Nat
    /\ NoRequest \notin Requests

VARIABLES
    circuit,     \* _state
    failures,    \* _consecutiveFailures, counted up to the threshold
    openAge,     \* now - _openedAt, counted up to HttpRecovery
    probeFlag,   \* _inflightHalfOpenProbe
    prober,      \* history: the request that set the flag
    probes,      \* history: requests in flight that were let through as the probe
    overtaken,   \* history: those of them during whose half-open another request settled
    reqAt,       \* where each request is: "idle", "fetch" or "delay"
    attempt,     \* its attempt, 1..HttpAttempts
    aborted      \* its caller's signal has fired

breaker == <<circuit, failures, openAge, probeFlag, prober, probes, overtaken>>
httpVars == <<circuit, failures, openAge, probeFlag, prober, probes, overtaken, reqAt, attempt,
              aborted>>

HttpTypeOK ==
    /\ circuit \in {"closed", "open", "half-open"}
    /\ failures \in 0..FailureThreshold
    /\ openAge \in 0..HttpRecovery
    /\ probeFlag \in BOOLEAN
    /\ prober \in Requests \cup {NoRequest}
    /\ probes \subseteq Requests /\ overtaken \subseteq probes
    /\ reqAt \in [Requests -> {"idle", "fetch", "delay"}]
    /\ attempt \in [Requests -> 1..HttpAttempts]
    /\ aborted \in [Requests -> BOOLEAN]

HttpInit ==
    /\ circuit = "closed" /\ failures = 0 /\ openAge = 0
    /\ probeFlag = FALSE /\ prober = NoRequest /\ probes = {} /\ overtaken = {}
    /\ reqAt = [r \in Requests |-> "idle"]
    /\ attempt = [r \in Requests |-> 1]
    /\ aborted = [r \in Requests |-> FALSE]

-----------------------------------------------------------------------------
(* The breaker.                                                            *)

\* _breakerPreCheck allows: closed, a free half-open slot, or recovered.
Allowed ==
    \/ circuit = "closed"
    \/ circuit = "half-open" /\ ~probeFlag
    \/ circuit = "open" /\ openAge >= HttpRecovery

\* What an allowed request does to the breaker: outside "closed" it is the
\* probe and reserves the slot.
reserve(r) ==
    /\ circuit' = IF circuit = "open" THEN "half-open" ELSE circuit
    /\ probeFlag' = (circuit # "closed" \/ probeFlag)
    /\ prober' = IF circuit = "closed" THEN prober ELSE r
    /\ probes' = IF circuit = "closed" THEN probes ELSE probes \cup {r}
    /\ UNCHANGED <<failures, openAge, overtaken>>

recordSuccess ==
    /\ circuit' = IF circuit = "half-open" THEN "closed" ELSE circuit
    /\ failures' = 0 /\ probeFlag' = FALSE /\ prober' = NoRequest
    /\ UNCHANGED openAge

Counted == IF failures < FailureThreshold THEN failures + 1 ELSE failures

recordFailure ==
    LET opens == \/ circuit = "half-open"
                 \/ circuit = "closed" /\ Counted >= FailureThreshold
    IN  /\ circuit' = IF opens THEN "open" ELSE circuit
        /\ openAge' = IF opens THEN 0 ELSE openAge
        /\ failures' = IF circuit = "half-open" THEN 0 ELSE Counted
        /\ probeFlag' = FALSE /\ prober' = NoRequest

-----------------------------------------------------------------------------
(* A request.                                                              *)

Settle(r) ==
    /\ reqAt' = [reqAt EXCEPT ![r] = "idle"]
    /\ attempt' = [attempt EXCEPT ![r] = 1]
    /\ aborted' = [aborted EXCEPT ![r] = FALSE]
    /\ probes' = probes \ {r}
    /\ overtaken' = (overtaken \cup ({prober} \ {NoRequest})) \ {r}

\* request(): admitted, and the first fetch goes out.
Request(r) ==
    /\ reqAt[r] = "idle" /\ Allowed
    /\ reserve(r)
    /\ reqAt' = [reqAt EXCEPT ![r] = "fetch"]
    /\ UNCHANGED <<attempt, aborted>>

\* request(): rejected with circuit_open, without reaching the network.
RequestRejected(r) ==
    /\ reqAt[r] = "idle" /\ ~Allowed
    /\ UNCHANGED httpVars

\* _fetchOnce is awaiting its answer, or its timer.
Fetching(r) == reqAt[r] = "fetch"

\* fetch answered 2xx.
FetchOk(r) ==
    /\ Fetching(r) /\ ~aborted[r]
    /\ recordSuccess
    /\ Settle(r)

\* fetch answered with a status that is neither ok nor retried.
FetchFinal(r) ==
    /\ Fetching(r) /\ ~aborted[r]
    /\ recordFailure
    /\ Settle(r)

\* fetch failed in a way that is retried, the caller's abort included: wait,
\* or, after the last attempt, report the failure and throw.
FetchRetryable(r) ==
    /\ Fetching(r)
    /\ \/ /\ attempt[r] < HttpAttempts
          /\ reqAt' = [reqAt EXCEPT ![r] = "delay"]
          /\ UNCHANGED <<breaker, attempt, aborted>>
       \/ /\ attempt[r] = HttpAttempts
          /\ recordFailure
          /\ Settle(r)

\* The backoff (or Retry-After) has passed: the next attempt's fetch goes
\* out, whatever the breaker has become.
DelayOver(r) ==
    /\ reqAt[r] = "delay"
    /\ reqAt' = [reqAt EXCEPT ![r] = "fetch"]
    /\ attempt' = [attempt EXCEPT ![r] = @ + 1]
    /\ UNCHANGED <<breaker, aborted>>

\* The caller aborts; the fetch of this and of every later attempt rejects.
CallerAborts(r) ==
    /\ reqAt[r] # "idle" /\ ~aborted[r]
    /\ aborted' = [aborted EXCEPT ![r] = TRUE]
    /\ UNCHANGED <<breaker, reqAt, attempt>>

HttpTick ==
    /\ circuit = "open" /\ openAge < HttpRecovery
    /\ openAge' = openAge + 1
    /\ UNCHANGED <<circuit, failures, probeFlag, prober, probes, overtaken, reqAt, attempt, aborted>>

HttpNext ==
    \/ HttpTick
    \/ \E r \in Requests :
        \/ Request(r) \/ RequestRejected(r) \/ CallerAborts(r)
        \/ FetchOk(r) \/ FetchFinal(r) \/ FetchRetryable(r) \/ DelayOver(r)

\* A fetch ends because _fetchOnce aborts it after timeoutMs; a delay is a
\* timer.
HttpFairness ==
    \A r \in Requests :
        /\ WF_httpVars(FetchOk(r) \/ FetchFinal(r) \/ FetchRetryable(r))
        /\ WF_httpVars(DelayOver(r))

HttpSpec == HttpInit /\ [][HttpNext]_httpVars /\ HttpFairness

-----------------------------------------------------------------------------
(* Properties.                                                             *)

(* The half-open slot is never leaked: while the circuit is half-open the  *)
(* slot is taken, and the request that took it is still in flight.  What   *)
(* moves the circuit on is the first settlement, of that request or of one *)
(* admitted before, which clears the flag too (http-client.ts              *)
(* _breakerPreCheck, _recordSuccess, _recordFailure).                      *)
HalfOpenHasProbe ==
    circuit = "half-open" <=> probeFlag /\ prober # NoRequest /\ reqAt[prober] # "idle"

(* Nothing but such a settlement lets a second probe out while one is in   *)
(* flight: of several, all but the newest were overtaken, while they held  *)
(* the slot, by a request admitted before them (http-client.ts:145).       *)
SecondProbeNeedsStraggler == probes \subseteq overtaken \cup {prober}

(* "When `half-open`, at most one probe request may be in flight"          *)
(* (http-client.ts:145, :460).                                             *)
OneProbeAtATime == circuit = "half-open" => Cardinality(probes) <= 1

(* "In `half-open` we allow exactly ONE request through; the outcome of    *)
(* that request decides the next transition" (http-client.ts:27).          *)
ProbeDecides ==
    [][circuit = "half-open" /\ circuit' # "half-open" => reqAt'[prober] = "idle"]_httpVars

(* A closed circuit has seen fewer failures in a row than the threshold:   *)
(* failures of requests that settle while the circuit is open or half-open *)
(* never carry over into the next closed period.                           *)
ClosedBelowThreshold ==
    circuit = "closed" => failures < FailureThreshold

(* Every admitted request settles: the retry loop ends whatever the server *)
(* answers and whatever the caller's signal does.                          *)
RequestSettles ==
    \A r \in Requests : reqAt[r] = "fetch" ~> reqAt[r] = "idle"

(* The safety of the breaker (http-client.ts).                             *)
BreakerSafe ==
    /\ HttpTypeOK
    /\ HalfOpenHasProbe
    /\ SecondProbeNeedsStraggler
    /\ ClosedBelowThreshold
=============================================================================
