--------------------------- MODULE MCConnectivity ---------------------------
(* The pool and the HTTP client for TLC.  They share no state (the pool's  *)
(* clients retry nothing and have no breaker), so a behaviour is one of    *)
(* either: focus says which.                                               *)
EXTENDS HttpClient, RpcPool

VARIABLE focus

mcVars == <<focus, httpVars, poolVars>>

MCInit == focus \in {"http", "pool"} /\ HttpInit /\ PoolInit

MCNext ==
    \/ focus = "http" /\ HttpNext /\ UNCHANGED <<focus, poolVars>>
    \/ focus = "pool" /\ PoolNext /\ UNCHANGED <<focus, httpVars>>

MCSpec == MCInit /\ [][MCNext]_mcVars
    /\ HttpFairness                        \* no fair action is enabled out of focus
    /\ (focus = "pool" => PoolFairness)

(* The breaker and the pool hold what they promise.                        *)
ConnectivitySafe ==
    /\ BreakerSafe
    /\ PoolSafe

(* Requests and calls settle, and an outage is probed.                     *)
CallsSettle ==
    /\ RequestSettles
    /\ OutageIsProbed
    /\ CallSettles
=============================================================================
