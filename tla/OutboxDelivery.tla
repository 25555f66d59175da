-------------------------- MODULE OutboxDelivery --------------------------
(***************************************************************************)
(* What the webhook outbox promises, without requests, batches, retries or *)
(* crashes: an accepted row is delivered event by event until it is either *)
(* delivered or parked, and from then on it is never touched again.        *)
(***************************************************************************)
EXTENDS Naturals

CONSTANTS Ids, Events

VARIABLES
    stage,      \* id -> absent | pending | delivered | parked
    emitted     \* <<id, event>> -> times it reached the application

vars == <<stage, emitted>>

Init ==
    /\ stage = [i \in Ids |-> "absent"]
    /\ emitted = [s \in UNION {{i} \X (1..Events[i]) : i \in Ids} |-> 0]

Accept(i) ==
    /\ stage[i] = "absent"
    /\ stage' = [stage EXCEPT ![i] = "pending"]
    /\ UNCHANGED emitted

(* Events go out in order, and a retry starts over from the first: event k *)
(* follows a fresh emission of event k - 1.                                *)
Emit(i, k) ==
    /\ stage[i] = "pending"
    /\ \A j \in 1..(k - 1) : emitted[<<i, j>>] > emitted[<<i, k>>]
    /\ emitted' = [emitted EXCEPT ![<<i, k>>] = @ + 1]
    /\ UNCHANGED stage

Deliver(i) ==
    /\ stage[i] = "pending"
    /\ \A k \in 1..Events[i] : emitted[<<i, k>>] > 0
    /\ stage' = [stage EXCEPT ![i] = "delivered"]
    /\ UNCHANGED emitted

Park(i) ==
    /\ stage[i] = "pending"
    /\ stage' = [stage EXCEPT ![i] = "parked"]
    /\ UNCHANGED emitted

Next == \E i \in Ids :
    \/ Accept(i) \/ Deliver(i) \/ Park(i)
    \/ \E k \in 1..Events[i] : Emit(i, k)

Spec == Init /\ [][Next]_vars
=============================================================================
