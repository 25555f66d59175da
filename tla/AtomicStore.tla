---------------------------- MODULE AtomicStore ----------------------------
(***************************************************************************)
(* What a file-backed store promises its callers: the saves of a key take  *)
(* effect one at a time, whole, in the order they were asked for; one may  *)
(* fail without effect, and a crash drops those that have not taken effect.*)
(***************************************************************************)
EXTENDS Sequences

CONSTANTS AKeys, AValues

VARIABLES
    kv,       \* what a load of each key returns
    waiting   \* the values still to be saved, per key

aVars == <<kv, waiting>>

AInit ==
    /\ kv \in [AKeys -> AValues]
    /\ waiting = [k \in AKeys |-> <<>>]

Ask(k, v) ==
    /\ waiting' = [waiting EXCEPT ![k] = Append(@, v)]
    /\ UNCHANGED kv

Commit(k) ==
    /\ waiting[k] # <<>>
    /\ kv' = [kv EXCEPT ![k] = Head(waiting[k])]
    /\ waiting' = [waiting EXCEPT ![k] = Tail(@)]

Abort(k) ==
    /\ waiting[k] # <<>>
    /\ waiting' = [waiting EXCEPT ![k] = Tail(@)]
    /\ UNCHANGED kv

Restart ==
    /\ waiting' = [k \in AKeys |-> <<>>]
    /\ UNCHANGED kv

ANext ==
    \/ \E k \in AKeys : (\E v \in AValues : Ask(k, v)) \/ Commit(k) \/ Abort(k)
    \/ Restart

ASpec == AInit /\ [][ANext]_aVars
=============================================================================
