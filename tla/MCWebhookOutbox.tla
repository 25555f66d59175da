-------------------------- MODULE MCWebhookOutbox --------------------------
(* Instances of WebhookOutbox for TLC.                                     *)
EXTENDS WebhookOutbox, TLC

CONSTANTS a, b

(* "a" has two events, so that a failure can fall between them.            *)
EventsOf == [i \in Ids |-> IF i = a THEN 2 ELSE 1]
AllOk == [i \in Ids |-> "ok"]
SomeCorrupt == [i \in Ids |-> IF i = a THEN "ok" ELSE "corrupt"]
SomeUnmappable == [i \in Ids |-> IF i = a THEN "unmappable" ELSE "ok"]

(* The provider posts both rows in one body, or posts one of them again.   *)
Bodies == {<<a, b>>, <<a>>}
TwoRows == {<<a, b>>}

(* Requests are alike; the run that uses this checks safety only.          *)
RequestSymmetry == Permutations(Requests)
=============================================================================
