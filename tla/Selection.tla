----------------------------- MODULE Selection -----------------------------
(***************************************************************************)
(* What a filter keeps of a list: the receiver of a webhook, for one, keeps*)
(* the records that have a signature.                                      *)
(***************************************************************************)
EXTENDS Sequences, SequencesExt

(* The entries of s that are in S, in the order of s.                      *)
Only(s, S) == FlattenSeq([k \in DOMAIN s |-> IF s[k] \in S THEN <<s[k]>> ELSE <<>>])
=============================================================================
