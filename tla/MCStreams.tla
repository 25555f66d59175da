------------------------------ MODULE MCStreams ------------------------------
(* The live streams and the readers of history for TLC.  They share no     *)
(* state, so a behaviour is one of either: focus says which.               *)
EXTENDS GeyserClient, TxStream, HistoryWalk

VARIABLE focus

mcVars == <<focus, geyserVars, txVars, walkVars>>

MCInit ==
    /\ GeyserInit /\ TxInit /\ WalkInit
    /\ \/ focus = "walk"
       \/ focus \in {"geyser", "stream"} /\ reader = "sweep"

MCNext ==
    \/ focus = "geyser" /\ GeyserNext /\ UNCHANGED <<focus, txVars, walkVars>>
    \/ focus = "stream" /\ TxNext /\ UNCHANGED <<focus, geyserVars, walkVars>>
    \/ focus = "walk" /\ WalkNext /\ UNCHANGED <<focus, geyserVars, txVars>>

\* No fair action is enabled out of focus.
MCSpec == MCInit /\ [][MCNext]_mcVars /\ GeyserFairness /\ TxFairness /\ WalkFairness

(* The two live streams: what a crash or a full queue may cost is known.   *)
StreamsSafe ==
    /\ GeyserSafe
    /\ TxSafe

(* Whoever resumes is told where: the checkpoint goes back by the overlap  *)
(* only, and every reconnect is announced.                                 *)
ResumeIsTold ==
    /\ CheckpointGoesBackByOverlap
    /\ ReconnectIsTold

(* The streams come back and come to their ends: queues drain, sockets     *)
(* return, walks finish.                                                   *)
StreamsRecover ==
    /\ QueueIsDrained
    /\ StreamComesBack
    /\ WalkEnds
=============================================================================
