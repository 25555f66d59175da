--------------------------- MODULE MCSignalQueue ---------------------------
(***************************************************************************)
(* Instances of SignalQueue, SignalBus and SignalSources for TLC.  The     *)
(* parts share no state: a behaviour runs one of them, its focus, and the  *)
(* others stay in their initial states.                                    *)
(***************************************************************************)
EXTENDS SignalQueue, SignalBus, SignalSources

CONSTANTS p1, p2, c1, c2

MCIdOf == [k \in {p1, p2} |-> 1]                       \* two producers that share an id
MCAccepts == [k \in {c1, c2} |-> IF k = c1 THEN {p1, p2} ELSE {p2}]
MCSkipped == <<"skipped">>
MCBlocks == {MCSkipped, <<"ours">>, <<"other", "ours">>, <<"unknown">>}

VARIABLE focus

\* The sources that are not in focus have nothing to walk over.
MCInit ==
    /\ focus \in {"queue", "bus"} \cup Sources
    /\ Init /\ BusInit /\ SourcesInit
    /\ focus \notin Sources => chain = [s \in Slots |-> MCSkipped]

MCNext ==
    \/ focus = "queue" /\ Next /\ UNCHANGED <<focus, busVars, sourceVars>>
    \/ focus = "bus" /\ BusNext /\ UNCHANGED <<focus, vars, sourceVars>>
    \/ focus = "geyser" /\ GeyserSource /\ UNCHANGED <<focus, vars, busVars>>
    \/ focus = "historical" /\ HistoricalSource /\ UNCHANGED <<focus, vars, busVars>>
    \/ focus = "fixture" /\ FixtureSource /\ UNCHANGED <<focus, vars, busVars>>

\* A part out of focus has no fair action enabled.
MCSpec ==
    /\ MCInit /\ [][MCNext]_<<focus, vars, busVars, sourceVars>>
    /\ Fairness /\ BusFairness /\ SourcesFairness

(* Nobody is called after close() has resolved, and no line is read after  *)
(* stop() of a replay.                                                     *)
StoppedStaysQuiet ==
    /\ ClosedIsQuiet
    /\ ReplayStopsAtOnce

(* What has begun ends: drain(), every emission, a walk and a replay.      *)
DeliveryEnds ==
    /\ DrainResolves
    /\ EmissionsEnd
    /\ SourcesEnd
=============================================================================
