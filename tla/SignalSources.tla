--------------------------- MODULE SignalSources ---------------------------
(***************************************************************************)
(* The three signal sources of solana-signals over one chain: the live     *)
(* Geyser source (sources/geyser.ts), the historical walk over a slot      *)
(* range (sources/historical.ts) and the fixture replay                    *)
(* (sources/fixture.ts).                                                   *)
(*                                                                         *)
(* A block is skipped by the leader or holds one transaction, whose logs   *)
(* decode to a sequence of events: of a program in the filter ("ours"), of *)
(* another ("other"), or "unknown".  A signal is the slot and the position *)
(* of its event, which is what signalId() hashes.                          *)
(***************************************************************************)
EXTENDS Selection, Integers

CONSTANTS
    Blocks,         \* what a slot may hold: Skipped or a sequence of events
    Skipped,
    MaxSlot,        \* slots are 1..MaxSlot
    BatchSize,      \* HistoricalSignalSourceOpts.batchSize
    MaxReplays      \* bound on live updates behind the newest one

\* An event is told by whose program it is of.
Events == {"ours", "other", "unknown"}

ASSUME SourceAssumption ==
    /\ Blocks \ {Skipped} \subseteq Seq(Events)
    /\ MaxSlot \in Nat \ {0} /\ BatchSize \in Nat \ {0} /\ MaxReplays \in Nat

VARIABLES
    chain,          \* slot -> what it holds
    live,           \* GeyserSignalSource: [at, lastSlot]
    walk,           \* HistoricalSignalSource: [at, cursor, slots, aborted]
    replay,         \* FixtureSignalSource: [at, line, aborted]
    out,            \* source -> signals it emitted, in order
    gaps,           \* history: the 'gap' events, as pairs of slots
    arrived,        \* history: slots whose transaction the live source saw, in order
    replays,
    ended           \* history: source -> 'end' and 'error' events emitted

sourceVars == <<chain, live, walk, replay, out, gaps, arrived, replays, ended>>

Slots == 1..MaxSlot
Sources == {"geyser", "historical", "fixture"}

\* The signals of a transaction: its matching events, by their position
\* among all events.
signals(slot) ==
    Only([k \in DOMAIN chain[slot] |-> <<slot, k>>],
         {s \in {slot} \X DOMAIN chain[slot] : chain[slot][s[2]] = "ours"})

HasBlock(slot) == chain[slot] # Skipped

\* Everything a source can tell of slots lo to hi, in order.
Told(lo, hi) == FlattenSeq([k \in 1..(IF hi < lo THEN 0 ELSE hi - lo + 1) |->
                    IF HasBlock(lo + k - 1) THEN signals(lo + k - 1) ELSE <<>>])

SourcesTypeOK ==
    /\ chain \in [Slots -> Blocks]
    /\ live.at \in {"idle", "open", "closed"} /\ live.lastSlot \in 0..MaxSlot
    /\ walk.at \in {"idle", "batch", "blocks", "done"}
    /\ ToSet(walk.slots) \subseteq Slots
    /\ replay.at \in {"idle", "reading", "ending", "done", "lost"}
    /\ \A s \in Sources : ended[s] \in 0..1

SourcesInit ==
    /\ chain \in [Slots -> Blocks]
    /\ live = [at |-> "idle", lastSlot |-> 0]
    /\ walk = [at |-> "idle", cursor |-> 1, slots |-> <<>>, aborted |-> FALSE]
    /\ replay = [at |-> "idle", line |-> 1, aborted |-> FALSE]
    /\ out = [s \in Sources |-> <<>>]
    /\ gaps = {} /\ arrived = <<>> /\ replays = 0
    /\ ended = [s \in Sources |-> 0]

-----------------------------------------------------------------------------
(* The live source.                                                        *)

GeyserStart ==
    /\ live.at = "idle"
    /\ live' = [live EXCEPT !.at = "open"]
    /\ UNCHANGED <<chain, walk, replay, out, gaps, arrived, replays, ended>>

\* Mutant: a single missing slot is not a gap.
GapBeforeLoose(slot) ==
    IF live.lastSlot # 0 /\ slot > live.lastSlot + 2 THEN {<<live.lastSlot + 1, slot - 1>>} ELSE {}

GapBefore(slot) ==
    IF live.lastSlot # 0 /\ slot > live.lastSlot + 1 THEN {<<live.lastSlot + 1, slot - 1>>} ELSE {}

\* An update arrives: newer than the last one, with any number lost before
\* it, or, a bounded number of times, one again or late.
GeyserUpdate(slot) ==
    /\ live.at = "open" /\ HasBlock(slot)
    /\ slot > live.lastSlot \/ replays < MaxReplays
    /\ replays' = IF slot > live.lastSlot THEN replays ELSE replays + 1
    /\ gaps' = gaps \cup GapBefore(slot)
    /\ live' = [live EXCEPT !.lastSlot = slot]
    /\ arrived' = Append(arrived, slot)
    /\ out' = [out EXCEPT !["geyser"] = @ \o signals(slot)]
    /\ UNCHANGED <<chain, walk, replay, ended>>

\* stop(), or the abort signal.
GeyserStop ==
    /\ live.at = "open"
    /\ live' = [live EXCEPT !.at = "closed"]
    /\ UNCHANGED <<chain, walk, replay, out, gaps, arrived, replays, ended>>

-----------------------------------------------------------------------------
(* The historical walk over 1..MaxSlot.                                    *)

\* From the head of the outer loop to its next await.
NextBatch(cursor, aborted) ==
    IF cursor <= MaxSlot /\ ~aborted
    THEN /\ walk' = [walk EXCEPT !.at = "batch", !.cursor = cursor]
         /\ UNCHANGED ended
    ELSE /\ walk' = [walk EXCEPT !.at = "done", !.cursor = cursor]
         /\ ended' = [ended EXCEPT !["historical"] = @ + 1]

HistoricalStart ==
    /\ walk.at = "idle"
    /\ NextBatch(1, walk.aborted)
    /\ UNCHANGED <<chain, live, replay, out, gaps, arrived, replays>>

\* The last slot of the batch.
chunkTo == IF walk.cursor + BatchSize - 1 < MaxSlot THEN walk.cursor + BatchSize - 1 ELSE MaxSlot

\* getBlocks has answered with the confirmed slots of the batch; an empty
\* or aborted batch leads to the next at once.
GetBlocks ==
    LET slots == Only([k \in 1..(chunkTo - walk.cursor + 1) |-> walk.cursor + k - 1],
                      {slot \in Slots : HasBlock(slot)})
    IN  /\ walk.at = "batch"
        /\ IF slots = <<>> \/ walk.aborted
           THEN NextBatch(walk.cursor + BatchSize, walk.aborted)
           ELSE walk' = [walk EXCEPT !.at = "blocks", !.slots = slots] /\ UNCHANGED ended
        /\ UNCHANGED <<chain, live, replay, out, gaps, arrived, replays>>

\* getBlock has answered: every matching event of the block is emitted,
\* an abort meanwhile or not.
GetBlock ==
    /\ walk.at = "blocks"
    /\ out' = [out EXCEPT !["historical"] = @ \o signals(Head(walk.slots))]
    /\ IF Len(walk.slots) = 1 \/ walk.aborted
       THEN NextBatch(walk.cursor + BatchSize, walk.aborted)
       ELSE walk' = [walk EXCEPT !.slots = Tail(@)] /\ UNCHANGED ended
    /\ UNCHANGED <<chain, live, replay, gaps, arrived, replays>>

\* Either call rejects: 'error', and nothing more.
HistoricalThrows ==
    /\ walk.at \in {"batch", "blocks"}
    /\ walk' = [walk EXCEPT !.at = "done"]
    /\ ended' = [ended EXCEPT !["historical"] = @ + 1]
    /\ UNCHANGED <<chain, live, replay, out, gaps, arrived, replays>>

HistoricalStop ==
    /\ ~walk.aborted
    /\ walk' = [walk EXCEPT !.aborted = TRUE]
    /\ UNCHANGED <<chain, live, replay, out, gaps, arrived, replays, ended>>

-----------------------------------------------------------------------------
(* The fixture: one line per signal of the chain.                          *)

Lines == Told(1, MaxSlot)

FixtureStart ==
    /\ replay.at = "idle"
    /\ replay' = [replay EXCEPT !.at = "reading"]
    /\ UNCHANGED <<chain, live, walk, out, gaps, arrived, replays, ended>>

StopsReading == replay.line > Len(Lines) \/ replay.aborted

FixtureLine ==
    /\ replay.at = "reading" /\ ~StopsReading
    /\ replay' = [replay EXCEPT !.line = @ + 1]
    /\ out' = [out EXCEPT !["fixture"] = Append(@, Lines[replay.line])]
    /\ UNCHANGED <<chain, live, walk, gaps, arrived, replays, ended>>

\* start() returns; 'end' is left to a later turn, and not for an abort.
FixtureReadAll ==
    /\ replay.at = "reading" /\ StopsReading
    /\ replay' = [replay EXCEPT !.at = IF replay.aborted THEN "done" ELSE "ending"]
    /\ UNCHANGED <<chain, live, walk, out, gaps, arrived, replays, ended>>

FixtureEnd ==
    /\ replay.at = "ending"
    /\ replay' = [replay EXCEPT !.at = "done"]
    /\ ended' = [ended EXCEPT !["fixture"] = @ + 1]
    /\ UNCHANGED <<chain, live, walk, out, gaps, arrived, replays>>

\* A line does not parse: 'error', and nothing more.
FixtureThrows ==
    /\ replay.at = "reading" /\ ~replay.aborted
    /\ replay' = [replay EXCEPT !.at = "done"]
    /\ ended' = [ended EXCEPT !["fixture"] = @ + 1]
    /\ UNCHANGED <<chain, live, walk, out, gaps, arrived, replays>>

\* The file cannot be read or unpacked.  Nobody listens for the errors of
\* the two streams: an uncaught exception, or a start() that never settles.
FixtureFails ==
    /\ replay.at = "reading"
    /\ replay' = [replay EXCEPT !.at = "lost"]
    /\ UNCHANGED <<chain, live, walk, out, gaps, arrived, replays, ended>>

FixtureStop ==
    /\ ~replay.aborted
    /\ replay' = [replay EXCEPT !.aborted = TRUE]
    /\ UNCHANGED <<chain, live, walk, out, gaps, arrived, replays, ended>>

GeyserSource == GeyserStart \/ GeyserStop \/ \E slot \in Slots : GeyserUpdate(slot)
HistoricalSource ==
    HistoricalStart \/ GetBlocks \/ GetBlock \/ HistoricalThrows \/ HistoricalStop
FixtureSource ==
    \/ FixtureStart \/ FixtureLine \/ FixtureReadAll \/ FixtureEnd
    \/ FixtureThrows \/ FixtureFails \/ FixtureStop

SourcesNext == GeyserSource \/ HistoricalSource \/ FixtureSource

\* RPC calls settle and files are read.
SourcesFairness ==
    /\ WF_sourceVars(GetBlocks) /\ WF_sourceVars(GetBlock)
    /\ WF_sourceVars(FixtureLine) /\ WF_sourceVars(FixtureReadAll) /\ WF_sourceVars(FixtureEnd)

SourcesSpec == SourcesInit /\ [][SourcesNext]_sourceVars /\ SourcesFairness

-----------------------------------------------------------------------------
(* Properties.                                                             *)

(* Every block between the first and the newest live update was seen or    *)
(* lies in a reported gap, also when updates repeat or come late and       *)
(* lastSlot moves back (geyser.ts:134).                                    *)
LossIsReported ==
    arrived # <<>> =>
        \A s \in Head(arrived)..Max(ToSet(arrived)) :
            s \in ToSet(arrived) \/ \E g \in gaps : g[1] <= s /\ s <= g[2]

(* Whatever source emits it, a signal is named after an event of the       *)
(* filter by its position among all events of its transaction, so that the *)
(* dedup of the bus and the queue knows an event that comes live and again *)
(* from history (geyser.ts:147, historical.ts:87).                         *)
SameEventSameId ==
    \A s \in Sources : \A n \in ToSet(out[s]) :
        n[2] \in DOMAIN chain[n[1]] /\ chain[n[1]][n[2]] = "ours"

(* What the walk has emitted is at every moment a prefix of the range's    *)
(* events, batch boundaries and skipped slots included, and all of it when *)
(* it ended unaborted with its cursor past the range (historical.ts:53).   *)
WalkIsComplete ==
    /\ IsPrefix(out["historical"], Lines)
    /\ walk.at = "done" /\ walk.cursor > MaxSlot /\ ~walk.aborted => out["historical"] = Lines

(* The replay emits a prefix of its file, and no line read after stop()    *)
(* (fixture.ts:31).                                                        *)
ReplayStopsAtOnce ==
    [][replay.aborted => out'["fixture"] = out["fixture"]]_sourceVars

(* A started walk and a started replay come to their 'end' or 'error',     *)
(* except for a replay that was stopped, which is promised neither, and    *)
(* one whose file cannot be read, which the code leaves without            *)
(* either (fixture.ts:27-29).                                              *)
SourcesEnd ==
    /\ walk.at = "batch" ~> ended["historical"] = 1
    /\ replay.at = "reading" ~> ended["fixture"] = 1 \/ replay.aborted \/ replay.at = "lost"

(* The safety of the sources: live losses are reported, history is         *)
(* complete, and both name an event alike.                                 *)
SourcesSafe ==
    /\ SourcesTypeOK
    /\ LossIsReported
    /\ SameEventSameId
    /\ WalkIsComplete
=============================================================================
