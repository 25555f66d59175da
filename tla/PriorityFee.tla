----------------------------- MODULE PriorityFee -----------------------------
(***************************************************************************)
(* The priority-fee estimator (packages/solana-tx/src/priority-fee.ts):    *)
(* slot and transaction updates of the geyser stream, in any order, fill a *)
(* window of slots; tier() answers with conservative defaults until enough *)
(* slots were seen and with a percentile of the window from then on.       *)
(*                                                                         *)
(* A fee rate is a number of a small set; the division that yields it is   *)
(* left out.  Quantiles are in hundredths, so that interpolation is exact. *)
(***************************************************************************)
EXTENDS Integers, Sequences, SequencesExt, FiniteSets

CONSTANTS
    windowSlots, warmupSlots,
    Rates,          \* fee rates of landed transactions
    MaxSlot,        \* bound: the newest slot
    MaxUpdates      \* bound: updates delivered

ASSUME FeeAssumption == windowSlots \in Nat \ {0} /\ warmupSlots \in Nat

VARIABLES
    subscribed,     \* "new", "started", "closed"
    samples,        \* #samples
    slotsSeen,      \* #slotsSeen
    lastSlot,       \* #lastSlot
    announced,      \* onSlot() calls
    landedFees,     \* history: every sample taken, in order
    observed,       \* history: every slot observed
    updates         \* updates delivered

feeVars == <<subscribed, samples, slotsSeen, lastSlot, announced, landedFees, observed, updates>>

FeeInit ==
    /\ subscribed = "new"
    /\ samples = <<>> /\ slotsSeen = {} /\ lastSlot = -1 /\ announced = 0
    /\ landedFees = <<>> /\ observed = {} /\ updates = 0

Start ==
    /\ subscribed = "new"
    /\ subscribed' = "started"
    /\ UNCHANGED <<samples, slotsSeen, lastSlot, announced, landedFees, observed, updates>>

Close ==
    /\ subscribed # "closed"
    /\ subscribed' = "closed"
    /\ UNCHANGED <<samples, slotsSeen, lastSlot, announced, landedFees, observed, updates>>

newestSlot(slot) == IF slot > lastSlot THEN slot ELSE lastSlot

\* The oldest slot #pruneWindow() keeps, once this slot was observed.
minSlot(slot) == newestSlot(slot) - windowSlots + 1

keptSlots(slot, seen) == {s \in seen : s >= minSlot(slot)}

keptSamples(slot, ss) == SelectSeq(ss, LAMBDA s : s.slot >= minSlot(slot))

\* #onUpdate(): #observeSlot(), then #ingestSample() of the sample taken, which
\* observes the slot again: one already outside the window is announced twice.
ObserveFee(slot, taken) ==
    /\ lastSlot' = newestSlot(slot)
    /\ slotsSeen' = keptSlots(slot, slotsSeen \union {slot})
    /\ samples' = keptSamples(slot, samples \o taken)
    /\ announced' = announced + (IF slot \in slotsSeen THEN 0
                                 ELSE IF slot < minSlot(slot) /\ taken # <<>> THEN 2 ELSE 1)
    /\ observed' = observed \union {slot}
    /\ landedFees' = landedFees \o taken

Update ==
    /\ subscribed = "started" /\ updates < MaxUpdates
    /\ updates' = updates + 1
    /\ UNCHANGED subscribed

\* A slot update, or a transaction without a usable fee.
SlotUpdate(slot) == Update /\ ObserveFee(slot, <<>>)

TransactionUpdate(slot, rate) == Update /\ ObserveFee(slot, <<[slot |-> slot, rate |-> rate]>>)

\* A transaction that names no slot counts for the last one, if there is one.
SlotlessUpdate(rate) ==
    /\ Update
    /\ IF lastSlot < 0
         THEN UNCHANGED <<samples, slotsSeen, lastSlot, announced, landedFees, observed>>
         ELSE ObserveFee(lastSlot, <<[slot |-> lastSlot, rate |-> rate]>>)

FeeNext ==
    \/ Start \/ Close
    \/ \E slot \in 0..MaxSlot : SlotUpdate(slot)
    \/ \E slot \in 0..MaxSlot, rate \in Rates : TransactionUpdate(slot, rate)
    \/ \E rate \in Rates : SlotlessUpdate(rate)

FeeSpec == FeeInit /\ [][FeeNext]_feeVars

-----------------------------------------------------------------------------
(* tier(), in ten-thousandths of a rate *)

Tiers == <<"low", "med", "high", "turbo">>
WARMUP_DEFAULTS == [low |-> 1, med |-> 10, high |-> 100, turbo |-> 1000]
tierPercentile == [low |-> 50, med |-> 75, high |-> 90, turbo |-> 99]

Sorted == SortSeq([k \in DOMAIN samples |-> samples[k].rate], <)

\* Linear interpolation between the neighbours of position p of (n - 1).
quantile(sorted, p) ==
    LET at == p * (Len(sorted) - 1)
        lo == 1 + at \div 100
        part == at % 100
    IN  IF part = 0 THEN sorted[lo] * 100
        ELSE sorted[lo] * (100 - part) + sorted[lo + 1] * part

isWarmup == Cardinality(slotsSeen) < warmupSlots

tier(t) ==
    IF isWarmup \/ samples = <<>> THEN WARMUP_DEFAULTS[t] * 10000
    ELSE quantile(Sorted, tierPercentile[t]) * (IF t = "turbo" THEN 110 ELSE 100)

-----------------------------------------------------------------------------
(* Properties *)

FeeTypeOK ==
    /\ lastSlot \in -1..MaxSlot
    /\ slotsSeen \subseteq 0..lastSlot
    /\ \A k \in DOMAIN samples : samples[k].rate \in Rates
    /\ announced >= Cardinality(slotsSeen)

\* The window holds every sample of the last windowSlots slots and no other,
\* in the order they came, also when updates of older slots arrive late.
WindowIsExact ==
    LET inside(slot) == slot > lastSlot - windowSlots
    IN  /\ samples = SelectSeq(landedFees, LAMBDA s : inside(s.slot))
        /\ slotsSeen = {s \in observed : inside(s)}

\* Percentiles are only used when the window holds enough distinct slots; the
\* tiers then rise from low to turbo, every tier but turbo (which is 10% more)
\* lies between two samples, and half of the samples cost no more than low.
TiersAreOrdered ==
    /\ \A k \in 1..3 : tier(Tiers[k]) <= tier(Tiers[k + 1])
    /\ (~isWarmup /\ samples # <<>>) =>
         LET n == Len(Sorted)
             cheap == {k \in DOMAIN samples : samples[k].rate * 10000 <= tier("low")}
         IN  /\ Cardinality({s \in observed : s > lastSlot - windowSlots}) >= warmupSlots
             /\ 2 * Cardinality(cheap) >= n
             /\ Sorted[1] * 10000 <= tier("low") /\ tier("high") <= Sorted[n] * 10000
             /\ tier("turbo") <= Sorted[n] * 11000

(* The safety of the estimator (priority-fee.ts).                          *)
FeeSafe ==
    /\ FeeTypeOK
    /\ WindowIsExact
    /\ TiersAreOrdered
=============================================================================
