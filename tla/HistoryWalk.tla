---------------------------- MODULE HistoryWalk ----------------------------
(***************************************************************************)
(* The four readers that page through a history which keeps growing while  *)
(* they read:                                                              *)
(*  - "sweep": RpcHistoricalBackfill.fetchEventsForProgram(), which keeps  *)
(*    the signatures of a slot range and then fetches their transactions   *)
(*    oldest first;                                                        *)
(*  - "catchup": HeliusCatchup.fetchRange(), which yields a slot range     *)
(*    newest first, up to a limit of events and of pages;                  *)
(*  - "rebuild": CostBasisReconstructor.reconstruct(), which walks a       *)
(*    wallet back to the opening of its position and replays it into lots; *)
(*  - "blocks": RpcHistoricalBackfill.getBlocks(), in chunks of slots.     *)
(* A signature is its transaction's place in the chain.  getTransaction()  *)
(* may answer null for a transaction that exists.                          *)
(***************************************************************************)
EXTENDS Accounting, Selection, FiniteSets, FiniteSetsExt

CONSTANTS
    PageSize,       \* DEFAULT_SIG_LIMIT, SIG_PAGE_SIZE, the API's page size
    Chunk,          \* BLOCKS_CHUNK
    MaxChain,       \* bound on the transactions
    MaxSlot,        \* bound on the slots
    MaxNulls        \* bound on the transactions getTransaction() does not find

ASSUME WalkAssumption ==
    /\ PageSize \in Nat \ {0} /\ Chunk \in Nat \ {0}
    /\ MaxChain \in Nat /\ MaxSlot \in Nat /\ MaxNulls \in Nat

VARIABLES
    chain,      \* Seq of transactions, oldest first: external
    reader,     \* the client that reads
    wpc,        \* "idle", "walk", "fetch", "done"
    from, to,   \* the slots asked for; a rebuild's lookback cutoff is the time from
    maxEvents, maxPages,    \* fetchRange()'s limit and maxPages; 0 is Infinity
    before,     \* the page cursor, 0 while undefined; getBlocks()'s next slot
    pages,      \* the pages fetchRange() has read
    kept,       \* the signatures kept so far, or to fetch; a rebuild's changes
    nulls,      \* the transactions getTransaction() did not find
    out,        \* what was delivered: signatures, slots or lots
    landed,     \* history: the length of the chain when the reader started
    balance     \* the wallet's balance the caller read before it started

walkVars == <<chain, reader, wpc, from, to, maxEvents, maxPages, before, pages, kept, nulls,
              out, landed, balance>>

Readers == {"sweep", "catchup", "rebuild", "blocks"}

(* A transaction: its slot, the wallet's balance of the mint before and    *)
(* after it, and what the change was.  A failed one changes nothing.       *)
Tx == [slot : Nat, pre : Nat, post : Nat,
       kind : {"swap", "gift", "airdrop", "out", "other", "failed"}]

Held(c) == IF c = <<>> THEN 0 ELSE Last(c).post

WalkTypeOK ==
    /\ chain \in Seq(Tx) /\ reader \in Readers
    /\ wpc \in {"idle", "walk", "fetch", "done"}
    /\ \A n \in {from, to, maxEvents, maxPages, before, pages, landed, balance} : n \in Nat
    /\ \A k \in DOMAIN kept : kept[k] \in DOMAIN chain
    /\ nulls \subseteq DOMAIN chain

WalkInit ==
    /\ chain = <<>> /\ reader \in Readers /\ wpc = "idle"
    /\ from = 0 /\ to = 0 /\ maxEvents = 0 /\ maxPages = 0
    /\ before = 0 /\ pages = 0 /\ kept = <<>> /\ nulls = {} /\ out = <<>>
    /\ landed = 0 /\ balance = 0

-----------------------------------------------------------------------------
(* The chain.                                                              *)

\* A transaction lands, before the reader starts or while it reads.
WalkLands ==
    /\ Len(chain) < MaxChain /\ wpc # "done"
    /\ \E slot \in IF chain = <<>> THEN 0..1 ELSE {Last(chain).slot, Last(chain).slot + 1},
          n \in 0..(Held(chain) + 2), kind \in {"swap", "gift", "airdrop", "out", "other", "failed"} :
        /\ (n > Held(chain)) <=> kind \in {"swap", "gift", "airdrop"}
        /\ (n < Held(chain)) <=> kind = "out"
        \* only what the reader tells apart
        /\ IF reader = "rebuild" THEN slot = 0 /\ n - Held(chain) \in
                   (CASE kind \in {"gift", "airdrop"} -> {1} [] kind = "swap" -> {1, 2}
                      [] OTHER -> {0, -1, -2})
           ELSE slot <= MaxSlot /\ kind \in {"other", "failed"}
        /\ chain' = Append(chain, [slot |-> slot, pre |-> Held(chain), post |-> n, kind |-> kind])
    /\ UNCHANGED <<reader, wpc, from, to, maxEvents, maxPages, before, pages, kept, nulls, out,
                   landed, balance>>

(* The call.  An empty range returns at once.  getBlocks() starts at from. *)
Begins ==
    /\ wpc = "idle"
    /\ from' \in IF reader = "rebuild" THEN 0..1 ELSE 0..MaxSlot
    /\ to' \in IF reader = "rebuild" THEN {0} ELSE 0..MaxSlot
    /\ maxEvents' \in IF reader = "catchup" THEN {0, 2} ELSE {0}
    /\ maxPages' \in IF reader = "catchup" THEN 0..1 ELSE {0}
    /\ wpc' = IF reader \in {"sweep", "blocks"} /\ to' < from' THEN "done" ELSE "walk"
    /\ before' = IF reader = "blocks" THEN from' ELSE 0
    /\ landed' = Len(chain)
    /\ balance' = Held(chain)
    /\ UNCHANGED <<chain, reader, pages, kept, nulls, out>>

-----------------------------------------------------------------------------
(* Pages.                                                                  *)

\* getSignaturesForAddress: newest first, strictly before the cursor.
Page ==
    LET newest == IF before = 0 THEN Len(chain) ELSE before - 1
    IN  [k \in 1..(IF newest < PageSize THEN newest ELSE PageSize) |-> newest - k + 1]

InRange(i) == from <= chain[i].slot /\ chain[i].slot <= to

Kept(page) == Only(page, {i \in Range(page) : InRange(i)})

BelowRange(page) == \E k \in DOMAIN page : chain[page[k]].slot < from

NextPage(page) == before' = Last(page)

\* A page that is empty or short, or reaches below the range, is the last.
LastPage(page) == Len(page) < PageSize \/ BelowRange(page)

\* Mutant: the order of the pages stays.
OldestLast(sigs) == sigs

OldestFirst(sigs) == Reverse(sigs)

SweepPage ==
    /\ reader = "sweep" /\ wpc = "walk"
    /\ IF LastPage(Page)
       THEN kept' = OldestFirst(kept \o Kept(Page)) /\ wpc' = "fetch" /\ before' = before
       ELSE kept' = kept \o Kept(Page) /\ wpc' = wpc /\ NextPage(Page)
    /\ UNCHANGED <<chain, reader, from, to, maxEvents, maxPages, pages, nulls, out, landed, balance>>

(* The sweep fetches what it kept, oldest first: a failed transaction and  *)
(* one that is not found are passed over, a decoder that throws still      *)
(* yields.                                                                 *)
SweepFetches ==
    /\ reader = "sweep" /\ wpc = "fetch"
    /\ IF kept = <<>> THEN wpc' = "done" /\ UNCHANGED <<kept, out, nulls>>
       ELSE LET i == Head(kept)
            IN  /\ kept' = Tail(kept)
                /\ wpc' = wpc
                /\ \/ /\ chain[i].kind = "failed"
                      /\ UNCHANGED <<out, nulls>>
                   \/ /\ chain[i].kind # "failed"
                      /\ Cardinality(nulls) < MaxNulls
                      /\ nulls' = nulls \cup {i} /\ out' = out
                   \/ /\ chain[i].kind # "failed"
                      /\ out' = Append(out, i) /\ nulls' = nulls
    /\ UNCHANGED <<chain, reader, from, to, maxEvents, maxPages, before, pages, landed, balance>>

\* The events of a page, cut at the limit.
Yielded(page) ==
    LET es == out \o Kept(page)
    IN  IF maxEvents > 0 /\ Len(es) > maxEvents THEN SubSeq(es, 1, maxEvents) ELSE es

(* fetchRange(): a failed transaction is yielded too, and only an empty    *)
(* page ends the history.                                                  *)
CatchupPage ==
    LET limited(es) == maxEvents > 0 /\ Len(es) >= maxEvents
    IN  /\ reader = "catchup" /\ wpc = "walk"
        /\ IF (maxPages > 0 /\ pages >= maxPages) \/ Page = <<>>
           THEN wpc' = "done" /\ UNCHANGED <<out, before, pages>>
           ELSE /\ out' = Yielded(Page)
                /\ pages' = pages + 1
                /\ IF BelowRange(Page) \/ limited(out')
                   THEN wpc' = "done" /\ before' = before
                   ELSE wpc' = wpc /\ NextPage(Page)
        /\ UNCHANGED <<chain, reader, from, to, maxEvents, maxPages, kept, nulls, landed, balance>>

chunkEnd(start) == IF start + Chunk - 1 < to THEN start + Chunk - 1 ELSE to

\* What the node answers for a window of slots: those with a block, in order.
SlotsWithBlock(start, end) ==
    Only([k \in 1..(end - start + 1) |-> start + k - 1], {chain[i].slot : i \in DOMAIN chain})

BlocksChunk ==
    /\ reader = "blocks" /\ wpc = "walk"
    /\ IF before > to THEN wpc' = "done" /\ UNCHANGED <<out, before>>
       ELSE /\ wpc' = wpc
            /\ out' = out \o SlotsWithBlock(before, chunkEnd(before))
            /\ before' = before + Chunk
    /\ UNCHANGED <<chain, reader, from, to, maxEvents, maxPages, pages, kept, nulls, landed, balance>>

-----------------------------------------------------------------------------
(* Reconstruction.                                                         *)

\* A failed transaction, or one that is not found, is passed over.
Changed(i, missing) ==
    i \notin missing /\ chain[i].kind # "failed" /\ chain[i].pre # chain[i].post

\* Mutant: the walk ends at the newest inflow.
OpeningOfAny(i) == chain[i].post > chain[i].pre

\* A signature's blockTime is its place in the chain.
TooOld(i) == i <= from

OpeningOf(i) == chain[i].pre = 0

(* The walk ends at the first signature, newest first, that is older than  *)
(* the cutoff (which is not kept), or opened the position (which is).      *)
Ending(page, missing) ==
    {k \in DOMAIN page : TooOld(page[k]) \/ (Changed(page[k], missing) /\ OpeningOf(page[k]))}

Walked(page, ending) == {k \in DOMAIN page : ~TooOld(page[k]) /\ \A e \in ending : k <= e}

\* What changed the balance, of the signatures walked.
Changes(page, walked, missing) == Only(page, {page[k] : k \in {j \in walked : Changed(page[j], missing)}})

unresolved(n) == [amount |-> n, basis |-> 0, sig |-> 0, unresolved |-> TRUE]

(* classifyInflow(): a registered tracer or the lamports that left price   *)
(* the lot; a transfer asks the hook, here without an answer; what came    *)
(* with neither is an airdrop at no cost.                                  *)
classifyInflow(i) ==
    LET delta == chain[i].post - chain[i].pre
    IN  [amount |-> delta, basis |-> IF chain[i].kind = "swap" THEN delta * i ELSE 0,
         sig |-> i, unresolved |-> chain[i].kind = "gift"]

\* One change of the replay; an outflow takes what is held at most.
replay(ls, i) ==
    LET n == chain[i].pre - chain[i].post
    IN  IF n < 0 THEN Append(ls, classifyInflow(i))
        ELSE reduceLots(ls, IF n < Amount(ls) THEN n ELSE Amount(ls), 0, "fifo").remaining

replayAll(ls, changes) ==
    LET lots[k \in 0..Len(changes)] == IF k = 0 THEN ls ELSE replay(lots[k - 1], changes[k])
    IN  lots[Len(changes)]

\* What was held before the oldest change kept.
opening(changes) ==
    IF changes = <<>> \/ chain[Last(changes)].pre = 0 THEN <<>>
    ELSE <<unresolved(chain[Last(changes)].pre)>>

\* The lots are brought to the balance the caller read.
reconcile(ls) ==
    CASE Amount(ls) > balance -> reduceLots(ls, Amount(ls) - balance, 0, "fifo").remaining
      [] Amount(ls) < balance -> Append(ls, unresolved(balance - Amount(ls)))
      [] OTHER -> ls

RebuildPage ==
    /\ reader = "rebuild" /\ wpc = "walk"
    /\ \E missing \in {{}} \cup {{i} : i \in {j \in Range(Page) : chain[j].kind # "failed"}} :
        LET ending == Ending(Page, missing)
        IN  /\ Cardinality(nulls \cup missing) <= MaxNulls
            /\ nulls' = nulls \cup missing
            /\ kept' = kept \o Changes(Page, Walked(Page, ending), missing)
            /\ IF Len(Page) < PageSize \/ ending # {}
               THEN wpc' = "fetch" /\ before' = before
               ELSE wpc' = wpc /\ NextPage(Page)
    /\ UNCHANGED <<chain, reader, from, to, maxEvents, maxPages, pages, out, landed, balance>>

Replays ==
    /\ reader = "rebuild" /\ wpc = "fetch"
    /\ out' = reconcile(replayAll(opening(kept), Reverse(kept)))
    /\ wpc' = "done"
    /\ UNCHANGED <<chain, reader, from, to, maxEvents, maxPages, before, pages, kept, nulls, landed,
                   balance>>

WalkNext ==
    \/ WalkLands \/ Begins
    \/ SweepPage \/ SweepFetches \/ CatchupPage \/ BlocksChunk
    \/ RebuildPage \/ Replays

WalkFairness == WF_walkVars(SweepPage \/ CatchupPage \/ BlocksChunk \/ RebuildPage)

WalkSpec == WalkInit /\ [][WalkNext]_walkVars /\ WalkFairness

-----------------------------------------------------------------------------
(* Properties.                                                             *)

\* The transactions of the range among the first n.
Asked(n) == {i \in 1..n : InRange(i)}

(* A sweep delivers every transaction that was in the range when it began, *)
(* once and oldest first, whatever lands while it pages; only a failed one *)
(* and one the node did not find are missing                               *)
(* (historical-backfill.ts:299-307).                                       *)
SweepIsExact ==
    reader = "sweep" /\ wpc = "done" /\ from <= to =>
        /\ \A i \in Asked(landed) \ nulls : chain[i].kind # "failed" => i \in Range(out)
        /\ \A i \in Range(out) : InRange(i)
        /\ \A j, k \in DOMAIN out : j < k => out[j] < out[k]

(* A catch-up yields the newest transactions of the range without a hole:  *)
(* all of them, unless it was limited in events or pages                   *)
(* (catchup.ts:67-106).                                                    *)
CatchupIsExact ==
    reader = "catchup" /\ wpc = "done" =>
        /\ \A j, k \in DOMAIN out : j < k => out[j] > out[k]
        /\ \A k \in DOMAIN out : InRange(out[k])
        /\ \A i \in Asked(landed) :
            i \in Range(out) \/ maxPages > 0 \/ (maxEvents > 0 /\ Len(out) = maxEvents)
        /\ \A i \in DOMAIN chain :
            out # <<>> /\ InRange(i) /\ Last(out) < i /\ i < out[1] => i \in Range(out)

(* getBlocks() returns every block of the range once and in order, however *)
(* the range falls into chunks (historical-backfill.ts:268).               *)
BlocksAreExact ==
    reader = "blocks" /\ wpc = "done" =>
        /\ \A j, k \in DOMAIN out : j < k => out[j] < out[k]
        /\ \A i \in Asked(landed) : chain[i].slot \in Range(out)

\* FIFO lots of the whole history, as the wallet's owner would keep them.
TrueLots(n) == replayAll(<<>>, SelectSeq([i \in 1..n |-> i], LAMBDA i : chain[i].pre # chain[i].post))

(* A rebuild that no cutoff stopped, with nothing missing and nothing      *)
(* landing meanwhile, gives the lots of the whole history: what was before *)
(* the opening does not matter (reconstructor.ts:214-216).                 *)
RebuildIsTrue ==
    reader = "rebuild" /\ wpc = "done" /\ from = 0 /\ nulls = {} /\ landed = Len(chain)
      => out = TrueLots(landed)

(* Whatever was missed or landed meanwhile, the lots add up to the balance *)
(* the caller read (reconstructor.ts:159-164).                             *)
LotsAreTheBalance ==
    reader = "rebuild" /\ wpc = "done" => Amount(out) = balance

(* A rebuild with one transaction missing claims a basis only for tokens   *)
(* that have it: the rest is in unresolved lots (reconstructor.ts:146,     *)
(* :163).                                                                  *)
ClaimedBasisIsTrue ==
    reader = "rebuild" /\ wpc = "done" /\ landed = Len(chain) /\ Cardinality(nulls) <= 1 =>
        LET true == Range(TrueLots(landed))
        IN  \A l \in Range(out) :
                l.unresolved \/ \E t \in true : t.sig = l.sig /\ t.amount >= l.amount

(* Every read ends, also while transactions keep landing: the cursor only  *)
(* goes down (historical-backfill.ts:235).                                 *)
WalkEnds == wpc = "walk" ~> wpc # "walk"

(* The three readers of history return what the chain holds, each in its   *)
(* order and range.                                                        *)
HistoryIsExact ==
    /\ WalkTypeOK
    /\ SweepIsExact
    /\ CatchupIsExact
    /\ BlocksAreExact

(* What the rebuild says of a position: its balance always, its basis where*)
(* it claims one.                                                          *)
RebuiltLotsAreTrue ==
    /\ RebuildIsTrue
    /\ LotsAreTheBalance
    /\ ClaimedBasisIsTrue
=============================================================================
