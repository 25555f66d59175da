----------------------------- MODULE Portfolio -----------------------------
(***************************************************************************)
(* solana-portfolio's FilePortfolioStore with its Reconciler: trades land  *)
(* on chain and are applied to the wallet's file, observe() cold-starts    *)
(* positions, correctLotBasis() edits one, and reconciliation passes,      *)
(* which may overlap, rebuild what has drifted.                            *)
(*                                                                         *)
(* One wallet.  A position is kept as the sum of its lots (the lots are    *)
(* the subject of module Lots), the realized PnL of a sale as the amount   *)
(* sold; reconstruct() is kept as what it promises, lots that sum to the   *)
(* balance it was given.  The store's operations queue on the wallet's     *)
(* mutex, and its head runs load, write, audit, with an await at each.     *)
(***************************************************************************)
EXTENDS Integers, Sequences, SequencesExt

CONSTANTS
    Mints,
    MaxOps,       \* bound on store operations under way together
    Passes,       \* reconciliation passes that may overlap
    MaxAmount,    \* bound: balances are 0..MaxAmount
    MaxLandings,  \* bound on changes of the chain
    MaxFaults     \* bound on failed writes, failed audits and crashes

ASSUME PortfolioAssumption ==
    MaxOps \in Nat /\ MaxAmount \in Nat /\ MaxLandings \in Nat /\ MaxFaults \in Nat

Absent == -1      \* no position for the mint

VARIABLES
    chain,      \* on-chain balance per mint
    landed,     \* landed trades not yet handed to applyLandedTrade
    file,       \* the wallet's file: position per mint, realized PnL
    mutex,      \* the operations chained on the wallet's mutex, oldest first
    pass,       \* the reconciliation passes
    landings,   \* changes of the chain so far
    faults,     \* faults so far
    lastAfter,  \* history: position of the latest "change" event per mint
    booked,     \* history: realized PnL emitted as events
    applied     \* history: what the completed operations add up to

store == <<file, mutex, lastAfter, booked, applied>>
env == <<chain, landed, landings>>
pfVars == <<env, store, pass, faults>>

Amounts == 0..MaxAmount
Held(pos, m) == IF pos[m] = Absent THEN 0 ELSE pos[m]

Positions == [Mints -> {Absent} \cup Nat]
Files == [pos : Positions, realized : Nat]
Trades == [id : Nat, mint : Mints, delta : Int]

Operations ==
    [kind : {"apply"}, trade : Trades]
    \cup [kind : {"observe"}, balances : [Mints -> Nat]]
    \cup [kind : {"correct"}, mint : Mints]
    \cup [kind : {"rebuild"}, mint : Mints, by : Passes, observed : Nat]

PassStates ==
    [at : {"idle"}]
    \cup [at : {"fetch"}, pos : Positions]
    \cup [at : {"rebuild"}, todo : Positions]   \* balances to rebuild to

\* The file as long as there is none, and what an operation has read at first.
NoFile == [pos |-> [m \in Mints |-> Absent], realized |-> 0]

PortfolioTypeOK ==
    /\ chain \in [Mints -> Amounts]
    /\ \A t \in landed : t \in Trades
    /\ file \in Files /\ lastAfter \in Positions /\ booked \in Nat
    /\ mutex \in Seq([op : Operations, at : {"load", "write", "audit"}, snap : Files])
    /\ Len(mutex) <= MaxOps
    /\ pass \in [Passes -> PassStates]
    /\ landings \in 0..MaxLandings /\ faults \in 0..MaxFaults

PortfolioInit ==
    /\ chain \in [Mints -> Amounts]
    /\ landed = {}
    /\ file = NoFile
    /\ mutex = <<>>
    /\ pass = [p \in Passes |-> [at |-> "idle"]]
    /\ landings = 0 /\ faults = 0
    /\ lastAfter = file.pos /\ booked = 0 /\ applied = file.pos

-----------------------------------------------------------------------------
(* The chain.                                                              *)

\* A transaction of the executor changes the balance by d; its LandedTrade
\* is on the way to the store.
TradeLands(m, d) ==
    /\ landings < MaxLandings /\ landings' = landings + 1
    /\ d # 0 /\ chain[m] + d \in Amounts
    /\ chain' = [chain EXCEPT ![m] = @ + d]
    /\ landed' = landed \cup {[id |-> landings', mint |-> m, delta |-> d]}
    /\ UNCHANGED <<store, pass, faults>>

\* A transfer that nobody reports.
ExternalTransfer(m, d) ==
    /\ landings < MaxLandings /\ landings' = landings + 1
    /\ d # 0 /\ chain[m] + d \in Amounts
    /\ chain' = [chain EXCEPT ![m] = @ + d]
    /\ UNCHANGED <<landed, store, pass, faults>>

-----------------------------------------------------------------------------
(* The mutex: withMutex chains the operation behind the latest one.        *)

enqueueOp(r) ==
    /\ Len(mutex) < MaxOps
    /\ mutex' = Append(mutex, [op |-> r, at |-> "load", snap |-> NoFile])

\* Mutant: the operation starts without waiting for the ones before it.
HoldsAtOnce(i) == TRUE

\* `await prev` has resolved.
HoldsMutex(i) == i = 1

AdvanceOp(i, at) == mutex' = [mutex EXCEPT ![i].at = at]

\* The operation resolves or throws; either way the mutex passes on.
Release(i) == mutex' = RemoveAt(mutex, i)

\* An operation that throws leaves through the finally of withMutex; a
\* rebuild takes the rest of its reconciliation pass with it.
Throws(i) ==
    /\ Release(i)
    /\ pass' = IF mutex[i].op.kind # "rebuild" THEN pass
               ELSE [pass EXCEPT ![mutex[i].op.by] = [at |-> "idle"]]

ApplyLandedTrade(t) ==
    /\ enqueueOp([kind |-> "apply", trade |-> t])
    /\ landed' = landed \ {t}
    /\ UNCHANGED <<chain, landings, file, lastAfter, booked, applied, pass, faults>>

\* observe(): the balances are fetched before the mutex is taken.
Observe ==
    /\ enqueueOp([kind |-> "observe", balances |-> chain])
    /\ UNCHANGED <<env, file, lastAfter, booked, applied, pass, faults>>

CorrectLotBasis(m) ==
    /\ enqueueOp([kind |-> "correct", mint |-> m])
    /\ UNCHANGED <<env, file, lastAfter, booked, applied, pass, faults>>

\* loadWalletData.
Load(i) ==
    /\ HoldsMutex(i) /\ mutex[i].at = "load"
    /\ mutex' = [mutex EXCEPT ![i] = [op |-> mutex[i].op, at |-> "write", snap |-> file]]
    /\ UNCHANGED <<env, file, lastAfter, booked, applied, pass, faults>>

Delta(r) == r.trade.delta
Sells(r) == r.kind = "apply" /\ Delta(r) < 0

\* What reading pos shows to be impossible: reduceLots throws for more than is
\* held, correctLotBasis for no position and for no lot.
Impossible(r, pos) ==
    \/ Sells(r) /\ -Delta(r) > Held(pos, r.trade.mint)
    \/ r.kind = "correct" /\ Held(pos, r.mint) = 0

\* The mints observe() starts a position for.
ColdStarts(r, pos) == {m \in Mints : pos[m] = Absent /\ r.balances[m] # 0}

\* The positions the operation leaves, from those it starts with.
Result(r, pos) ==
    CASE r.kind = "apply" -> [pos EXCEPT ![r.trade.mint] = Held(pos, r.trade.mint) + Delta(r)]
      [] r.kind = "rebuild" -> [pos EXCEPT ![r.mint] = r.observed]
      [] r.kind = "observe" ->
            [m \in Mints |-> IF m \in ColdStarts(r, pos) THEN r.balances[m] ELSE pos[m]]
      [] r.kind = "correct" -> pos

Sold(r) == IF Sells(r) THEN -Delta(r) ELSE 0

\* The mints a "change" event is emitted for.
Changes(r, pos) ==
    CASE r.kind = "apply" -> {r.trade.mint}
      [] r.kind \in {"rebuild", "correct"} -> {r.mint}
      [] r.kind = "observe" -> ColdStarts(r, pos)

\* The "change" events of a set of mints.
Tell(r, pos, told) ==
    lastAfter' = [m \in Mints |-> IF m \in told THEN Result(r, pos)[m] ELSE lastAfter[m]]

\* The new data, and "realized-pnl" for a sale, then the write: temporary
\* file and rename.
Write(i) ==
    LET r == mutex[i].op  snap == mutex[i].snap IN
    /\ HoldsMutex(i) /\ mutex[i].at = "write" /\ ~Impossible(r, snap.pos)
    /\ file' = [pos |-> Result(r, snap.pos), realized |-> snap.realized + Sold(r)]
    /\ booked' = booked + Sold(r)
    /\ applied' = Result(r, applied)
    /\ AdvanceOp(i, "audit")
    /\ UNCHANGED <<env, lastAfter, pass, faults>>

\* Overselling, or no such position.
WriteImpossible(i) ==
    /\ HoldsMutex(i) /\ mutex[i].at = "write" /\ Impossible(mutex[i].op, mutex[i].snap.pos)
    /\ Throws(i)
    /\ UNCHANGED <<env, file, lastAfter, booked, applied, faults>>

\* The disk refuses: "realized-pnl" has been emitted, nothing is written.
WriteFails(i) ==
    /\ HoldsMutex(i) /\ mutex[i].at = "write" /\ ~Impossible(mutex[i].op, mutex[i].snap.pos)
    /\ faults < MaxFaults /\ faults' = faults + 1
    /\ booked' = booked + Sold(mutex[i].op)
    /\ Throws(i)
    /\ UNCHANGED <<env, file, lastAfter, applied>>

\* The audit line and the "change" event of each mint.
Audit(i) ==
    LET r == mutex[i].op  pos == mutex[i].snap.pos IN
    /\ HoldsMutex(i) /\ mutex[i].at = "audit"
    /\ Tell(r, pos, Changes(r, pos))
    /\ Release(i)
    /\ UNCHANGED <<env, file, booked, applied, pass, faults>>

\* The audit file refuses a line: written, yet the caller sees a failure, and
\* the "change" of that mint and of those after it is not emitted.
AuditFails(i) ==
    LET r == mutex[i].op  pos == mutex[i].snap.pos IN
    /\ HoldsMutex(i) /\ mutex[i].at = "audit"
    /\ faults < MaxFaults /\ faults' = faults + 1
    /\ \E told \in SUBSET Changes(r, pos) : told # Changes(r, pos) /\ Tell(r, pos, told)
    /\ Throws(i)
    /\ UNCHANGED <<env, file, booked, applied>>

\* The process dies and starts again on the file as it is.
Crash ==
    /\ faults < MaxFaults /\ faults' = faults + 1
    /\ mutex' = <<>>
    /\ pass' = [p \in Passes |-> [at |-> "idle"]]
    /\ landed' = {} /\ lastAfter' = file.pos
    /\ UNCHANGED <<chain, landings, file, booked, applied>>

-----------------------------------------------------------------------------
(* The reconciler.  Its timer starts a pass whether or not one is running. *)

\* getAllPositions, outside the mutex.
PassReads(p) ==
    /\ pass[p].at = "idle"
    /\ pass' = [pass EXCEPT ![p] = [at |-> "fetch", pos |-> file.pos]]
    /\ UNCHANGED <<env, store, faults>>

\* Mutant: a position that the chain no longer holds is not a drift.
DriftsHeldOnly(pos, bal) == {m \in Mints : pos[m] # Absent /\ bal[m] # 0 /\ pos[m] # bal[m]}

\* The stored positions that differ from the chain.
Drifts(pos, bal) == {m \in Mints : pos[m] # Absent /\ pos[m] # bal[m]}

\* fetchTokenBalances, and the comparison.
PassFetches(p) ==
    /\ pass[p].at = "fetch"
    /\ pass' = [pass EXCEPT ![p] = [at |-> "rebuild", todo |-> [m \in Mints |->
                    IF m \in Drifts(pass[p].pos, chain) THEN chain[m] ELSE Absent]]]
    /\ UNCHANGED <<env, store, faults>>

Rebuilding(p) == \E i \in DOMAIN mutex : mutex[i].op.kind = "rebuild" /\ mutex[i].op.by = p

\* rebuildPosition for the next drifted mint, once the last one is done.
PassRebuilds(p) ==
    /\ pass[p].at = "rebuild" /\ ~Rebuilding(p)
    /\ \E m \in Mints :
        /\ pass[p].todo[m] # Absent
        /\ enqueueOp([kind |-> "rebuild", mint |-> m, by |-> p,
                         observed |-> pass[p].todo[m]])
        /\ pass' = [pass EXCEPT ![p] = [at |-> "rebuild",
                                        todo |-> [pass[p].todo EXCEPT ![m] = Absent]]]
    /\ UNCHANGED <<env, file, lastAfter, booked, applied, faults>>

PassEnds(p) ==
    /\ pass[p].at = "rebuild" /\ ~Rebuilding(p)
    /\ \A m \in Mints : pass[p].todo[m] = Absent
    /\ pass' = [pass EXCEPT ![p] = [at |-> "idle"]]
    /\ UNCHANGED <<env, store, faults>>

\* An RPC call or a rebuild throws: the pass ends there.
PassFails(p) ==
    /\ pass[p].at \in {"fetch", "rebuild"}
    /\ faults < MaxFaults /\ faults' = faults + 1
    /\ ~Rebuilding(p)
    /\ pass' = [pass EXCEPT ![p] = [at |-> "idle"]]
    /\ UNCHANGED <<env, store>>

OpStep(i) == Load(i) \/ Write(i) \/ WriteImpossible(i) \/ Audit(i)
PassStep(p) == PassReads(p) \/ PassFetches(p) \/ PassRebuilds(p) \/ PassEnds(p)

PortfolioNext ==
    \/ \E m \in Mints, d \in -MaxAmount..MaxAmount : TradeLands(m, d) \/ ExternalTransfer(m, d)
    \/ \E t \in landed : ApplyLandedTrade(t)
    \/ Observe
    \/ \E m \in Mints : CorrectLotBasis(m)
    \/ \E i \in DOMAIN mutex : OpStep(i) \/ WriteFails(i) \/ AuditFails(i)
    \/ \E p \in Passes : PassStep(p) \/ PassFails(p)
    \/ Crash

\* File operations and RPC calls complete; the reconciler's timer fires.  (While
\* no position is stored a pass finds nothing to do: nothing is asked of it.)
PortfolioFairness ==
    /\ WF_pfVars(\E i \in DOMAIN mutex : OpStep(i))
    /\ \A p \in Passes :
        SF_pfVars((\E m \in Mints : file.pos[m] # Absent) /\ PassStep(p))

PortfolioSpec == PortfolioInit /\ [][PortfolioNext]_pfVars /\ PortfolioFairness

-----------------------------------------------------------------------------
(* Properties.                                                             *)

(* No update is lost: the file holds exactly what the operations that      *)
(* wrote it add up to, one after the other, although each reads the file,  *)
(* awaits and writes it whole while others are asked for                   *)
(* (store-file.ts withMutex, applyLandedTrade, rebuildPosition, observe).  *)
NoLostUpdate == file.pos = applied

(* A listener that follows "change" events sees the file: between          *)
(* operations the latest event of a mint carries its stored position,      *)
(* unless the audit file failed after a write (store-file.ts:253).         *)
ChangesTellTheFile ==
    mutex = <<>> /\ faults = 0 => lastAfter = file.pos

(* The realized PnL on disk is what "realized-pnl" events reported, unless *)
(* a write failed after its event (store-file.ts:219 emits first).         *)
PnlTellsTheFile ==
    /\ file.realized <= booked
    /\ faults = 0 => file.realized = booked

(* Reconciliation converges: once the chain stops changing (the bounds end *)
(* it), every stored position comes to agree with the chain and stays so,  *)
(* although passes overlap, read the two sides at different times and  *)
(* race with applyLandedTrade (reconciler.ts #reconcileWallet).            *)
Converges ==
    <>[](\A m \in Mints : file.pos[m] \in {Absent, chain[m]})

(* The safety of the store (store-file.ts): no update is lost between a    *)
(* read and a write, and what is emitted is what was written.              *)
PortfolioSafe ==
    /\ PortfolioTypeOK
    /\ NoLostUpdate
    /\ ChangesTellTheFile
    /\ PnlTellsTheFile
=============================================================================
