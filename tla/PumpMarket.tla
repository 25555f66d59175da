---------------------------- MODULE PumpMarket ----------------------------
(***************************************************************************)
(* The reads behind a pump.fun trade.  A coin trades on its bonding curve,   *)
(* completes and migrates to a PumpSwap pool while a client is between two *)
(* reads: buy() and sell() route by the curve they read first and name the *)
(* fee recipients they read next; pumpSwapPoolState() reads the pool, with *)
(* the virtual reserves, and then its vaults; checkProgramUpgrades()       *)
(* compares deployments in batches; fetchRecentTrades() pages back through *)
(* the curve's transactions.  The quotes of curve/math.ts and              *)
(* pumpswap/math.ts are operators over the reserves the market reaches.    *)
(***************************************************************************)
EXTENDS Integers, Sequences, FiniteSets, SequencesExt

CONSTANTS
    BpsScale, FeeBps,   \* 10000 and the fee the quotes are asked with
    VerifiedPrograms,   \* Seq: the programs whose deployments were verified
    BatchSize,          \* the RPC's 100 accounts per request
    PageLimit,          \* RecentTradesWindow.limit
    Recipients,         \* fee recipients
    Amounts,            \* amounts a caller asks for; zero is refused
    MaxMoves            \* bound on what the market does

ASSUME PumpAssumption ==
    /\ BpsScale \in Nat \ {0} /\ FeeBps \in 0..BpsScale
    /\ BatchSize \in Nat \ {0} /\ PageLimit \in Nat \ {0} /\ MaxMoves \in Nat
    /\ VerifiedPrograms \in Seq(STRING) /\ Amounts \subseteq Nat

VARIABLES
    curve,      \* the BondingCurve account: external
    pool,       \* the Pool account and its vaults: external
    fees,       \* fees[v]: the recipients in Global ("curve") and GlobalConfig ("pool")
    deployed,   \* deployed[i]: redeployments of VerifiedPrograms[i] since it was verified
    txs,        \* Seq: the trades of each transaction that touched the curve's address
    op, amount, \* the client's call
    awaiting,   \* the reads it waits for; {} between calls
    got,        \* what its reads returned
    built,      \* the instruction of the last call, NoInstruction if it threw
    checks,     \* checkProgramUpgrades()'s result so far
    todo,       \* signatures fetchRecentTrades() has still to read
    tradeLog,   \* the trades of the pages read so far, as <<signature, nth>>
    missed,     \* history: signatures getTransaction() did not find
    seen        \* history: what held at some moment of the call

pumpVars == <<curve, pool, fees, deployed, txs, op, amount, awaiting, got, built, checks, todo,
              tradeLog, missed, seen>>
market == <<curve, pool, fees, deployed, txs>>

NoInstruction == [venue |-> "none"]
Venues == {"curve", "pool"}
Modes == {"open", "reserved"}
Mode(mayhem) == IF mayhem THEN "reserved" ELSE "open"

---------------------------------------------------------------------------
(* Quotes.  The invariant is the product of the reserves; divisions round  *)
(* down, so an amount out, the difference, rounds up.                      *)
feeOf(n) == (n * FeeBps) \div BpsScale

(* The curve's k / newVirtualSol and the pool's k / newQuote. *)
outOf(in, from, to) == to - (from * to) \div (from + in)

tokensOutForSolIn(solIn, r) == outOf(solIn - feeOf(solIn), r.vsol, r.vtok)
solOutForTokensIn(tokensIn, r) ==
    LET before == outOf(tokensIn, r.vtok, r.vsol) IN before - feeOf(before)
ammTokensOut(quoteIn, r) == outOf(quoteIn - feeOf(quoteIn), r.quote, r.base)
ammSolOut(tokensIn, r) ==
    LET before == outOf(tokensIn, r.base, r.quote) IN before - feeOf(before)

---------------------------------------------------------------------------
(* The pool prices with its vault balance plus the virtual reserves. *)
effectiveReserves(p, virtual) == [base |-> p.base, quote |-> p.quote + virtual]

(* feeRecipientFor() and protocolFeeRecipientFor(): the first of the list   *)
(* of the coin's mode; "none" when the list is empty, which throws.         *)
first(R) == IF R = {} THEN "none" ELSE CHOOSE r \in R : TRUE
recipientFor(v, mode) == first(fees[v][mode])

(* What the market shows at a moment that the call o may have seen.  *)
Moment(o, c, p, f, d) ==
    LET trade == o \in {"buy", "sell"} IN
    [venues |-> {v \in Venues : trade /\ IF v = "curve" THEN ~c.complete ELSE p.open},
     accepts |-> {a \in Venues \X Modes \X Recipients : trade /\ a[3] \in f[a[1]][a[2]]},
     reserves |-> IF o = "poolState" /\ p.open
                  THEN {[base |-> p.base, quote |-> p.quote, virtual |-> p.virtual]} ELSE {},
     deploys |-> {<<i, d[i]>> : i \in IF o = "upgrades" THEN DOMAIN d ELSE {}}]
Join(s, t) == [k \in DOMAIN s |-> s[k] \cup t[k]]

---------------------------------------------------------------------------
(* The market. *)
Moves == Len(txs) + pool.moves + fees.moves + Cardinality({i \in DOMAIN deployed : deployed[i] # 0})
ObserveMarket == seen' = IF awaiting = {} THEN seen
                   ELSE Join(seen, Moment(op, curve', pool', fees', deployed'))
MarketMoves ==
    /\ Moves < MaxMoves
    /\ ObserveMarket
    /\ UNCHANGED <<op, amount, awaiting, got, built, checks, todo, tradeLog, missed>>

CeilDiv(a, b) == (a + b - 1) \div b

(* A transaction of n trades of one unit; the curve completes when its       *)
(* real tokens are gone.                                                   *)
CurveTrades(n) ==
    /\ ~curve.complete
    /\ LET left == CeilDiv(curve.vsol * curve.vtok, curve.vsol + n)
           out == curve.vtok - left
           sold == IF out > curve.real THEN curve.real ELSE out
       IN curve' = [curve EXCEPT !.vsol = @ + n, !.vtok = @ - sold, !.real = @ - sold,
                                 !.complete = (sold = curve.real)]
    /\ txs' = Append(txs, n)
    /\ UNCHANGED <<pool, fees, deployed>>
    /\ MarketMoves

Migrates ==
    /\ curve.complete /\ ~pool.open
    /\ pool' = [pool EXCEPT !.open = TRUE]
    /\ txs' = Append(txs, 0)
    /\ UNCHANGED <<curve, fees, deployed>>
    /\ MarketMoves

PoolTrades(n) ==
    /\ pool.open
    /\ LET q == pool.quote + pool.virtual
           left == CeilDiv(pool.base * q, q + n)
       IN pool' = [pool EXCEPT !.base = left, !.quote = @ + n, !.moves = @ + 1]
    /\ UNCHANGED <<curve, fees, deployed, txs>>
    /\ MarketMoves

(* The program's virtual reserves of the pool, which no client sets. *)
VirtualChanges(n) ==
    /\ pool.open /\ n # pool.virtual
    /\ pool' = [pool EXCEPT !.virtual = n, !.moves = @ + 1]
    /\ UNCHANGED <<curve, fees, deployed, txs>>
    /\ MarketMoves

FeesChange(v, m, R) ==
    /\ v = "curve" /\ m = "open" => R # {}       \* Global has one primary recipient
    /\ fees' = [fees EXCEPT ![v][m] = R, !.moves = @ + 1]
    /\ UNCHANGED <<curve, pool, deployed, txs>>
    /\ MarketMoves

Redeploys(i) ==
    /\ deployed[i] = 0
    /\ deployed' = [deployed EXCEPT ![i] = 1]
    /\ UNCHANGED <<curve, pool, fees, txs>>
    /\ MarketMoves

---------------------------------------------------------------------------
(* The client. *)
NothingRead == [mayhem |-> FALSE, virtual |-> 0, reserves |-> <<>>, config |-> "unread"]
FirstRead == [buy |-> "curve", sell |-> "curve", poolState |-> "pool", upgrades |-> "programs",
              trades |-> "signatures"]

(* fetchRecentTrades() is asked for the next page with the signature of    *)
(* the last trade; a page without trades leaves the caller without one.      *)
Begin(o, a) ==
    /\ awaiting = {}
    /\ o = "trades" \/ tradeLog' = <<>>
    /\ o = "trades" => (op = "trades" => tradeLog # <<>>) /\ tradeLog' = IF op = "trades" THEN tradeLog ELSE <<>>
    /\ op' = o /\ amount' = a
    /\ o \notin {"buy", "sell"} => a = 0
    /\ awaiting' = {FirstRead[o]}
    /\ got' = NothingRead
    /\ built' = NoInstruction
    /\ checks' = <<>>
    /\ todo' = <<>>
    /\ missed' = IF tradeLog' = <<>> THEN {} ELSE missed
    /\ seen' = Moment(o, curve, pool, fees, deployed)
    /\ UNCHANGED market

Settled == UNCHANGED <<market, op, amount, seen>>
Answers == awaiting' = {}
Throws == Answers /\ UNCHANGED <<got, built, checks, todo, tradeLog, missed>>

(* A curve that is not complete takes the trade, whatever happens to it    *)
(* before the instruction is built.                                        *)
Route(complete) == IF complete THEN {"pool", "config"} ELSE {"global"}

ReadCurve ==
    /\ "curve" \in awaiting
    /\ got' = [got EXCEPT !.mayhem = curve.mayhem]
    /\ awaiting' = Route(curve.complete)
    /\ Settled /\ UNCHANGED <<built, checks, todo, tradeLog, missed>>

(* The builders refuse an amount that is not positive. *)
Build(venue, recipient, buyback) ==
    IF recipient = "none" \/ buyback = "none" \/ amount <= 0
    THEN Throws
    ELSE /\ built' = [venue |-> venue, mode |-> Mode(got.mayhem), recipient |-> recipient,
                      buyback |-> buyback]
         /\ Answers
         /\ UNCHANGED <<got, checks, todo, tradeLog, missed>>

ReadGlobal ==
    /\ "global" \in awaiting
    /\ Build("curve", recipientFor("curve", Mode(got.mayhem)), recipientFor("curve", "buyback"))
    /\ Settled

(* Promise.all(): the pool then its vaults, beside the config; a missing    *)
(* pool rejects whatever the other read does.                              *)
ReadPool ==
    /\ "pool" \in awaiting
    /\ IF pool.open
       THEN /\ awaiting' = (awaiting \ {"pool"}) \cup {"vaults"}
            /\ got' = [got EXCEPT !.virtual = pool.virtual]
            /\ UNCHANGED <<built, checks, todo, tradeLog, missed>>
       ELSE Throws
    /\ Settled

PoolRead(g, left) ==
    IF left = {} /\ op # "poolState"
    THEN Build("pool", g.config.recipient, g.config.buyback)
    ELSE /\ awaiting' = left
         /\ got' = g
         /\ UNCHANGED <<built, checks, todo, tradeLog, missed>>

(* Both vaults of now, with the virtual reserves the pool had when read. *)
ReadVaults ==
    /\ "vaults" \in awaiting
    /\ PoolRead([got EXCEPT !.reserves = effectiveReserves(pool, got.virtual)], awaiting \ {"vaults"})
    /\ Settled

(* The recipients are picked from the config once the pool's mode is known, *)
(* which never changes.                                                    *)
ReadConfig ==
    /\ "config" \in awaiting
    /\ PoolRead([got EXCEPT !.config = [recipient |-> recipientFor("pool", Mode(curve.mayhem)),
                                        buyback |-> recipientFor("pool", "buyback")]],
                awaiting \ {"config"})
    /\ Settled

---------------------------------------------------------------------------
(* checkProgramUpgrades(): a batch's Program accounts, then the headers of *)
(* their ProgramData accounts.                                             *)
Batch == (Len(checks) + 1)..(IF Len(checks) + BatchSize < Len(VerifiedPrograms)
                             THEN Len(checks) + BatchSize ELSE Len(VerifiedPrograms))

ReadPrograms ==
    /\ "programs" \in awaiting
    /\ awaiting' = {"headers"}
    /\ Settled /\ UNCHANGED <<got, built, checks, todo, tradeLog, missed>>

headerCheck(i) == [program |-> i, upgraded |-> (deployed[i] # 0)]

ReadHeaders ==
    /\ "headers" \in awaiting
    /\ checks' = checks \o [k \in 1..Cardinality(Batch) |-> headerCheck(Len(checks) + k)]
    /\ awaiting' = IF Len(checks') < Len(VerifiedPrograms) THEN {"programs"} ELSE {}
    /\ Settled /\ UNCHANGED <<got, built, todo, tradeLog, missed>>

---------------------------------------------------------------------------
(* fetchRecentTrades(): the page's signatures, newest first, and then each  *)
(* transaction, whose trades are listed in the order they were logged.        *)
\* Mutant: the page is asked for with the first trade.
CursorOfFirst == IF tradeLog = <<>> THEN Len(txs) + 1 ELSE Head(tradeLog)[1]
Cursor == IF tradeLog = <<>> THEN Len(txs) + 1 ELSE Last(tradeLog)[1]
pageBelow(cursor) ==
    [k \in 1..(IF cursor - 1 < PageLimit THEN cursor - 1 ELSE PageLimit) |-> cursor - k]

ReadSignatures ==
    /\ "signatures" \in awaiting
    /\ todo' = pageBelow(Cursor)
    /\ awaiting' = IF todo' = <<>> THEN {} ELSE {"transaction"}
    /\ Settled /\ UNCHANGED <<got, built, checks, tradeLog, missed>>

ReadTransaction(found) ==
    /\ "transaction" \in awaiting
    /\ LET sig == Head(todo)
       IN /\ tradeLog' = IF found THEN tradeLog \o [k \in 1..txs[sig] |-> <<sig, k>>] ELSE tradeLog
          /\ missed' = IF found THEN missed ELSE missed \cup {sig}
    /\ todo' = Tail(todo)
    /\ awaiting' = IF todo' = <<>> THEN {} ELSE {"transaction"}
    /\ Settled /\ UNCHANGED <<got, built, checks>>

---------------------------------------------------------------------------
PumpInit ==
    /\ \E mayhem \in BOOLEAN :
          curve = [vsol |-> 3, vtok |-> 5, real |-> 2, complete |-> FALSE, mayhem |-> mayhem]
    /\ pool = [open |-> FALSE, base |-> 3, quote |-> 4, virtual |-> 1, moves |-> 0]
    /\ fees = [curve |-> [open |-> Recipients, reserved |-> Recipients, buyback |-> Recipients],
               pool |-> [open |-> Recipients, reserved |-> Recipients, buyback |-> Recipients],
               moves |-> 0]
    /\ deployed = [i \in DOMAIN VerifiedPrograms |-> 0]
    /\ txs = <<>>
    /\ op = "none" /\ amount = 0 /\ awaiting = {}
    /\ got = NothingRead
    /\ built = NoInstruction
    /\ checks = <<>> /\ todo = <<>> /\ tradeLog = <<>> /\ missed = {}
    /\ seen = Moment(op, curve, pool, fees, deployed)

PumpNext ==
    \/ \E n \in 1..2 : CurveTrades(n)
    \/ Migrates
    \/ PoolTrades(1)
    \/ \E n \in 0..1 : VirtualChanges(n)
    \/ \E v \in Venues, m \in Modes \cup {"buyback"}, R \in SUBSET Recipients : FeesChange(v, m, R)
    \/ \E i \in DOMAIN VerifiedPrograms : Redeploys(i)
    \/ \E o \in DOMAIN FirstRead, a \in Amounts : Begin(o, a)
    \/ ReadCurve \/ ReadGlobal \/ ReadPool \/ ReadVaults \/ ReadConfig
    \/ ReadPrograms \/ ReadHeaders \/ ReadSignatures
    \/ \E found \in BOOLEAN : ReadTransaction(found)

PumpSpec == PumpInit /\ [][PumpNext]_pumpVars

---------------------------------------------------------------------------
PumpTypeOK ==
    /\ curve.complete = (curve.real = 0) /\ (pool.open => curve.complete)
    /\ txs \in Seq(0..2)
    /\ op \in DOMAIN FirstRead \cup {"none"} /\ amount \in Nat
    /\ \/ awaiting \in {{}} \cup {{r} : r \in {FirstRead[o] : o \in DOMAIN FirstRead}}
       \/ awaiting \in {{"global"}, {"headers"}, {"transaction"}, {"vaults"}, {"config"},
                        {"pool", "config"}, {"vaults", "config"}}
    /\ built # NoInstruction => built.venue \in Venues /\ built.recipient \in Recipients
    /\ \A k \in DOMAIN todo : todo[k] \in DOMAIN txs
    /\ missed \subseteq DOMAIN txs

(* buy() and sell() read the curve, then the recipients, then build: the   *)
(* venue they build for was open to trades at some moment of the call,     *)
(* though it may have closed since.                                        *)
BuiltForALiveVenue == built # NoInstruction => built.venue \in seen.venues

(* The recipient an instruction pays was one its venue accepted for the    *)
(* coin's mode at some moment of the call (feeRecipientFor(),              *)
(* protocolFeeRecipientFor()); otherwise the program rejects the trade.    *)
RecipientIsAccepted ==
    built # NoInstruction => <<built.venue, built.mode, built.recipient>> \in seen.accepts

(* pumpSwapPoolState() adds what it decoded from its first request to what *)
(* it fetched with its second: both vault balances are of one moment of    *)
(* the call, and the virtual reserves added to them are the pool's at a    *)
(* moment of it, so that the answer is exact unless they changed between.  *)
OnlyVirtualIsOlder ==
    op = "poolState" /\ got.reserves # <<>> =>
        \E p, n \in seen.reserves : got.reserves = effectiveReserves(p, n.virtual)

(* Refuted.  "Effective quote reserves the program prices with"            *)
(* (pool-state.ts:94): a trade and a change of the virtual reserves        *)
(* between the two requests give reserves the pool never priced with.      *)
ReservesAreOneMoment ==
    op = "poolState" /\ got.reserves # <<>> =>
        \E p \in seen.reserves : got.reserves = effectiveReserves(p, p.virtual)

(* checkProgramUpgrades() tells each program what was true of that program *)
(* at some moment of the check, whichever batch it fell in.                *)
ChecksAreTrue ==
    \A k \in DOMAIN checks :
        /\ checks[k].program = k
        /\ \E d \in seen.deploys : d[1] = k /\ checks[k].upgraded = (d[2] # 0)

(* A caller that pages fetchRecentTrades() with the signature of its last   *)
(* trade gets the trades newest first, none of them twice, and none left    *)
(* out between the first and the last but those of transactions             *)
(* getTransaction() did not find.                                          *)
PagesJoinUp ==
    /\ \A i, j \in DOMAIN tradeLog :
          i < j => \/ tradeLog[i][1] > tradeLog[j][1]
                   \/ tradeLog[i][1] = tradeLog[j][1] /\ tradeLog[i][2] < tradeLog[j][2]
    /\ tradeLog # <<>> =>
          \A s \in Last(tradeLog)[1]..Head(tradeLog)[1] :
              s \in missed \/ \A k \in 1..txs[s] : \E i \in DOMAIN tradeLog : tradeLog[i] = <<s, k>>

(* A quote is the exact constant-product amount after the fee, rounded up   *)
(* to a whole unit, on the curve's virtual reserves and on the pool's       *)
(* effective ones, buying and selling.                                     *)
QuotesAreExact ==
    \A x \in 0..4 :
        LET after == x - feeOf(x)
            p == effectiveReserves(pool, pool.virtual)
            sold == CeilDiv(curve.vsol * x, curve.vtok + x)
            swapped == CeilDiv(p.quote * x, p.base + x)
        IN /\ tokensOutForSolIn(x, curve) = CeilDiv(curve.vtok * after, curve.vsol + after)
           /\ solOutForTokensIn(x, curve) = sold - feeOf(sold)
           /\ ammTokensOut(x, p) = CeilDiv(p.base * after, p.quote + after)
           /\ ammSolOut(x, p) = swapped - feeOf(swapped)

(* The safety of the readers and builders: what they answer was true of    *)
(* the market during the call, or they say why not.                        *)
PumpSafe ==
    /\ PumpTypeOK
    /\ BuiltForALiveVenue
    /\ RecipientIsAccepted
    /\ OnlyVirtualIsOlder
    /\ ChecksAreTrue
    /\ PagesJoinUp
    /\ QuotesAreExact
=============================================================================
