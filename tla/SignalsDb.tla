------------------------------ MODULE SignalsDb ------------------------------
(***************************************************************************)
(* The historical signals of pump.fun (packages/pumpfun-signals/sqlite.ts):*)
(* one table of observed events, and queries that answer as of a moment.   *)
(* A row is ingested when the caller gets to it, which may be long after   *)
(* and out of the order in which the events were observed.                 *)
(*                                                                         *)
(* init() awaits the import of the driver before it opens the database, so *)
(* calls of init() and close() overlap.  SQL is modelled by its meaning;   *)
(* payloads are the values the queries read from them.                     *)
(***************************************************************************)
EXTENDS Naturals, Sequences, SequencesExt, FiniteSets

CONSTANTS
    Mints, Wallets, Tiers5,     \* tiers a buyer or a wallet may have
    None,                       \* no tier, no answer
    Times,                      \* moments: a set of numbers
    MaxRows,                    \* bound: rows ingested
    MaxInits                    \* bound: calls of init()

ASSUME DbAssumption == Times \subseteq Nat

VARIABLES
    importing,      \* init() calls waiting for the import
    inits,          \* init() calls made
    handles,        \* database handles open
    db,             \* the one in use, 0 for null
    openedTwice,    \* history: an init() was called while another was importing
    eventRows       \* rows by id

dbVars == <<importing, inits, handles, db, openedTwice, eventRows>>

Buys == [type : {"buy"}, mint : Mints, wallet : Wallets, value : Tiers5 \union {None}, at : Times]
Milestones == [type : {"milestone"}, mint : Mints, wallet : {None}, value : Tiers5, at : Times]
TierRows == [type : {"wallet-tier"}, mint : {None}, wallet : Wallets, value : Tiers5, at : Times]
Verdicts == [type : {"safety-verdict"}, mint : Mints, wallet : {None}, value : Tiers5, at : Times]

DbInit ==
    /\ importing = 0 /\ inits = 0 /\ handles = {} /\ db = 0 /\ openedTwice = FALSE
    /\ eventRows = <<>>

-----------------------------------------------------------------------------
InitDb ==
    /\ inits < MaxInits
    /\ inits' = inits + 1
    /\ importing' = IF db = 0 THEN importing + 1 ELSE importing
    /\ openedTwice' = (openedTwice \/ importing > 0)
    /\ UNCHANGED <<handles, db, eventRows>>

\* The import is there: a handle is opened, and used from now on.
Opens ==
    /\ importing > 0
    /\ importing' = importing - 1
    /\ LET h == CHOOSE k \in 1..MaxInits : k \notin handles IN
         /\ handles' = handles \union {h}
         /\ db' = h
    /\ UNCHANGED <<inits, openedTwice, eventRows>>

\* The import fails, or the schema does, which closes the new handle.
OpenFails ==
    /\ importing > 0
    /\ importing' = importing - 1
    /\ UNCHANGED <<inits, handles, db, openedTwice, eventRows>>

CloseDb ==
    /\ db # 0
    /\ handles' = handles \ {db}
    /\ db' = 0
    /\ UNCHANGED <<importing, inits, openedTwice, eventRows>>

\* The four ingest methods; without a database they throw.
Ingest(row) ==
    /\ db # 0 /\ Len(eventRows) < MaxRows
    /\ eventRows' = Append(eventRows, row)
    /\ UNCHANGED <<importing, inits, handles, db, openedTwice>>

DbNext ==
    \/ InitDb \/ Opens \/ OpenFails \/ CloseDb
    \/ \E row \in Buys : Ingest(row)
    \/ \E row \in Milestones : Ingest(row)
    \/ \E row \in TierRows : Ingest(row)
    \/ \E row \in Verdicts : Ingest(row)

DbSpec == DbInit /\ [][DbNext]_dbVars

-----------------------------------------------------------------------------
(* The queries over a table t: the rows a WHERE clause finds, by id, and what *)
(* is made of them.                                                           *)

\* Mutant: whatever was observed since.
RowsSince(t, type, from, asOf) ==
    LET ids == {i \in DOMAIN t : t[i].type = type /\ t[i].at >= from}
    IN  [i \in ids |-> t[i]]

RowsAsOf(t, type, from, asOf) ==
    LET ids == {i \in DOMAIN t : t[i].type = type /\ t[i].at >= from /\ t[i].at <= asOf}
    IN  [i \in ids |-> t[i]]

OfMint(rows, mint) == {i \in DOMAIN rows : rows[i].mint = mint}

\* ORDER BY observed_at, id.
Before(rows, i, j) == rows[i].at < rows[j].at \/ (rows[i].at = rows[j].at /\ i < j)

\* What the row of a set of ids that comes last says.
latest(rows, ids) ==
    IF ids = {} THEN None
    ELSE rows[CHOOSE i \in ids : \A j \in ids \ {i} : Before(rows, j, i)].value

ofWallet(rows, wallet) == latest(rows, {i \in DOMAIN rows : rows[i].wallet = wallet})
walletTier(t, wallet, asOf) == ofWallet(RowsAsOf(t, "wallet-tier", 0, asOf), wallet)

verdictOf(rows, mint) == latest(rows, OfMint(rows, mint))
safetyVerdict(t, mint, asOf) == verdictOf(RowsAsOf(t, "safety-verdict", 0, asOf), mint)

sortedRows(rows, mint) == SetToSortSeq(OfMint(rows, mint), LAMBDA i, j : Before(rows, i, j))
milestoneEvents(t, mint, since, asOf) == sortedRows(RowsAsOf(t, "milestone", since, asOf), mint)

buyersOf(rows, mint) ==
    LET bought == OfMint(rows, mint)
        buyers(ids) == Cardinality({rows[i].wallet : i \in ids})
        first == {i \in bought : \A j \in bought : rows[i].at <= rows[j].at}
        last == {i \in bought : \A j \in bought : rows[i].at >= rows[j].at}
    IN  [byTier |-> [tier \in Tiers5 |-> buyers({i \in bought : rows[i].value = tier})],
         total |-> buyers(bought),
         firstBuyAt |-> {rows[i].at : i \in first},
         latestBuyAt |-> {rows[i].at : i \in last}]

convergenceState(t, mint, asOf, window) ==
    buyersOf(RowsAsOf(t, "buy", IF window > asOf THEN 0 ELSE asOf - window, asOf), mint)

-----------------------------------------------------------------------------
(* Properties *)

DbTypeOK ==
    /\ importing \in 0..MaxInits
    /\ db \in handles \union {0}
    /\ \A i \in DOMAIN eventRows : eventRows[i] \in Buys \union Milestones \union TierRows \union Verdicts

\* No answer as of a moment changes because of an event observed after it: the
\* backtest of today sees what the strategy saw then (sqlite.ts:148-152).
NoLookahead ==
    [][\A asOf \in Times :
         (Len(eventRows') > Len(eventRows) /\ Last(eventRows').at > asOf) =>
            /\ \A w \in Wallets : walletTier(eventRows', w, asOf) = walletTier(eventRows, w, asOf)
            /\ \A m \in Mints :
                 /\ safetyVerdict(eventRows', m, asOf) = safetyVerdict(eventRows, m, asOf)
                 /\ \A n \in Times :
                      /\ milestoneEvents(eventRows', m, n, asOf) = milestoneEvents(eventRows, m, n, asOf)
                      /\ convergenceState(eventRows', m, asOf, n)
                           = convergenceState(eventRows, m, asOf, n)]_dbVars

\* An answer moves with time only when something was observed in between, and
\* then to what was observed last, whatever the order of ingestion.
AnswersMoveWithRows ==
    \A a, b \in Times, w \in Wallets :
      LET between == {i \in DOMAIN eventRows : /\ eventRows[i].type = "wallet-tier"
                                          /\ eventRows[i].wallet = w
                                          /\ eventRows[i].at > a /\ eventRows[i].at <= b}
          last == {i \in between : \A j \in between : eventRows[j].at <= eventRows[i].at}
      IN  a < b =>
            IF between = {} THEN walletTier(eventRows, w, b) = walletTier(eventRows, w, a)
            ELSE walletTier(eventRows, w, b) \in {eventRows[i].value : i \in last}

\* The milestones of two adjacent ranges are those of the whole range, none
\* twice and none lost.
RangesSplit ==
    \A m \in Mints, b \in Times :
      LET whole == milestoneEvents(eventRows, m, 0, b) IN
      \A a \in {x \in Times : x < b} :
        milestoneEvents(eventRows, m, 0, a) \o milestoneEvents(eventRows, m, a + 1, b) = whole

\* No wallet counts twice in a tier, every buyer counts, and a wallet that
\* changed its tier inside the window counts once in each.
ConvergenceAddsUp ==
    \A m \in Mints, asOf \in Times, window \in Times :
      LET s == convergenceState(eventRows, m, asOf, window) IN
      /\ \A tier \in Tiers5 : s.byTier[tier] <= s.total
      /\ s.total <= Cardinality(Wallets)
      /\ \A at \in s.latestBuyAt : at <= asOf
      /\ \A at \in s.firstBuyAt : at + window >= asOf

\* A handle is lost only by two init() calls that were importing together.
LeakNeedsOverlap == handles \ {db} # {} => openedTwice

(* The safety of the database (sqlite.ts).                                 *)
DbSafe ==
    /\ DbTypeOK
    /\ AnswersMoveWithRows
    /\ LeakNeedsOverlap
    /\ ConvergenceAddsUp
    /\ RangesSplit
=============================================================================
