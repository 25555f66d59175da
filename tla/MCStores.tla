------------------------------ MODULE MCStores ------------------------------
(* The portfolio store, the file-backed stores and the backtest harness    *)
(* for TLC.  They share no state, so a behaviour is one of either: focus   *)
(* says which.                                                             *)
EXTENDS Portfolio, FileStore, Backtest

CONSTANTS k1, k2

OwnPath == [k \in {k1, k2} |-> k]

\* What one landed transaction trades: nothing, a buy and an entry that moves no
\* tokens, two sales, the second of which pays for getting rid of the tokens.
Landings == {<<>>, <<[delta |-> 2, flow |-> -6], [delta |-> 0, flow |-> -1]>>,
             <<[delta |-> -1, flow |-> 2], [delta |-> -3, flow |-> -1]>>}

VARIABLE focus

mcVars == <<focus, pfVars, fsVars, btVars>>

\* Out of focus a component has one initial state.
MCInit ==
    /\ PortfolioInit /\ FileStoreInit /\ BacktestInit
    /\ focus \in {"portfolio", "files", "backtest"}
    /\ chain = [m \in Mints |-> 0]
    /\ focus # "backtest" => hooks = {}

MCNext ==
    \/ focus = "portfolio" /\ PortfolioNext /\ UNCHANGED <<focus, fsVars, btVars>>
    \/ focus = "files" /\ FileStoreNext /\ UNCHANGED <<focus, pfVars, btVars>>
    \/ focus = "backtest" /\ BacktestNext /\ UNCHANGED <<focus, pfVars, fsVars>>

\* No fair action is enabled out of focus.
MCSpec == MCInit /\ [][MCNext]_mcVars
    /\ PortfolioFairness /\ FileStoreFairness /\ BacktestFairness

(* The files hold what the stores promise.                                 *)
StoresSafe ==
    /\ PortfolioSafe
    /\ FileStoreTypeOK

(* The stores settle: the file converges to the chain, saves end, and a    *)
(* backtest returns.                                                       *)
StoresSettle ==
    /\ Converges
    /\ SavesSettle
    /\ BacktestReturns
=============================================================================
