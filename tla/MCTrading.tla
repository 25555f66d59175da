----------------------------- MODULE MCTrading -----------------------------
(* The executor and the strategy runtime for TLC.  They meet only in the   *)
(* answers each gives the other, which both models choose freely, so a     *)
(* behaviour is one of either: focus says which.                           *)
EXTENDS Executor, StrategyRuntime, TLC

CONSTANTS c1, c2, i1, i2, rpcA, rpcB, jitoA, jitoB, g1, a, b, ra, rb, wa, wb

Single(n) == [attempts |-> n, deadline |-> 1, group |-> None, tipped |-> FALSE,
              prefers |-> <<jitoA, rpcA, rpcB>>]
Bundled(n, tip) == [attempts |-> n, deadline |-> 1, group |-> g1, tipped |-> tip,
                    prefers |-> <<jitoA, jitoB>>]

(* Two calls share an intent that may be retried.                          *)
SharedIntent == (c1 :> i1) @@ (c2 :> i1)
RetriedIntents == i1 :> Single(2)

(* Two intents of one bundle group; only the first pays a tip.             *)
OwnIntent == (c1 :> i1) @@ (c2 :> i2)
BundledIntents == (i1 :> Bundled(2, TRUE)) @@ (i2 :> Bundled(0, FALSE))

JitoPair == <<jitoA, jitoB>>

(* One instance of a.                                                      *)
OneId == ra :> a
OneWallet == ra :> wa
OneMatches == ra :> 1..MaxSignals
QuietHooks == ra :> {"onShutdown"}

(* Two instances, each with a wallet of its own.                           *)
TwoIds == (ra :> a) @@ (rb :> b)
TwoWallets == (ra :> wa) @@ (rb :> wb)
TwoMatches == (ra :> {1}) @@ (rb :> {1})
ChangeHooks == (ra :> {"onTick"}) @@ (rb :> {"onPositionChange", "onBalanceChange"})

Losses == {-1}
Swings == {-1, 2}

VARIABLE focus

mcVars == <<focus, vars, runtimeVars>>

MCInit == Init /\ RuntimeInit /\ focus \in {"executor", "runtime"}

MCNext ==
    \/ focus = "executor" /\ Next /\ UNCHANGED <<focus, runtimeVars>>
    \/ focus = "runtime" /\ RuntimeNext /\ UNCHANGED <<focus, vars>>

MCSpec == MCInit /\ [][MCNext]_mcVars

\* No fair action is enabled out of focus.
MCFairSpec == MCSpec /\ ExecutorFairness /\ RuntimeFairness
=============================================================================
