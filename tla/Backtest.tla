------------------------------ MODULE Backtest ------------------------------
(***************************************************************************)
(* The backtest harness (packages/solana-strategy/src/backtest.ts): a      *)
(* fixture feeds signals through the queue to the runtime's instance       *)
(* queue, whose tasks decide, submit to the simulated executor and apply   *)
(* the simulated trades to the in-memory portfolio; runBacktest() then     *)
(* stops the runtime, deregisters the strategy and reads the results.      *)
(*                                                                         *)
(* Hooks are asynchronous, so a hook may take as long as it likes; the     *)
(* runner waits only for what it really awaits.  The intent of a signal is *)
(* named by the number of that signal (runtime.ts derives the id from it). *)
(* Left out: clock values, simulated latency and slots.                    *)
(***************************************************************************)
EXTENDS Accounting

CONSTANTS
    MaxSignals,     \* bound: signals in the fixture
    TradeLists      \* what intentToTrade() may return: sequences of trades

\* Tokens and lamports the wallet gets by a trade.
Trade == [delta : Int, flow : Int]

ASSUME BacktestAssumption == MaxSignals \in Nat /\ TradeLists \subseteq Seq(Trade)

VARIABLES
    hooks,          \* the optional hooks the strategy defines
    stage,          \* "feeding", "ended", "closing", "shutting", "done"
    emitted,        \* signals the fixture emitted
    buffer,         \* SignalQueue buffer
    tasks,          \* the instance queue; the head is the task being run
    step,           \* where the head is: "idle", "deciding", "submitting", "applying", "hook"
    quarantined,
    pending,        \* _pendingSignalId, 0 for null
    signalIdByIntent,
    left,           \* trades of the submission still to be applied
    captured,       \* capturedTrades
    decisionLog,
    held,           \* the lots of the position
    realizedPnl,
    pnlSeries       \* the cumulative values of the series

btVars == <<hooks, stage, emitted, buffer, tasks, step, quarantined, pending,
            signalIdByIntent, left, captured, decisionLog, held, realizedPnl, pnlSeries>>

feed == <<hooks, emitted, buffer>>
report == <<captured, decisionLog, signalIdByIntent>>
book == <<held, realizedPnl, pnlSeries>>

Signals == 1..MaxSignals
Task(kind, id) == [kind |-> kind, id |-> id]

BacktestInit ==
    /\ hooks \in SUBSET {"onExecutionResult", "onPositionChange", "onShutdown"}
    /\ stage = "feeding" /\ emitted = 0 /\ buffer = <<>>
    /\ tasks = <<>> /\ step = "idle" /\ quarantined = FALSE
    /\ pending = 0 /\ signalIdByIntent = [s \in Signals |-> 0] /\ left = <<>>
    /\ captured = <<>> /\ decisionLog = <<>>
    /\ held = <<>> /\ realizedPnl = 0 /\ pnlSeries = <<>>

-----------------------------------------------------------------------------
(* The fixture and the signal queue *)

FixtureSignal ==
    /\ stage = "feeding" /\ emitted < MaxSignals
    /\ emitted' = emitted + 1
    /\ buffer' = Append(buffer, emitted + 1)
    /\ UNCHANGED <<report, book, hooks, stage, tasks, step, quarantined, pending, left>>

FixtureEnd ==
    /\ stage = "feeding"
    /\ stage' = "ended"
    /\ UNCHANGED <<feed, report, book, tasks, step, quarantined, pending, left>>

\* dispatchSignal(): a quarantined instance is passed over.
DispatchSignal ==
    /\ buffer # <<>> /\ stage \in {"feeding", "ended"}
    /\ buffer' = Tail(buffer)
    /\ tasks' = IF quarantined THEN tasks ELSE Append(tasks, Task("signal", Head(buffer)))
    /\ UNCHANGED <<report, book, hooks, stage, emitted, step, quarantined, pending, left>>

-----------------------------------------------------------------------------
(* The instance queue and the instrumented strategy *)

BeginTask ==
    /\ tasks # <<>> /\ step = "idle"
    /\ step' = IF Head(tasks).kind = "signal" THEN "deciding" ELSE "hook"
    /\ UNCHANGED <<feed, report, book, stage, tasks, quarantined, pending, left>>

\* A listener that enqueues a hook: only if the strategy has it, and is not quarantined.
WithHook(ts, hook, id) ==
    IF hook \in hooks /\ ~quarantined THEN Append(ts, Task(hook, id)) ELSE ts

\* onSignal() gives null, or throws and is reported; an error may trip a guard.
DecidesNot(trips) ==
    /\ step = "deciding"
    /\ step' = "idle" /\ tasks' = Tail(tasks)
    /\ quarantined' = (quarantined \/ trips)
    /\ UNCHANGED <<feed, report, book, stage, pending, left>>

\* onSignal() decides; the rate guard may trip on the decision, which is then
\* not submitted and leaves the pending signal id behind.
Decides(trips) ==
    /\ step = "deciding"
    /\ pending' = Head(tasks).id
    /\ quarantined' = (quarantined \/ trips)
    /\ step' = IF trips THEN "idle" ELSE "submitting"
    /\ tasks' = IF trips THEN Tail(tasks) ELSE tasks
    /\ UNCHANGED <<feed, report, book, stage, left>>

\* The wrapped submit(), up to its first await; a rejected intent has no trades.
Submit(trades) ==
    /\ step = "submitting"
    /\ signalIdByIntent' = IF pending = 0 THEN signalIdByIntent
                           ELSE [signalIdByIntent EXCEPT ![Head(tasks).id] = pending]
    /\ pending' = 0
    /\ captured' = Append(captured, Head(tasks).id)
    /\ left' = trades
    /\ step' = "applying"
    /\ UNCHANGED <<feed, book, stage, tasks, quarantined, decisionLog>>

Total(series) == IF series = <<>> THEN 0 ELSE Last(series)

Positive(n) == IF n > 0 THEN n ELSE 0

\* InMemoryPortfolio.applyLandedTrade(): a sale takes at most what is held, and
\* lamports that flow the wrong way count as none.
applyLandedTrade(trade) ==
    LET amount == Amount(held)
        sold == IF -trade.delta < amount THEN -trade.delta ELSE amount
        r == reduceLots(held, sold, Positive(trade.flow), "fifo")
    IN  \/ /\ trade.delta > 0
           /\ held' = Append(held, [amount |-> trade.delta, basis |-> Positive(-trade.flow)])
           /\ UNCHANGED <<realizedPnl, pnlSeries>>
        \/ /\ trade.delta < 0
           /\ held' = r.remaining
           /\ realizedPnl' = realizedPnl + r.realized
           /\ pnlSeries' = Append(pnlSeries, Total(pnlSeries) + r.realized)
        \/ trade.delta = 0 /\ UNCHANGED book

ApplyTrade ==
    /\ step = "applying" /\ left # <<>>
    /\ left' = Tail(left)
    /\ applyLandedTrade(Head(left))
    /\ tasks' = WithHook(tasks, "onPositionChange", Head(tasks).id)
    /\ UNCHANGED <<feed, report, stage, step, quarantined, pending>>

\* The rest of submit(): the decision is logged, the result is emitted.
Settles ==
    /\ step = "applying" /\ left = <<>>
    /\ LET intent == Head(tasks).id IN
        /\ decisionLog' = Append(decisionLog, [intentId |-> intent,
                                               signalId |-> signalIdByIntent[intent]])
        /\ tasks' = WithHook(Tail(tasks), "onExecutionResult", intent)
    /\ step' = "idle"
    /\ UNCHANGED <<feed, book, stage, quarantined, pending, signalIdByIntent, left, captured>>

\* deregister() after its barrier: onShutdown is enqueued, or it is all over.
Deregistered ==
    IF "onShutdown" \in hooks
      THEN /\ tasks' = Append(Tail(tasks), Task("onShutdown", 0))
           /\ stage' = "shutting"
      ELSE /\ tasks' = Tail(tasks)
           /\ stage' = "done"

EndHook ==
    /\ step = "hook"
    /\ step' = "idle"
    /\ IF Head(tasks).kind = "barrier" THEN Deregistered
       ELSE /\ tasks' = Tail(tasks)
            /\ stage' = IF Head(tasks).kind = "onShutdown" THEN "done" ELSE stage
    /\ UNCHANGED <<feed, report, book, quarantined, pending, left>>

\* Mutant: the runner deregisters without the barrier.
StopAtOnce ==
    /\ stage = "ended" /\ buffer = <<>>
    /\ stage' = "done"
    /\ UNCHANGED <<feed, report, book, tasks, step, quarantined, pending, left>>

\* The queue is drained and three turns have passed, which says nothing about
\* the tasks: stop(), and deregister() up to its barrier.
StopRuntime ==
    /\ stage = "ended" /\ buffer = <<>>
    /\ stage' = "closing"
    /\ tasks' = Append(tasks, Task("barrier", 0))
    /\ UNCHANGED <<feed, report, book, step, quarantined, pending, left>>

\* The running task takes its next step.
TaskStep ==
    \/ BeginTask
    \/ \E trips \in BOOLEAN : DecidesNot(trips) \/ Decides(trips)
    \/ \E trades \in TradeLists : Submit(trades)
    \/ ApplyTrade
    \/ Settles
    \/ EndHook

BacktestNext ==
    \/ FixtureSignal \/ FixtureEnd \/ DispatchSignal
    \/ TaskStep
    \/ StopRuntime

\* Awaited hooks settle, and Node runs what is queued.
BacktestFairness ==
    WF_btVars(TaskStep) /\ WF_btVars(DispatchSignal) /\ WF_btVars(StopRuntime)

BacktestSpec == BacktestInit /\ [][BacktestNext]_btVars /\ BacktestFairness

-----------------------------------------------------------------------------
\* maxDrawdown(): the running peak starts at 0.
maxDrawdown(series) ==
    LET run[k \in 0..Len(series)] ==
          IF k = 0 THEN [peak |-> 0, worst |-> 0]
          ELSE LET p == IF series[k] > run[k - 1].peak THEN series[k] ELSE run[k - 1].peak
               IN  [peak |-> p, worst |-> IF p - series[k] > run[k - 1].worst
                                            THEN p - series[k] ELSE run[k - 1].worst]
    IN  run[Len(series)].worst

(* Properties *)

BacktestTypeOK ==
    /\ held \in Seq(Lot)
    /\ pending \in 0..MaxSignals
    /\ stage \in {"feeding", "ended", "closing", "shutting", "done"}
    /\ step # "idle" => tasks # <<>>
    /\ (step # "applying") => left = <<>>

\* Every logged decision names the signal that caused its intent, also after a
\* decision that a guard kept from being submitted left its id behind; and the
\* log follows the order of the submissions.
DecisionsNameTheirSignal ==
    /\ \A k \in DOMAIN decisionLog : decisionLog[k].signalId = decisionLog[k].intentId
    /\ IsPrefix([k \in DOMAIN decisionLog |-> decisionLog[k].intentId], captured)

\* The series ends in what the portfolio realized, and the drawdown computed
\* from it is the largest fall from an earlier value (0 before the first).
SeriesIsTheLedger ==
    LET v == <<0>> \o pnlSeries
        falls == {v[p[1]] - v[p[2]] : p \in {q \in (1..Len(v)) \X (1..Len(v)) : q[1] <= q[2]}}
    IN  /\ Total(pnlSeries) = realizedPnl
        /\ maxDrawdown(pnlSeries) \in falls
        /\ \A f \in falls : f <= maxDrawdown(pnlSeries)

\* When the results are read, no signal is left anywhere, every captured trade
\* is in the decision log, and no trade is half applied.
ReportIsComplete ==
    stage = "done" =>
        /\ buffer = <<>>
        /\ \A k \in DOMAIN tasks : tasks[k].kind # "signal"
        /\ Len(decisionLog) = Len(captured)

\* What backtest.ts says of its rounds of drain: the chains are complete when
\* the results are read.  It is not so for a hook queued behind the barrier.
ChainsAreComplete == stage = "done" => tasks = <<>>

\* A fixture that ended leads to a result.
BacktestReturns == stage = "ended" ~> stage = "done"

(* The safety of the harness (backtest.ts): its report is the run's.       *)
BacktestSafe ==
    /\ BacktestTypeOK
    /\ DecisionsNameTheirSignal
    /\ SeriesIsTheLedger
    /\ ReportIsComplete
=============================================================================
