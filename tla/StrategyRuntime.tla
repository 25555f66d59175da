-------------------------- MODULE StrategyRuntime --------------------------
(***************************************************************************)
(* The strategy runtime of solana-strategy: registration and its           *)
(* per-instance queues (runtime.ts, instance-queue.ts), the dispatch of    *)
(* signals, results, position changes and ticks, the callback that takes a *)
(* signal to the executor and the portfolio, and the guards that           *)
(* quarantine an instance (guards.ts).                                     *)
(*                                                                         *)
(* One action is the code between two awaits.  Strategies, the executor    *)
(* and the portfolio answer as they like: hooks may throw, submissions may *)
(* land, fail or throw, and every landed trade realises some profit or     *)
(* loss.                                                                   *)
(***************************************************************************)
EXTENDS Integers, Sequences, FiniteSets

CONSTANTS
    Ids,            \* instance ids
    Records,        \* InstanceRecord objects that register() may create
    Id,             \* Id[r]: the instance id of record r
    Wallet,         \* Wallet[r]: the wallet its decisions trade with
    Hooks,          \* Hooks[r]: the optional hooks its strategy defines
    Matches,        \* Matches[r]: the signals its filters let through
    Deregs,         \* calls of deregister()
    MaxDecisions, DecisionWindow,   \* GuardConfig and its windows
    MaxErrors, ErrorWindow, MaxLoss, MaxDrawdown, MaxOpen,
    DayLength,
    NoRecord,
    Pnl,            \* what applying one trade may realise
    MaxTrades,      \* trades of one landed transaction
    MaxSignals, MaxTicks, MaxStarts, MaxPauses, MaxFaults, MaxInstant \* bounds

ASSUME RuntimeAssumption ==
    /\ Id \in [Records -> Ids]
    /\ Matches \in [Records -> SUBSET (1..MaxSignals)]
    /\ NoRecord \notin Records \union Deregs
    /\ Pnl \subseteq Int
    /\ MaxLoss \in Nat /\ MaxDrawdown \in Nat
    /\ \A n \in {MaxDecisions, MaxErrors, MaxOpen, MaxTrades, MaxSignals, MaxTicks, MaxStarts,
                 MaxPauses, MaxFaults, MaxInstant} : n \in Nat
    /\ \A n \in {DecisionWindow, ErrorWindow, DayLength} : n \in Nat \ {0}

Wallets == {Wallet[r] : r \in Records}

VARIABLES
    instant,
    instances,  \* the map: id -> record, or NoRecord
    created,    \* records register() has made
    queue,      \* record -> tasks; the first is running unless pc is "idle"
    pc,         \* record -> what the running task awaits
    trades,     \* record -> trades of the landed result not applied yet
    before,     \* record -> realizedBefore
    quarantined,
    guard,      \* record -> its GuardTracker
    address,    \* records that have cached their wallet's address
    tripping,   \* records whose onShutdown a tripGuard() awaits
    dereg,      \* deregister() call -> its record and progress
    subscribed, timers, tickTimer,  \* signal subscription, intervals alive, the field set
    listeners,  \* handlers attached to executor and portfolio
    realized,   \* wallet -> realised PnL in the portfolio
    signals, ticks, starts, pauses, faults,     \* how often each has happened
    accepted,   \* history: record -> times of decisions that passed the guard
    submitted,  \* history: record -> signals submitted, in order
    own,        \* history: record -> PnL realised by its own trades
    resumed     \* history: records that were ever resumed

recordVars == <<queue, pc, trades, before, quarantined, guard, address, tripping>>
wiringVars == <<subscribed, timers, tickTimer, listeners>>
countVars == <<signals, ticks, starts, pauses, faults>>
historyVars == <<accepted, submitted, own, resumed>>
runtimeVars == <<instant, instances, created, recordVars, dereg, wiringVars, realized, countVars,
          historyVars>>

-----------------------------------------------------------------------------
(* GuardTracker.  Each operator gives the tracker after the call; Trips... *)
(* tell whether the call returned a trip.                                  *)

NoGuard == [decisions |-> <<>>, errors |-> <<>>, today |-> 0, day |-> 0,
            cumulative |-> 0, peak |-> 0]

(* What the filter keeps of a list of times.  They were appended as time   *)
(* went by, so what it drops is a prefix.                                  *)
Recent(times, window) ==
    LET dropped == CHOOSE n \in 0..Len(times) :
                      \A k \in DOMAIN times : k > n <=> instant - times[k] < window
    IN  SubSeq(times, dropped + 1, Len(times))

recordDecision(g) == [g EXCEPT !.decisions = Append(Recent(@, DecisionWindow), instant)]

(* Mutant: the decision that exceeds the limit is let through.             *)
TripsDecisionLate(g) == Len(g.decisions) > MaxDecisions + 1

TripsDecision(g) == Len(g.decisions) > MaxDecisions

recordError(g) == [g EXCEPT !.errors = Append(Recent(@, ErrorWindow), instant)]

TripsError(g) == Len(g.errors) > MaxErrors

recordRealized(g, amount) ==
    LET today == instant \div DayLength
        cumulative == g.cumulative + amount
    IN  [g EXCEPT !.day = today,
                  !.today = (IF today # g.day THEN 0 ELSE @) + amount,
                  !.cumulative = cumulative,
                  !.peak = IF cumulative > @ THEN cumulative ELSE @]

TripsRealized(g) == g.today < -MaxLoss \/ g.peak - g.cumulative > MaxDrawdown

-----------------------------------------------------------------------------
(* Queues.  A task is the hook it calls, the signal it carries (or 0) and  *)
(* the deregister() call that awaits it (or NoRecord).                     *)

Task(hook, sig, d) == [hook |-> hook, sig |-> sig, for |-> d]

Registered(r) == instances[Id[r]] = r

enqueue(q, tasks) == q \o tasks

(* n copies of tasks: each attached listener dispatches anew.              *)
Copies(n, tasks) ==
    [k \in 1..(n * Len(tasks)) |-> tasks[((k - 1) % Len(tasks)) + 1]]

(* The tasks a broadcast adds to the queue of r.                           *)
Wanted(r, task) ==
    IF Registered(r) /\ ~quarantined[r] /\ task.hook \in Hooks[r] THEN <<task>> ELSE <<>>

(* The running task of r ends: the chain moves on, whether the task's      *)
(* promise resolved or rejected, and the deregister() awaiting it goes on. *)
(* q gives the queues after what the step dispatched.                      *)
EndTask(r, q) ==
    /\ queue' = [q EXCEPT ![r] = Tail(@)]
    /\ pc' = [pc EXCEPT ![r] = "idle"]
    /\ dereg' = [d \in Deregs |->
                   IF Head(queue[r]).for = d
                     THEN [dereg[d] EXCEPT !.pc = IF @ = "barrier" THEN "drained" ELSE "flushed"]
                     ELSE dereg[d]]

(* tripGuard() up to its await.                                            *)
tripGuard(r) ==
    /\ quarantined' = [quarantined EXCEPT ![r] = TRUE]
    /\ tripping' = IF ~quarantined[r] /\ "onShutdown" \in Hooks[r] THEN tripping \union {r}
                   ELSE tripping

NoTrip == UNCHANGED <<quarantined, tripping>>

-----------------------------------------------------------------------------
(* Lifecycle.                                                              *)

(* register(); an id that is taken throws and changes nothing.             *)
Register(r) ==
    /\ r \notin created /\ instances[Id[r]] = NoRecord
    /\ created' = created \union {r}
    /\ instances' = [instances EXCEPT ![Id[r]] = r]
    /\ guard' = [guard EXCEPT ![r].day = instant \div DayLength]
    /\ queue' = [queue EXCEPT ![r] =
                   IF "onStart" \in Hooks[r] THEN enqueue(@, <<Task("onStart", 0, NoRecord)>>)
                   ELSE @]
    /\ UNCHANGED <<instant, pc, trades, before, quarantined, address, tripping, dereg, wiringVars,
                   realized, countVars, historyVars>>

(* deregister(): the drain barrier.                                        *)
Deregister(d, r) ==
    /\ dereg[d].pc = "idle" /\ Registered(r)
    /\ dereg' = [dereg EXCEPT ![d] = [rec |-> r, pc |-> "barrier"]]
    /\ queue' = [queue EXCEPT ![r] = enqueue(@, <<Task("barrier", 0, d)>>)]
    /\ UNCHANGED <<instant, instances, created, pc, trades, before, quarantined, guard, address,
                   tripping, wiringVars, realized, countVars, historyVars>>

(* deregister() after the barrier: onShutdown, if there is one.            *)
DeregisterShutdown(d) ==
    LET r == dereg[d].rec IN
    /\ dereg[d].pc = "drained"
    /\ "onShutdown" \in Hooks[r]
    /\ dereg' = [dereg EXCEPT ![d].pc = "shutdown"]
    /\ queue' = [queue EXCEPT ![r] = enqueue(@, <<Task("onShutdown", 0, d)>>)]
    /\ UNCHANGED <<instant, instances, created, pc, trades, before, quarantined, guard, address,
                   tripping, wiringVars, realized, countVars, historyVars>>

(* deregister() at its end: the id leaves the map.                         *)
DeregisterRemove(d) ==
    LET r == dereg[d].rec IN
    /\ dereg[d].pc = "drained" => "onShutdown" \notin Hooks[r]
    /\ dereg[d].pc \in {"drained", "flushed"}
    /\ dereg' = [dereg EXCEPT ![d].pc = "done"]
    /\ instances' = [instances EXCEPT ![Id[r]] = NoRecord]
    /\ UNCHANGED <<instant, created, recordVars, wiringVars, realized, countVars, historyVars>>

(* start(): the subscription has one name, the listeners and the interval  *)
(* are added each time.                                                    *)
Start ==
    /\ starts < MaxStarts
    /\ starts' = starts + 1
    /\ subscribed' = TRUE
    /\ listeners' = listeners + 1
    /\ timers' = timers + 1
    /\ tickTimer' = TRUE
    /\ UNCHANGED <<instant, instances, created, recordVars, dereg, realized, signals, ticks, pauses,
                   faults, historyVars>>

(* stop(): the listeners stay attached.                                    *)
Stop ==
    /\ subscribed \/ tickTimer
    /\ subscribed' = FALSE
    /\ timers' = IF tickTimer THEN timers - 1 ELSE timers
    /\ tickTimer' = FALSE
    /\ UNCHANGED <<instant, instances, created, recordVars, dereg, listeners, realized, countVars,
                   historyVars>>

Pause(r) ==
    /\ Registered(r) /\ pauses < MaxPauses
    /\ pauses' = pauses + 1
    /\ quarantined' = [quarantined EXCEPT ![r] = TRUE]
    /\ UNCHANGED <<instant, instances, created, queue, pc, trades, before, guard, address, tripping,
                   dereg, wiringVars, realized, signals, ticks, starts, faults, historyVars>>

Resume(r) ==
    /\ Registered(r) /\ quarantined[r] /\ pauses < MaxPauses
    /\ pauses' = pauses + 1
    /\ quarantined' = [quarantined EXCEPT ![r] = FALSE]
    /\ resumed' = resumed \union {r}
    /\ UNCHANGED <<instant, instances, created, queue, pc, trades, before, guard, address, tripping,
                   dereg, wiringVars, realized, signals, ticks, starts, faults, accepted,
                   submitted, own>>

-----------------------------------------------------------------------------
(* Dispatch.                                                               *)

(* The signal queue hands over its next signal; signals are numbered in    *)
(* that order.                                                             *)
DispatchSignal ==
    LET sig == signals + 1 IN
    /\ subscribed /\ signals < MaxSignals
    /\ signals' = sig
    /\ queue' = [r \in Records |->
                   IF Registered(r) /\ ~quarantined[r] /\ sig \in Matches[r]
                     THEN enqueue(queue[r], <<Task("onSignal", sig, NoRecord)>>)
                     ELSE queue[r]]
    /\ UNCHANGED <<instant, instances, created, pc, trades, before, quarantined, guard, address,
                   tripping, dereg, wiringVars, realized, ticks, starts, pauses, faults,
                   historyVars>>

(* The queues after the executor emitted a result.                         *)
dispatchExecutionResult ==
    [r \in Records |->
       enqueue(queue[r], Copies(listeners, Wanted(r, Task("onExecutionResult", 0, NoRecord))))]

(* The queues after the portfolio emitted a change of wallet w: balance    *)
(* changes go to the records that know the wallet, if the amount moved.    *)
dispatchPositionChange(w, moved) ==
    [r \in Records |->
       enqueue(queue[r], Copies(listeners,
         Wanted(r, Task("onPositionChange", 0, NoRecord)) \o
         IF moved /\ r \in address /\ Wallet[r] = w
           THEN Wanted(r, Task("onBalanceChange", 0, NoRecord)) ELSE <<>>))]

DispatchTick ==
    /\ timers > 0 /\ ticks < MaxTicks
    /\ ticks' = ticks + 1
    /\ queue' = [r \in Records |-> enqueue(queue[r], Wanted(r, Task("onTick", 0, NoRecord)))]
    /\ UNCHANGED <<instant, instances, created, pc, trades, before, quarantined, guard, address,
                   tripping, dereg, wiringVars, realized, signals, starts, pauses, faults,
                   historyVars>>

-----------------------------------------------------------------------------
(* The running task.                                                       *)

(* The chain reaches the first task and calls its hook.                    *)
BeginTask(r) ==
    /\ pc[r] = "idle" /\ queue[r] # <<>>
    /\ pc' = [pc EXCEPT ![r] = "hook"]
    /\ UNCHANGED <<instant, instances, created, queue, trades, before, quarantined, guard, address,
                   tripping, dereg, wiringVars, realized, countVars, historyVars>>

(* A hook resolves and there is nothing to trade: any hook but onSignal,   *)
(* or an onSignal without a decision.                                      *)
HookEnds(r) ==
    /\ pc[r] = "hook"
    /\ EndTask(r, queue)
    /\ UNCHANGED <<instant, instances, created, trades, before, quarantined, guard, address,
                   tripping, wiringVars, realized, countVars, historyVars>>

(* Mutant: callHook() lets the error through to the chain of deregister(). *)
HookThrowsThrough(r) ==
    /\ pc[r] = "hook" /\ Head(queue[r]).hook # "barrier"
    /\ faults < MaxFaults /\ faults' = faults + 1
    /\ queue' = [queue EXCEPT ![r] = Tail(@)]
    /\ pc' = [pc EXCEPT ![r] = "idle"]
    /\ guard' = [guard EXCEPT ![r] = recordError(@)]
    /\ IF TripsError(guard'[r]) THEN tripGuard(r) ELSE NoTrip
    /\ UNCHANGED <<instant, instances, created, trades, before, address, dereg, wiringVars, realized,
                   signals, ticks, starts, pauses, accepted, submitted, own, resumed>>

(* A hook throws: callHook() records the error, may trip, and returns      *)
(* undefined.                                                              *)
HookThrows(r) ==
    /\ pc[r] = "hook" /\ Head(queue[r]).hook # "barrier"
    /\ faults < MaxFaults /\ faults' = faults + 1
    /\ EndTask(r, queue)
    /\ guard' = [guard EXCEPT ![r] = recordError(@)]
    /\ IF TripsError(guard'[r]) THEN tripGuard(r) ELSE NoTrip
    /\ UNCHANGED <<instant, instances, created, trades, before, address, wiringVars, realized,
                   signals, ticks, starts, pauses, accepted, submitted, own, resumed>>

(* onSignal decides to trade: the rate guard, then the wallet's address    *)
(* (cached after the first time) and the submission.                       *)
HookDecides(r) ==
    /\ pc[r] = "hook" /\ Head(queue[r]).hook = "onSignal"
    /\ guard' = [guard EXCEPT ![r] = recordDecision(@)]
    /\ IF TripsDecision(guard'[r])
         THEN /\ tripGuard(r) /\ EndTask(r, queue)
              /\ UNCHANGED <<accepted, submitted>>
         ELSE /\ NoTrip
              /\ pc' = [pc EXCEPT ![r] = IF r \in address THEN "submit" ELSE "address"]
              /\ accepted' = [accepted EXCEPT ![r] = Append(@, instant)]
              /\ submitted' = IF r \in address
                                THEN [submitted EXCEPT ![r] = Append(@, Head(queue[r]).sig)]
                                ELSE submitted
              /\ UNCHANGED <<queue, dereg>>
    /\ UNCHANGED <<instant, instances, created, trades, before, address, wiringVars, realized,
                   countVars, own, resumed>>

AddressResolves(r) ==
    /\ pc[r] = "address"
    /\ address' = address \union {r}
    /\ pc' = [pc EXCEPT ![r] = "submit"]
    /\ submitted' = [submitted EXCEPT ![r] = Append(@, Head(queue[r]).sig)]
    /\ UNCHANGED <<instant, instances, created, queue, trades, before, quarantined, guard, tripping,
                   dereg, wiringVars, realized, countVars, accepted, own, resumed>>

(* submit() resolves, after the executor emitted its result; a result that *)
(* did not land ends the task.                                             *)
SubmitResolves(r, landed) ==
    /\ pc[r] = "submit"
    /\ IF landed
         THEN /\ queue' = dispatchExecutionResult
              /\ pc' = [pc EXCEPT ![r] = "adapt"]
              /\ UNCHANGED dereg
         ELSE EndTask(r, dispatchExecutionResult)
    /\ UNCHANGED <<instant, instances, created, trades, before, quarantined, guard, address, tripping,
                   wiringVars, realized, countVars, historyVars>>

(* adaptToLandedTrades() fetched the transaction: n trades of this wallet, *)
(* none when the endpoint does not have it yet.                            *)
Adapt(r, n) ==
    /\ pc[r] = "adapt"
    /\ trades' = [trades EXCEPT ![r] = n]
    /\ IF n = 0 THEN EndTask(r, queue)
       ELSE pc' = [pc EXCEPT ![r] = "before"] /\ UNCHANGED <<queue, dereg>>
    /\ UNCHANGED <<instant, instances, created, before, quarantined, guard, address, tripping,
                   wiringVars, realized, countVars, historyVars>>

ReadBefore(r) ==
    /\ pc[r] = "before"
    /\ before' = [before EXCEPT ![r] = realized[Wallet[r]]]
    /\ pc' = [pc EXCEPT ![r] = "apply"]
    /\ UNCHANGED <<instant, instances, created, queue, trades, quarantined, guard, address, tripping,
                   dereg, wiringVars, realized, countVars, historyVars>>

(* applyLandedTrade() writes the portfolio, which emits the change.        *)
Apply(r, amount, moved) ==
    /\ pc[r] = "apply"
    /\ realized' = [realized EXCEPT ![Wallet[r]] = @ + amount]
    /\ own' = [own EXCEPT ![r] = @ + amount]
    /\ trades' = [trades EXCEPT ![r] = @ - 1]
    /\ queue' = dispatchPositionChange(Wallet[r], moved)
    /\ pc' = [pc EXCEPT ![r] = "after"]
    /\ UNCHANGED <<instant, instances, created, before, quarantined, guard, address, tripping, dereg,
                   wiringVars, countVars, accepted, submitted, resumed>>

(* Mutant: the loss guard is asked once, after the last trade.             *)
ReadAfterLast(r) ==
    /\ pc[r] = "after"
    /\ guard' = IF trades[r] > 0 THEN guard
                ELSE [guard EXCEPT ![r] = recordRealized(@, realized[Wallet[r]] - before[r])]
    /\ IF trades[r] = 0 /\ TripsRealized(guard'[r])
         THEN /\ tripGuard(r) /\ EndTask(r, queue)
              /\ trades' = [trades EXCEPT ![r] = 0]
         ELSE /\ NoTrip
              /\ pc' = [pc EXCEPT ![r] = IF trades[r] > 0 THEN "before" ELSE "positions"]
              /\ UNCHANGED <<queue, dereg, trades>>
    /\ UNCHANGED <<instant, instances, created, before, address, wiringVars, realized, countVars,
                   accepted, submitted, own, resumed>>

(* The realised difference goes to the guard; a trip leaves the loop, and  *)
(* the trades not applied yet are dropped.                                 *)
ReadAfter(r) ==
    /\ pc[r] = "after"
    /\ guard' = [guard EXCEPT ![r] = recordRealized(@, realized[Wallet[r]] - before[r])]
    /\ IF TripsRealized(guard'[r])
         THEN /\ tripGuard(r) /\ EndTask(r, queue)
              /\ trades' = [trades EXCEPT ![r] = 0]
         ELSE /\ NoTrip
              /\ pc' = [pc EXCEPT ![r] = IF trades[r] > 0 THEN "before" ELSE "positions"]
              /\ UNCHANGED <<queue, dereg, trades>>
    /\ UNCHANGED <<instant, instances, created, before, address, wiringVars, realized, countVars,
                   accepted, submitted, own, resumed>>

(* getAllPositions() answers with n open positions.                        *)
CheckPositions(r, n) ==
    /\ pc[r] = "positions"
    /\ IF n > MaxOpen THEN tripGuard(r) ELSE NoTrip
    /\ EndTask(r, queue)
    /\ UNCHANGED <<instant, instances, created, trades, before, guard, address, wiringVars, realized,
                   countVars, accepted, submitted, own, resumed>>

(* Whatever the callback awaits rejects: its promise, which nobody         *)
(* handles, is rejected and the chain moves on.  The portfolio may have    *)
(* been written before it threw.                                           *)
TaskThrows(r) ==
    /\ pc[r] \in {"address", "submit", "adapt", "before", "apply", "after", "positions"}
    /\ faults < MaxFaults /\ faults' = faults + 1
    /\ EndTask(r, queue)
    /\ trades' = [trades EXCEPT ![r] = 0]
    /\ \E amount \in IF pc[r] = "apply" THEN Pnl \union {0} ELSE {0} :
         /\ realized' = [realized EXCEPT ![Wallet[r]] = @ + amount]
         /\ own' = [own EXCEPT ![r] = @ + amount]
    /\ UNCHANGED <<instant, instances, created, before, quarantined, guard, address, tripping,
                   wiringVars, signals, ticks, starts, pauses, accepted, submitted,
                   resumed>>

(* The onShutdown that tripGuard() called, outside the queue, ends.        *)
TripShutdownEnds(r) ==
    /\ r \in tripping
    /\ tripping' = tripping \ {r}
    /\ UNCHANGED <<instant, instances, created, queue, pc, trades, before, quarantined, guard,
                   address, dereg, wiringVars, realized, countVars, historyVars>>

-----------------------------------------------------------------------------
TimePasses ==
    /\ instant < MaxInstant
    /\ instant' = instant + 1
    /\ UNCHANGED <<instances, created, recordVars, dereg, wiringVars, realized, countVars,
                   historyVars>>

RuntimeInit ==
    /\ instant = 0
    /\ instances = [i \in Ids |-> NoRecord]
    /\ created = {}
    /\ queue = [r \in Records |-> <<>>]
    /\ pc = [r \in Records |-> "idle"]
    /\ trades = [r \in Records |-> 0]
    /\ before = [r \in Records |-> 0]
    /\ quarantined = [r \in Records |-> FALSE]
    /\ guard = [r \in Records |-> NoGuard]
    /\ address = {}
    /\ tripping = {}
    /\ dereg = [d \in Deregs |-> [rec |-> NoRecord, pc |-> "idle"]]
    /\ subscribed = FALSE /\ timers = 0 /\ tickTimer = FALSE /\ listeners = 0
    /\ realized = [w \in Wallets |-> 0]
    /\ signals = 0 /\ ticks = 0 /\ starts = 0 /\ pauses = 0 /\ faults = 0
    /\ accepted = [r \in Records |-> <<>>]
    /\ submitted = [r \in Records |-> <<>>]
    /\ own = [r \in Records |-> 0]
    /\ resumed = {}

(* What the queue of r does on its own.                                    *)
QueueStep(r) ==
    \/ BeginTask(r) \/ HookEnds(r) \/ HookThrows(r) \/ HookDecides(r) \/ AddressResolves(r)
    \/ \E landed \in BOOLEAN : SubmitResolves(r, landed)
    \/ \E n \in 0..MaxTrades : Adapt(r, n)
    \/ ReadBefore(r)
    \/ \E amount \in Pnl, moved \in BOOLEAN : Apply(r, amount, moved)
    \/ ReadAfter(r)
    \/ \E n \in {0, MaxOpen + 1} : CheckPositions(r, n)
    \/ TaskThrows(r)

DeregisterStep(d) == DeregisterShutdown(d) \/ DeregisterRemove(d)

RuntimeNext ==
    \/ \E r \in Records :
         \/ Register(r) \/ Pause(r) \/ Resume(r) \/ QueueStep(r) \/ TripShutdownEnds(r)
         \/ \E d \in Deregs : Deregister(d, r)
    \/ \E d \in Deregs : DeregisterStep(d)
    \/ Start \/ Stop \/ DispatchSignal \/ DispatchTick \/ TimePasses

RuntimeSpec == RuntimeInit /\ [][RuntimeNext]_runtimeVars

(* Promises settle: hooks, the executor and the portfolio answer, and the  *)
(* continuations of deregister() run.  Nobody need call anything.          *)
RuntimeFairness ==
    /\ \A r \in Records : WF_runtimeVars(QueueStep(r))
    /\ \A d \in Deregs : WF_runtimeVars(DeregisterStep(d))

-----------------------------------------------------------------------------
HookNames == {"onSignal", "onStart", "onShutdown", "onTick", "onExecutionResult",
              "onPositionChange", "onBalanceChange", "barrier"}

TaskType == [hook : HookNames, sig : 0..MaxSignals, for : Deregs \union {NoRecord}]

Awaits == {"idle", "hook", "address", "submit", "adapt", "before", "apply", "after",
           "positions"}

GuardType == [decisions : Seq(0..MaxInstant), errors : Seq(0..MaxInstant), today : Int, day : Nat,
              cumulative : Int, peak : Nat]

(* Every variable has its type; only the task at the head of a queue runs, *)
(* and only a signal's task is past its hook.                              *)
RuntimeTypeOK ==
    /\ instant \in 0..MaxInstant
    /\ instances \in [Ids -> Records \union {NoRecord}]
    /\ created \subseteq Records
    /\ queue \in [Records -> Seq(TaskType)]
    /\ pc \in [Records -> Awaits]
    /\ \A r \in Records :
         /\ pc[r] # "idle" => queue[r] # <<>>
         /\ pc[r] \notin {"idle", "hook"} => Head(queue[r]).hook = "onSignal"
    /\ trades \in [Records -> 0..MaxTrades]
    /\ before \in [Records -> Int]
    /\ quarantined \in [Records -> BOOLEAN]
    /\ guard \in [Records -> GuardType]
    /\ address \subseteq Records /\ tripping \subseteq Records
    /\ dereg \in [Deregs -> [rec : Records \union {NoRecord},
                    pc : {"idle", "barrier", "drained", "shutdown", "flushed", "done"}]]
    /\ subscribed \in BOOLEAN /\ tickTimer \in BOOLEAN
    /\ timers \in Nat /\ listeners \in Nat
    /\ realized \in [Wallets -> Int]
    /\ signals \in 0..MaxSignals
    /\ \A n \in {ticks, starts, pauses, faults} : n \in Nat
    /\ accepted \in [Records -> Seq(0..MaxInstant)]
    /\ submitted \in [Records -> Seq(1..MaxSignals)]
    /\ own \in [Records -> Int]
    /\ resumed \subseteq Records

(* "Only within one instance is ordering strictly FIFO": an instance       *)
(* submits for its signals in the order they were dispatched, and never    *)
(* twice for one signal, whatever is queued, thrown or tripped in between. *)
SubmitsInOrder ==
    \A r \in Records : \A j, k \in DOMAIN submitted[r] :
        j < k => submitted[r][j] < submitted[r][k]

(* No window of the decision guard holds more decisions that went through  *)
(* than the limit, trips, pauses and resumes included: a resumed instance  *)
(* does not get a fresh allowance.                                         *)
DecisionRate ==
    \A r \in Records : \A k \in DOMAIN accepted[r] :
        k + MaxDecisions \in DOMAIN accepted[r] =>
            accepted[r][k + MaxDecisions] - accepted[r][k] >= DecisionWindow

(* A record that has its wallet to itself.                                 *)
Alone(r) == \A s \in Records \ {r} : Wallet[s] # Wallet[r]

(* The guard of an instance that shares its wallet with no other has seen  *)
(* exactly what its own trades realised, except for the trade it is at:    *)
(* concurrent instances do not get into its books.                         *)
GuardSeesOwnTrades ==
    faults = 0 =>
        \A r \in Records : Alone(r) /\ pc[r] # "after" => guard[r].cumulative = own[r]

(* Such an instance, once it lost more than a day's limit, or fell too far *)
(* from its peak, is quarantined until somebody resumes it, even if the    *)
(* loss came in small parts.                                               *)
LossQuarantines ==
    \A r \in Records \ resumed :
        /\ (own[r] < -MaxLoss /\ instant < DayLength) \/ own[r] < -MaxDrawdown
        /\ faults = 0 /\ pc[r] # "after" /\ Alone(r)
        => quarantined[r]

(* The safety of the runtime: submissions in order, and the guards' limits *)
(* hold.                                                                   *)
RuntimeSafe == RuntimeTypeOK /\ SubmitsInOrder /\ DecisionRate /\ LossQuarantines

(* The books of the guards are the instances' own, and a loss in them      *)
(* quarantines.                                                            *)
GuardsAreTrue == RuntimeTypeOK /\ GuardSeesOwnTrades /\ LossQuarantines

(* A queue never stalls: whatever its tasks throw, all of them come to     *)
(* their end.                                                              *)
QueueDrains == \A r \in Records : queue[r] # <<>> ~> queue[r] = <<>>

(* deregister() resolves, also when onShutdown throws or the instance is   *)
(* quarantined.                                                            *)
DeregisterResolves == \A d \in Deregs : dereg[d].pc # "idle" ~> dereg[d].pc = "done"

(* The runtime comes to the end of what it was given: its queues drain and *)
(* deregister() resolves.                                                  *)
RuntimeDrains == QueueDrains /\ DeregisterResolves

(* "All hook dispatches (..., onShutdown) run through this queue": while   *)
(* an instance submits, none of its hooks is running.                      *)
HooksAreSerial == \A r \in Records : pc[r] = "submit" => r \notin tripping

(* After stop(), which stops "accepting new dispatches", no queue gets a   *)
(* task that stems from a signal, a result, a change or a tick.            *)
StoppedIsQuiet ==
    [][starts > 0 /\ ~subscribed /\ ~tickTimer =>
         \A r \in Records :
            LET Dispatched(q) == SelectSeq(q, LAMBDA t : t.hook \notin
                                                {"onStart", "onShutdown", "barrier"})
            IN  Len(Dispatched(queue'[r])) <= Len(Dispatched(queue[r]))]_runtimeVars

(* The barrier of deregister() makes "any in-flight enqueued tasks         *)
(* complete before the record is removed": a record that is no longer in   *)
(* the map has nothing left to run.                                        *)
RemovedIsDrained == \A r \in created : Registered(r) \/ queue[r] = <<>>
=============================================================================
