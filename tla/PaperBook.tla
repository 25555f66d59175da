------------------------------ MODULE PaperBook ------------------------------
(***************************************************************************)
(* The backtester of packages/solana-trading: walk-forward.ts turns entries*)
(* into a price series into trades, monte-carlo.ts resamples whole days of *)
(* them, and two engines play a sample through one fixed-size book:        *)
(* replayPortfolio(), which sorts the open positions by their end, and     *)
(* simulateOneRun(), which has maxConcurrent slots.                        *)
(*                                                                         *)
(* A trade carries `paid`, tradeSize * roi; the random draws of the second *)
(* engine are those that name the trades of the sample.                     *)
(***************************************************************************)
EXTENDS Integers, Sequences, SequencesExt, FiniteSets, FiniteSetsExt, TLC

CONSTANTS
    startCapital, tradeSize, maxConcurrent,
    hold, hardStopPct, takeProfitMultiple,      \* ExitRules; hold in units of time
    trailingStopPct, trailingActivationMultiple,
    exitSlippagePct,
    dayLength,      \* dayMs, in units of time
    days,
    Prices,
    MaxPoints,      \* bound: points of the series
    MaxHistory      \* bound: trades backtested

\* Amounts are whole: tradeSize * roi is an integer for every pair of prices.
ASSUME PaperAssumption ==
    /\ startCapital \in Nat \ {0} /\ tradeSize \in Nat \ {0} /\ maxConcurrent \in Nat \ {0}
    /\ Prices \subseteq Nat \ {0}
    /\ \A p, q \in Prices : (tradeSize * p * (100 - exitSlippagePct)) % (q * 100) = 0

VARIABLES
    points,         \* the price series: [ts, price]
    history,        \* the trades of the backtest
    sample,         \* the historical day drawn for each day of a run
    phase,          \* "market", then "replay", "slots" and "done"
    ahead,          \* trades the running engine has not reached
    cash, open, peakEquity, drawdown,        \* replayPortfolio(); a fall is <<amount, peak>>
    bankroll, busy, taken,                      \* simulateOneRun()
    judged          \* history: each trade of the sample, and whether the replay took it

marketVars == <<points, history>>
bookVars == <<cash, open, peakEquity, drawdown, judged>>
slotVars == <<bankroll, busy, taken>>
paperVars == <<points, history, sample, phase, ahead, bookVars, slotVars>>

FreeSlot == [busyUntil |-> 0, paid |-> 0]

PaperInit ==
    /\ points = <<>> /\ history = <<>> /\ sample = <<>> /\ phase = "market" /\ ahead = <<>>
    /\ cash = startCapital /\ open = <<>> /\ peakEquity = startCapital
    /\ drawdown = <<0, 1>> /\ judged = <<>>
    /\ bankroll = startCapital /\ busy = [i \in 1..maxConcurrent |-> FreeSlot] /\ taken = 0

-----------------------------------------------------------------------------
(* walkForwardExit(): the first observation at which a rule fires.          *)

\* Array.sort(), which is stable.
sortedBy(seq, key(_)) ==
    LET before(i, j) == key(seq[i]) < key(seq[j]) \/ (key(seq[i]) = key(seq[j]) /\ i < j)
        order == SortSeq([i \in DOMAIN seq |-> i], before)
    IN  [k \in DOMAIN seq |-> seq[order[k]]]

binarySearchFirstGte(series, ts) ==
    Min({i \in DOMAIN series : series[i].ts >= ts} \union {Len(series) + 1})

peakAt(series, first, i) == Max({series[k].price : k \in first..i})

\* The rules in the order the code tries them; entryPrice is the price observed at the entry.
exitReason(series, first, i) ==
    LET p == series[i]
        entryPrice == series[first].price
        peak == peakAt(series, first, i)
    IN  CASE p.ts > series[first].ts + hold -> "time"
          [] OTHER ->
             CASE p.price * 100 <= entryPrice * (100 - hardStopPct) -> "hard_stop"
               [] OTHER ->
                  CASE p.price >= entryPrice * takeProfitMultiple -> "take_profit"
                    [] OTHER ->
                       IF /\ peak >= entryPrice * trailingActivationMultiple
                          /\ p.price * 100 <= peak * (100 - trailingStopPct)
                       THEN "trailing_stop" ELSE "none"

walkForwardExit(series, first) ==
    LET hits == {i \in first..Len(series) : exitReason(series, first, i) # "none"}
        last == Min(hits \union {Len(series)})
    IN  [entryTimeMs |-> series[first].ts,
         exitTimeMs |-> series[last].ts,
         paid |-> (tradeSize * series[last].price * (100 - exitSlippagePct))
                    \div (series[first].price * 100),
         exitReason |-> IF hits = {} THEN "end_of_data" ELSE exitReason(series, first, last)]

\* An observation, at the time of the one before or later.
Observed(price, gap) ==
    /\ phase = "market" /\ Len(points) < MaxPoints
    /\ points' = Append(points,
            [ts |-> IF points = <<>> THEN gap ELSE Last(points).ts + gap, price |-> price])
    /\ UNCHANGED <<history, sample, phase, ahead, bookVars, slotVars>>

\* A signal at `target` enters at the first observation from then on.
Backtested(target) ==
    /\ phase = "market" /\ Len(history) < MaxHistory
    /\ LET first == binarySearchFirstGte(points, target)
       IN  first <= Len(points) /\ history' = Append(history, walkForwardExit(points, first))
    /\ UNCHANGED <<points, sample, phase, ahead, bookVars, slotVars>>

-----------------------------------------------------------------------------
(* runHistoricalMonteCarlo(): whole days, each drawn any number of times.   *)

dayOf(trade) == trade.entryTimeMs \div dayLength

\* buildDailyBlocks(): the days that have trades, in order.
blockDays == SetToSortSeq({dayOf(history[k]) : k \in DOMAIN history}, <)
block(day) ==
    sortedBy(SelectSeq(history, LAMBDA t : dayOf(t) = day), LAMBDA t : t.entryTimeMs)

shifted(trade, from, to) ==
    [trade EXCEPT !.entryTimeMs = @ + (to - from) * dayLength,
                  !.exitTimeMs = @ + (to - from) * dayLength]

sampled(draw) ==
    FlattenSeq([d \in 1..days |->
        [k \in DOMAIN block(draw[d]) |-> shifted(block(draw[d])[k], draw[d], d - 1)]])

Resample(draw) ==
    /\ phase = "market" /\ history # <<>>
    /\ sample' = draw /\ phase' = "replay"
    /\ ahead' = sortedBy(sampled(draw), LAMBDA t : t.entryTimeMs)
    /\ UNCHANGED <<marketVars, bookVars, slotVars>>

-----------------------------------------------------------------------------
(* replayPortfolio().                                                       *)

\* equity(): cash, and the open positions at cost.
equity(c, positions) == c + tradeSize * Len(positions)

Falls(f, g) == f[1] * g[2] > g[1] * f[2]

\* mark(): one more equity to hold against the peak.
mark(book) ==
    LET current == equity(book.cash, book.open)
        top == IF current > book.peak THEN current ELSE book.peak
        fall == <<top - current, top>>
    IN  [book EXCEPT !.peak = top, !.fall = IF Falls(fall, @) THEN fall ELSE @]

closes(position, ts) == position.exitTimeMs <= ts

\* closeUntil(): earliest end first, the equity marked after each.
closeUntil(book, ts) ==
    LET byEnd == sortedBy(book.open, LAMBDA p : p.exitTimeMs)
        n == Cardinality({k \in DOMAIN byEnd : closes(byEnd[k], ts)})
        after[k \in 0..n] ==
            IF k = 0 THEN [book EXCEPT !.open = byEnd]
            ELSE LET was == after[k - 1]
                 IN  mark([was EXCEPT !.cash = @ + Head(was.open).paid, !.open = Tail(@)])
    IN  after[n]

Book == [cash |-> cash, open |-> open, peak |-> peakEquity, fall |-> drawdown]

Keep(book) ==
    /\ cash' = book.cash /\ open' = book.open
    /\ peakEquity' = book.peak /\ drawdown' = book.fall

skips(book) == Len(book.open) >= maxConcurrent \/ book.cash < tradeSize

ReplayTrade ==
    /\ phase = "replay" /\ ahead # <<>>
    /\ LET trade == Head(ahead)
           book == closeUntil(Book, trade.entryTimeMs)
       IN  /\ judged' = Append(judged, [trade |-> trade, taken |-> ~skips(book)])
           /\ IF skips(book) THEN Keep(book)
              ELSE Keep(mark([book EXCEPT !.cash = @ - tradeSize, !.open = Append(@, trade)]))
    /\ ahead' = Tail(ahead)
    /\ UNCHANGED <<marketVars, sample, phase, slotVars>>

Latest(positions) == Max({0} \union {positions[k].exitTimeMs : k \in DOMAIN positions})

\* The last positions are closed; the second engine gets the same sample.
ReplayEnds ==
    /\ phase = "replay" /\ ahead = <<>> /\ phase' = "slots"
    /\ Keep(mark(closeUntil(Book, Latest(open) + 1)))
    /\ ahead' = [k \in DOMAIN judged |-> judged[k].trade]
    /\ UNCHANGED <<marketVars, sample, judged, slotVars>>

-----------------------------------------------------------------------------
(* simulateOneRun(), without the drawdown it also keeps: busyUntil = 0 means*)
(* that a slot is free.                                                     *)

ended(slot, ts) == slot.busyUntil > 0 /\ slot.busyUntil <= ts

AlertAt ==
    /\ phase = "slots" /\ ahead # <<>>
    /\ LET trade == Head(ahead)
           t == trade.entryTimeMs
           due == {i \in DOMAIN busy : ended(busy[i], t)}
           now == [i \in DOMAIN busy |-> IF i \in due THEN FreeSlot ELSE busy[i]]
           roll == bankroll + MapThenSumSet(LAMBDA i : busy[i].paid, due)
           free == {i \in DOMAIN now : now[i].busyUntil = 0}
       IN  IF free = {} \/ roll < tradeSize
           THEN bankroll' = roll /\ busy' = now /\ taken' = taken
           ELSE /\ bankroll' = roll - tradeSize /\ taken' = taken + 1
                /\ busy' = [now EXCEPT ![Min(free)] =
                        [busyUntil |-> trade.exitTimeMs, paid |-> trade.paid]]
    /\ ahead' = Tail(ahead)
    /\ UNCHANGED <<marketVars, sample, phase, bookVars>>

RunEnds ==
    /\ phase = "slots" /\ ahead = <<>> /\ phase' = "done"
    /\ bankroll' = bankroll
         + MapThenSumSet(LAMBDA i : busy[i].paid, {i \in DOMAIN busy : busy[i].busyUntil > 0})
    /\ UNCHANGED <<marketVars, sample, ahead, bookVars, busy, taken>>

PaperNext ==
    \/ \E price \in Prices, gap \in 0..1 : Observed(price, gap)
    \/ \E target \in 0..MaxPoints : Backtested(target)
    \/ \E draw \in [1..days -> Range(blockDays)] : Resample(draw)
    \/ ReplayTrade \/ ReplayEnds \/ AlertAt \/ RunEnds

PaperSpec == PaperInit /\ [][PaperNext]_paperVars

-----------------------------------------------------------------------------
(* Properties.                                                              *)

took == SelectSeq(judged, LAMBDA j : j.taken)

\* Type invariant: neither engine ever spends money it does not have, and no
\* more than maxConcurrent positions are open at once.
PaperTypeOK ==
    /\ phase \in {"market", "replay", "slots", "done"}
    /\ cash \in Nat /\ bankroll \in Nat /\ peakEquity \in Nat
    /\ Len(open) <= maxConcurrent
    /\ drawdown \in Nat \X (Nat \ {0})
    /\ \A k \in 1..Len(history) : history[k].exitTimeMs >= history[k].entryTimeMs

\* walkForwardExit() looks at nothing later than the observation it exits at:
\* an exit decided on a series is the exit decided on every longer series, unless
\* it was the end of the data that decided.
ExitsSeeNoFuture ==
    \A k \in 1..Len(history) :
        history[k].exitReason # "end_of_data" =>
            \E first \in DOMAIN points : history[k] = walkForwardExit(points, first)

\* Refuted.  "In priority order: hard stop > take profit > trailing stop > time
\* limit" (walk-forward.ts:6): an exit for time would be one no other rule asks
\* for.  The limit is looked at first.
TimeLimitIsLast ==
    \A first \in DOMAIN points : \A i \in first..Len(points) :
        exitReason(points, first, i) = "time" =>
            /\ points[i].price * 100 > points[first].price * (100 - hardStopPct)
            /\ points[i].price < points[first].price * takeProfitMultiple

\* replayPortfolio() takes a trade exactly when, of the trades taken before it,
\* fewer than maxConcurrent are under way as it begins, and what those before it
\* have ahead and paid back by then covers tradeSize.
SkipsAreJustified ==
    judged # <<>> =>
        LET j == Last(judged)
            at == j.trade.entryTimeMs
            earlier == SelectSeq(Front(judged), LAMBDA e : e.taken)
            over == {k \in DOMAIN earlier : earlier[k].trade.exitTimeMs <= at}
            money == startCapital - tradeSize * Len(earlier)
                       + MapThenSumSet(LAMBDA k : earlier[k].trade.paid, over)
        IN  j.taken <=> /\ Len(earlier) - Cardinality(over) < maxConcurrent
                        /\ money >= tradeSize

\* The capital after each of the trades taken, in the order they ended.
realised ==
    LET byEnd == sortedBy(took, LAMBDA j : j.trade.exitTimeMs)
        capital[k \in 0..Len(byEnd)] ==
            IF k = 0 THEN startCapital ELSE capital[k - 1] + byEnd[k].trade.paid - tradeSize
    IN  capital

\* replayPortfolio()'s drawdown is the worst fall of the realised capital from
\* an earlier to a later value, whenever the positions were opened and marked:
\* "entries do not create artificial drawdown".
DrawdownIsTheWorstFall ==
    phase \in {"slots", "done"} =>
        LET capital == realised
            fallen == {<<i, j>> \in (DOMAIN capital) \X (DOMAIN capital) : i <= j}
            fall(p) == <<capital[p[1]] - capital[p[2]], capital[p[1]]>>
        IN  /\ \A p \in fallen : ~Falls(fall(p), drawdown)
            /\ \E p \in fallen : ~Falls(drawdown, fall(p))

\* The two engines are one book: they take as many trades and end with the same
\* capital.  The exception is simulateOneRun()'s own: a trade that begins and ends
\* at time 0 leaves its slot marked free, and its money is lost.
EnginesAgree ==
    (phase = "done" /\ \A k \in DOMAIN judged : judged[k].trade.exitTimeMs > 0) =>
        /\ bankroll = cash
        /\ taken = Len(took)

\* runHistoricalMonteCarlo(): each day of a run holds the trades of the day drawn
\* for it, at the same times of the day and with the same durations, in the order
\* of their entries.
ResamplingKeepsDays ==
    phase = "slots" =>
        LET run == [k \in DOMAIN judged |-> judged[k].trade]
            clock(t, day) == <<t.entryTimeMs - day * dayLength, t.exitTimeMs - t.entryTimeMs, t.paid>>
            onDay(seq, day) ==
                LET s == SelectSeq(seq, LAMBDA t : dayOf(t) = day)
                IN  [k \in DOMAIN s |-> clock(s[k], day)]
            alike(a, b) == \A c \in Range(a) \union Range(b) :
                Cardinality({k \in DOMAIN a : a[k] = c}) = Cardinality({k \in DOMAIN b : b[k] = c})
        IN  /\ \A d \in 1..days : alike(onDay(run, d - 1), onDay(history, sample[d]))
            /\ \A i, j \in DOMAIN run : i < j => run[i].entryTimeMs <= run[j].entryTimeMs

(* The safety of the three backtests (walk-forward.ts, portfolio.ts,       *)
(* monte-carlo.ts).                                                        *)
PaperSafe ==
    /\ PaperTypeOK
    /\ ExitsSeeNoFuture
    /\ SkipsAreJustified
    /\ DrawdownIsTheWorstFall
    /\ EnginesAgree
    /\ ResamplingKeepsDays
=============================================================================
