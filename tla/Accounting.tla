----------------------------- MODULE Accounting -----------------------------
(***************************************************************************)
(* Lot accounting of solana-portfolio (accounting.ts): reduceLots() by the *)
(* three methods.  Division is bigint division, which truncates.           *)
(***************************************************************************)
EXTENDS Integers, Sequences, SequencesExt, Selection

\* A lot: tokens and what they cost.
Lot == [amount : Nat \ {0}, basis : Nat]

Amount(ls) ==
    LET sum[k \in 0..Len(ls)] == IF k = 0 THEN 0 ELSE sum[k - 1] + ls[k].amount
    IN  sum[Len(ls)]

Basis(ls) ==
    LET sum[k \in 0..Len(ls)] == IF k = 0 THEN 0 ELSE sum[k - 1] + ls[k].basis
    IN  sum[Len(ls)]

\* Mutant: the lot keeps the whole of its basis.
keepKeepsBasis(l, taken) == [l EXCEPT !.amount = @ - taken]

\* What is left of a lot after some of its tokens; the rest of it is copied.
keep(l, taken) ==
    [l EXCEPT !.amount = @ - taken, !.basis = @ - (@ * taken) \div l.amount]

\* The share of the proceeds a lot is given: its tokens over the larger of
\* the lot and the sale.
lotProceeds(l, taken, amount, proceeds) ==
    (proceeds * taken) \div (IF l.amount > amount THEN l.amount ELSE amount)

\* One lot of the FIFO or LIFO walk: r is what the walk has so far.
takeLot(r, l, amount, proceeds) ==
    LET taken == IF l.amount <= r.toTake THEN l.amount ELSE r.toTake
    IN  [toTake |-> r.toTake - taken,
         cost |-> r.cost + (l.basis * taken) \div l.amount,
         proceeds |-> IF taken = 0 THEN r.proceeds
                      ELSE r.proceeds + lotProceeds(l, taken, amount, proceeds),
         out |-> IF taken < l.amount THEN Append(r.out, keep(l, taken)) ELSE r.out]

\* The FIFO walk over lots in the order given; it throws with toTake > 0.
walkLots(ls, amount, proceeds) ==
    LET start == [toTake |-> amount, cost |-> 0, proceeds |-> 0, out |-> <<>>]
        walk[k \in 0..Len(ls)] ==
            IF k = 0 THEN start ELSE takeLot(walk[k - 1], ls[k], amount, proceeds)
    IN  walk[Len(ls)]

\* Every lot gives its share, rounded down; a lot without tokens is none.
averageLots(ls, amount) ==
    LET share(l) == (l.amount * amount) \div Amount(ls)
        left == [k \in DOMAIN ls |-> keep(ls[k], share(ls[k]))]
    IN  Only(left, Lot)

inOrder(ls, how) == IF how = "fifo" THEN ls ELSE Reverse(ls)

(* reduceLots(): the remaining lots, what they had cost, and the realized  *)
(* PnL of selling amount > 0 tokens.  A sale of more than there is throws. *)
Insufficient(ls, amount) == amount > Amount(ls)

reduceLots(ls, amount, proceeds, how) ==
    IF how = "avg-cost"
    THEN LET cost == (Basis(ls) * amount) \div Amount(ls)
         IN  [remaining |-> averageLots(ls, amount), cost |-> cost,
              realized |-> proceeds - cost]
    ELSE LET r == walkLots(inOrder(ls, how), amount, proceeds)
         IN  [remaining |-> inOrder(r.out, how), cost |-> r.cost,
              realized |-> r.proceeds - r.cost]
=============================================================================
