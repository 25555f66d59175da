-------------------------------- MODULE Lots --------------------------------
(***************************************************************************)
(* The ledger that a sequence of buys and sales makes of reduceLots().     *)
(***************************************************************************)
EXTENDS Accounting

CONSTANTS
    MaxBuy, MaxCost,    \* bounds on the tokens and the lamports of one trade
    MaxTrades           \* bound on the trades

ASSUME LotsAssumption == MaxBuy \in Nat \ {0} /\ MaxCost \in Nat /\ MaxTrades \in Nat

VARIABLES
    method,     \* the ledger's AccountingMethod
    lots,
    trades,
    tokens,     \* history: tokens bought less tokens sold
    paid,       \* history: lamports paid for all buys
    received,   \* history: lamports received for all sales
    charged,    \* history: cost bases of all sales
    realized,   \* history: PnL of all sales
    newest      \* history: the newest lot as it was bought; <<>> when a sale touched it

lotVars == <<method, lots, trades, tokens, paid, received, charged, realized, newest>>

LotsTypeOK ==
    /\ lots \in Seq(Lot)
    /\ \A n \in {trades, tokens, paid, received, charged} : n \in Int
    /\ realized \in Int

LotsInit ==
    /\ method \in {"fifo", "lifo", "avg-cost"}
    /\ lots = <<>> /\ trades = 0
    /\ tokens = 0 /\ paid = 0 /\ received = 0 /\ charged = 0 /\ realized = 0
    /\ newest = <<>>

Buy(n, cost) ==
    /\ trades < MaxTrades
    /\ trades' = trades + 1
    /\ lots' = Append(lots, [amount |-> n, basis |-> cost])
    /\ tokens' = tokens + n /\ paid' = paid + cost
    /\ newest' = <<[amount |-> n, basis |-> cost]>>
    /\ UNCHANGED <<method, received, charged, realized>>

Sell(n, proceeds) ==
    LET r == reduceLots(lots, n, proceeds, method)
    IN  /\ trades < MaxTrades /\ ~Insufficient(lots, n)
        /\ trades' = trades + 1
        /\ lots' = r.remaining
        /\ tokens' = tokens - n
        /\ received' = received + proceeds
        /\ charged' = charged + r.cost
        /\ realized' = realized + r.realized
        /\ newest' = IF method = "fifo" /\ Len(lots) > 1 /\ n <= Amount(Front(lots))
                     THEN newest ELSE <<>>
        /\ UNCHANGED <<method, paid>>

LotsNext == \E n \in 1..MaxBuy, c \in 0..MaxCost : Buy(n, c) \/ Sell(n, c)

LotsSpec == LotsInit /\ [][LotsNext]_lotVars

-----------------------------------------------------------------------------
(* Properties.                                                             *)

(* FIFO and LIFO sell exactly the tokens of the sale, over any sequence of *)
(* trades; avg-cost, which rounds every lot's share down, never sells too  *)
(* many, and keeps less than one token per lot and sale too much           *)
(* (accounting.ts:67, :103).                                               *)
TokensAreCounted ==
    /\ method # "avg-cost" => Amount(lots) = tokens
    /\ Amount(lots) >= tokens
    /\ Amount(lots) <= tokens + trades * trades

(* Every lamport paid is in the basis of a remaining lot or was charged to *)
(* a sale, once: partial lots lose nothing to rounding (accounting.ts:104  *)
(* and :127).  By average cost the sale and the lots are rounded apart, by *)
(* less than a lamport per lot and sale.                                   *)
BasisIsConserved ==
    /\ method # "avg-cost" => Basis(lots) + charged = paid
    /\ method = "avg-cost" => /\ Basis(lots) + charged >= paid - trades
                              /\ Basis(lots) + charged <= paid + trades * trades * MaxCost

(* No sale realizes more than it received, though the lots' shares are     *)
(* rounded one by one (accounting.ts:113).                                 *)
ProceedsAreNotInvented ==
    realized + charged <= received

(* FIFO leaves the newest lot as it was bought while older ones cover the  *)
(* sale (accounting.ts:89).                                                *)
OldestGoesFirst ==
    newest # <<>> => lots # <<>> /\ Last(lots) = newest[1]

(* "`proceedsLamports` is the total lamport proceeds received for selling  *)
(* `amount` tokens" (accounting.ts:16): what a sale received, less its     *)
(* cost, is its PnL, up to a lamport per lot.                              *)
ProceedsAreCounted ==
    realized + charged >= received - trades * trades

(* The safety of the accounting (accounting.ts): every token, lamport and  *)
(* gain is in one place.                                                   *)
LotsSafe ==
    /\ LotsTypeOK
    /\ BasisIsConserved
    /\ ProceedsAreNotInvented
    /\ OldestGoesFirst
    /\ TokensAreCounted
=============================================================================
