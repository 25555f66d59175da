---------------------------- MODULE TradingProofs ----------------------------
(***************************************************************************)
(* From a decision to a landed transaction: the executor and the strategy  *)
(* runtime.                                                                *)
(*                                                                         *)
(* The executor of solana-executor, for any calls, intents, attempts,      *)
(* submitters and bundle sizes: callers of one intent share one execution  *)
(* and its true verdict, a second transaction of an execution can take     *)
(* effect only after an attempt that ended without knowing, and a bundle   *)
(* neither loses nor repeats a call.  Slots and Sharing are about the      *)
(* in-flight map, Verdicts and Tries about what the attempts know of the   *)
(* chain, and Packing about the accumulator.                               *)
(*                                                                         *)
(* The strategy runtime of solana-strategy, for any records, filters,      *)
(* hooks, limits and windows: an instance submits in the order of its      *)
(* signals and never twice for one, no window holds more decisions than    *)
(* the limit, the guard of an instance knows what its own trades realised, *)
(* and a loss quarantines.                                                 *)
(***************************************************************************)
EXTENDS Executor, StrategyRuntime, FiniteSetTheorems, SequenceTheorems,
        WellFoundedInduction, TLAPS

(* The slot of an intent holds exactly the call that executes it.          *)
Slots ==
    /\ \A c \in Calls : Executing(c) =>
          /\ call[c].runs = c /\ inFlight[Intent[c]] = c
          /\ call[c].attempt \in 1..MaxAttempts(c)
    /\ \A i \in DOMAIN Intents : inFlight[i] # None =>
          Executing(inFlight[i]) /\ Intent[inFlight[i]] = i

(* A call is attached to a call that executes its intent, and settles with *)
(* it.                                                                     *)
Sharing ==
    \A c \in Calls :
        /\ call[c].pc # "settled" => call[c].result = "none"
        /\ call[c].pc = "idle" => call[c].runs = None /\ call[c].attempt = 0
        /\ call[c].pc = "attached" =>
              /\ call[c].runs \in Calls /\ Executing(call[c].runs)
              /\ Intent[call[c].runs] = Intent[c]
        /\ call[c].pc = "settled" /\ call[c].runs # None =>
              /\ call[call[c].runs].pc = "settled"
              /\ call[call[c].runs].result = call[c].result
              /\ call[call[c].runs].tx = call[c].tx

(* What a call says or is about to say of its transaction is on chain.     *)
Verdicts ==
    \A c \in Calls :
        /\ call[c].result \in {"landed", "reverted"} =>
              /\ call[c].tx \in Txs /\ chain[call[c].tx] = call[c].result
              /\ Intent[call[c].tx[1]] = Intent[c]
        /\ call[c].pc = "reverting" => chain[Tx(c)] = "reverted"

Early == TerminalReject \union {"blockhash_fetch_failed", "no_submitter"}

(* Attempts to come are untouched, earlier ones ended retryably, the       *)
(* current one is open while it runs, and one that ended early sent        *)
(* nothing.                                                                *)
Tries ==
    \A c \in Calls : \A n \in 1..MaxAttempts(c) :
        /\ n > call[c].attempt => chain[<<c, n>>] = "none" /\ outcome[<<c, n>>] = "open"
        /\ n < call[c].attempt => outcome[<<c, n>>] \in Retryable
        /\ n = call[c].attempt /\ Executing(c) => outcome[<<c, n>>] = "open"
        /\ n = call[c].attempt /\ call[c].pc = "attempt" => chain[<<c, n>>] = "none"
        /\ outcome[<<c, n>>] \in Early => chain[<<c, n>>] = "none"

Gathered(g) == {group[g][k] : k \in DOMAIN group[g]}

IsInjectiveSeq(s) == \A j, k \in DOMAIN s : s[j] = s[k] => j = k

(* A call that waits for its bundle is in one place, and nothing of a      *)
(* group, or of a bundle without a tip, was sent.                          *)
Packing ==
    /\ \A g \in Groups :
          /\ Len(group[g]) < MaxPerBundle /\ IsInjectiveSeq(group[g])
          /\ \A c \in Gathered(g) :
                /\ call[c].pc = "bundled" /\ chain[Tx(c)] = "none"
                /\ Intents[Intent[c]].group = g
    /\ \A f \in flights :
          /\ f \in [calls : Seq(Calls), subs : SUBSET Nat]
          /\ Len(f.calls) <= MaxPerBundle /\ IsInjectiveSeq(f.calls)
          /\ \A c \in Members(f) :
                /\ call[c].pc = "bundled"
                /\ Tipped(f) \/ chain[Tx(c)] = "none"
                /\ \A g \in Groups : c \notin Gathered(g)
    /\ \A f, h \in flights : f # h => Members(f) \cap Members(h) = {}
    /\ \A c \in Calls : call[c].pc = "bundled" =>
          \/ \E g \in Groups : c \in Gathered(g)
          \/ \E f \in flights : c \in Members(f)

ExecInv == TypeOK /\ Slots /\ Sharing /\ Verdicts /\ Tries /\ Packing

-----------------------------------------------------------------------------
(* What the definitions say of intents, transactions and records.          *)

CallRec == [pc : Pcs, runs : Calls \union {None}, attempt : Nat, subs : SUBSET Nat,
            result : Results \union {"none"}, tx : Txs \union {NoTx}]

LEMMA IntentFacts ==
    ASSUME NEW c \in Calls
    PROVE  /\ Intent[c] \in DOMAIN Intents
           /\ MaxAttempts(c) \in 1..AttemptBound /\ MaxAttempts(c) \in Nat
           /\ Intents[Intent[c]].group # None => Intents[Intent[c]].group \in Groups
  BY ExecutorAssumption DEF MaxAttempts, AttemptBound, Groups

LEMMA TxFacts ==
    /\ \A c \in Calls : \A n \in 1..MaxAttempts(c) : <<c, n>> \in Txs
    /\ \A t \in Txs : t[1] \in Calls /\ t[2] \in 1..MaxAttempts(t[1]) /\ t = <<t[1], t[2]>>
  BY IntentFacts DEF Txs, AttemptBound

LEMMA SettledFacts ==
    ASSUME NEW x \in CallRec, NEW r \in Results, NEW t \in Txs \union {NoTx}
    PROVE  /\ Settled(x, r, t) \in CallRec
           /\ Settled(x, r, t).pc = "settled" /\ Settled(x, r, t).subs = {}
           /\ Settled(x, r, t).result = r /\ Settled(x, r, t).tx = t
           /\ Settled(x, r, t).runs = x.runs /\ Settled(x, r, t).attempt = x.attempt
<1>1. "settled" \in Pcs /\ {} \in SUBSET Nat
  BY DEF Pcs
<1> QED
  BY <1>1 DEF CallRec, Settled

NextTry(x) == [x EXCEPT !.pc = "attempt", !.attempt = @ + 1, !.subs = {}]

LEMMA NextTryFacts ==
    ASSUME NEW x \in CallRec
    PROVE  /\ NextTry(x) \in CallRec
           /\ NextTry(x).pc = "attempt" /\ NextTry(x).subs = {}
           /\ NextTry(x).attempt = x.attempt + 1 /\ NextTry(x).runs = x.runs
           /\ NextTry(x).result = x.result /\ NextTry(x).tx = x.tx
<1>1. "attempt" \in Pcs /\ {} \in SUBSET Nat /\ x.attempt \in Nat /\ x.attempt + 1 \in Nat
  BY DEF Pcs, CallRec
<1> QED
  BY <1>1 DEF CallRec, NextTry

(* The calls of a group or a bundle are bundled calls.                     *)
LEMMA PackedFacts ==
    ASSUME ExecInv
    PROVE  /\ \A g \in Groups : \A c \in Gathered(g) : c \in Calls /\ call[c].pc = "bundled"
           /\ \A f \in flights : \A c \in Members(f) : c \in Calls /\ call[c].pc = "bundled"
<1>1. \A g \in Groups : group[g] \in Seq(Calls)
  BY DEF ExecInv, TypeOK
<1>2. \A f \in flights : f.calls \in Seq(Calls)
  BY DEF ExecInv, TypeOK
<1>3. \A s \in Seq(Calls) : \A k \in DOMAIN s : s[k] \in Calls
  OBVIOUS
<1> QED
  BY <1>1, <1>2, <1>3 DEF ExecInv, Packing, Gathered, Members

(* What reaches the network: the current transactions of cs.               *)
LEMMA ReachFacts ==
    ASSUME ExecInv, NEW cs, cs \subseteq Calls
    PROVE  /\ reach(cs) \in [Txs -> {"none", "sent", "landed", "reverted", "expired"}]
           /\ \A t \in Txs : chain[t] # "none" => reach(cs)[t] = chain[t]
           /\ \A c \in Calls : \A n \in 1..MaxAttempts(c) :
                 c \notin cs \/ n # call[c].attempt => reach(cs)[<<c, n>>] = chain[<<c, n>>]
<1>1. chain \in [Txs -> {"none", "sent", "landed", "reverted", "expired"}]
  BY DEF ExecInv, TypeOK
<1>2. ASSUME NEW c \in Calls, NEW n \in 1..MaxAttempts(c), c \notin cs \/ n # call[c].attempt
      PROVE  reach(cs)[<<c, n>>] = chain[<<c, n>>]
  <2>1. ~\E d \in cs : <<c, n>> = Tx(d)
    BY <1>2 DEF Tx
  <2> QED
    BY <1>1, <2>1, TxFacts DEF reach
<1> QED
  BY <1>1, <1>2 DEF reach

-----------------------------------------------------------------------------
(* A step that bundles no call and releases none.                          *)
LEMMA PackingStays ==
    ASSUME ExecInv, UNCHANGED <<group, flights>>,
           \A d \in Calls : call'[d].pc = "bundled" <=> call[d].pc = "bundled",
           \A d \in Calls : call[d].pc = "bundled" =>
               /\ call'[d].attempt = call[d].attempt
               /\ chain[Tx(d)] = "none" => chain'[Tx(d)] = "none"
    PROVE  Packing'
<1>1. \A g \in Groups : Gathered(g)' = Gathered(g)
  BY DEF Gathered
<1>2. ASSUME NEW d \in Calls, call[d].pc = "bundled"
      PROVE  call'[d].pc = "bundled" /\ (chain[Tx(d)] = "none" => chain'[Tx(d)'] = "none")
  BY <1>2 DEF Tx
<1> QED
  BY <1>1, <1>2, PackedFacts DEF ExecInv, Packing

(* The calls in cs go on within their attempt, and their transactions may  *)
(* reach the network.                                                      *)
LEMMA MovingKeeps ==
    ASSUME ExecInv, NEW cs \in SUBSET Calls, \A c \in cs : Executing(c),
           call' \in [Calls -> CallRec], \A d \in Calls \ cs : call'[d] = call[d],
           \A c \in cs :
              /\ call'[c].pc \in {"send", "bundled", "poll", "asking", "reverting"}
              /\ call'[c].runs = call[c].runs /\ call'[c].attempt = call[c].attempt
              /\ call'[c].result = call[c].result /\ call'[c].tx = call[c].tx
              /\ call'[c].subs \subseteq DOMAIN Intents[Intent[c]].prefers
              /\ call'[c].pc = "reverting" => chain[Tx(c)] = "reverted",
           chain' \in {chain, reach(cs)},
           failedAt' \in [Submitters -> Nat \union {None}],
           group' \in [Groups -> Seq(Calls)],
           \A f \in flights' : f.calls \in Seq(Calls) /\ f.subs \subseteq DOMAIN JitoOrder,
           UNCHANGED <<now, inFlight, outcome>>, Packing'
    PROVE  ExecInv'
<1>0. TypeOK /\ Slots /\ Sharing /\ Verdicts /\ Tries
  BY DEF ExecInv
<1>1. call \in [Calls -> CallRec]
  BY <1>0 DEF TypeOK, CallRec
<1>2. /\ chain' \in [Txs -> {"none", "sent", "landed", "reverted", "expired"}]
      /\ \A t \in Txs : chain[t] # "none" => chain'[t] = chain[t]
      /\ \A d \in Calls : \A n \in 1..MaxAttempts(d) :
            d \notin cs \/ n # call[d].attempt => chain'[<<d, n>>] = chain[<<d, n>>]
  <2>1. CASE chain' = chain
    BY <1>0, <2>1 DEF TypeOK
  <2>2. CASE chain' = reach(cs)
    BY <2>2, ReachFacts
  <2> QED
    BY <2>1, <2>2
<1>3. \A d \in Calls : /\ Executing(d) <=> Executing(d)'
                       /\ call'[d].runs = call[d].runs /\ call'[d].attempt = call[d].attempt
                       /\ call'[d].result = call[d].result /\ call'[d].tx = call[d].tx
  BY DEF Executing
<1>4. TypeOK'
  BY <1>0, <1>2, <1>3 DEF TypeOK, CallRec
<1>5. Slots'
  BY <1>0, <1>3 DEF Slots, TypeOK, Executing
<1>6. Sharing'
  <2> SUFFICES ASSUME NEW d \in Calls
               PROVE  /\ call'[d].pc # "settled" => call'[d].result = "none"
                      /\ call'[d].pc = "idle" => call'[d].runs = None /\ call'[d].attempt = 0
                      /\ call'[d].pc = "attached" =>
                            /\ call'[d].runs \in Calls /\ Executing(call[d].runs)
                            /\ Intent[call'[d].runs] = Intent[d]
                      /\ call'[d].pc = "settled" /\ call'[d].runs # None =>
                            /\ call'[call'[d].runs].pc = "settled"
                            /\ call'[call'[d].runs].result = call'[d].result
                            /\ call'[call'[d].runs].tx = call'[d].tx
    BY <1>3 DEF Sharing, Executing
  <2>1. CASE d \in cs
    BY <1>0, <2>1 DEF Sharing, Executing
  <2>2. CASE d \notin cs
    <3>1. call'[d] = call[d]
      BY <2>2
    <3>2. ASSUME call[d].pc = "settled", call[d].runs # None
          PROVE  call'[call[d].runs] = call[call[d].runs]
      <4>1. call[d].runs \in Calls /\ call[call[d].runs].pc = "settled"
        BY <1>0, <1>1, <3>2 DEF Sharing, CallRec
      <4> QED
        BY <4>1 DEF Executing
    <3> QED
      BY <1>0, <3>1, <3>2 DEF Sharing
  <2> QED
    BY <2>1, <2>2
<1>7. Verdicts'
  <2>1. \A d \in Calls : Executing(d) => Tx(d) \in Txs /\ Tx(d)' = Tx(d)
    BY <1>0, <1>3, TxFacts DEF Slots, Tx
  <2>2. ASSUME NEW d \in Calls, call'[d].result \in {"landed", "reverted"}
        PROVE  /\ call'[d].tx \in Txs /\ chain'[call'[d].tx] = call'[d].result
               /\ Intent[call'[d].tx[1]] = Intent[d]
    BY <1>0, <1>2, <1>3, <2>2 DEF Verdicts
  <2>3. ASSUME NEW d \in Calls, call'[d].pc = "reverting" PROVE chain'[Tx(d)'] = "reverted"
    <3>1. chain[Tx(d)] = "reverted" /\ Executing(d)
      BY <1>0, <2>3 DEF Verdicts, Executing
    <3> QED
      BY <1>2, <2>1, <3>1
  <2> QED
    BY <2>2, <2>3 DEF Verdicts
<1>8. Tries'
  <2> SUFFICES ASSUME NEW d \in Calls, NEW n \in 1..MaxAttempts(d)
               PROVE  /\ n > call[d].attempt => chain'[<<d, n>>] = "none" /\ outcome[<<d, n>>] = "open"
                      /\ n < call[d].attempt => outcome[<<d, n>>] \in Retryable
                      /\ n = call[d].attempt /\ Executing(d) => outcome[<<d, n>>] = "open"
                      /\ n = call[d].attempt /\ call'[d].pc = "attempt" => chain'[<<d, n>>] = "none"
                      /\ outcome[<<d, n>>] \in Early => chain'[<<d, n>>] = "none"
    BY <1>3 DEF Tries
  <2>1. CASE d \in cs /\ n = call[d].attempt
    <3>1. outcome[<<d, n>>] = "open"
      BY <1>0, <2>1 DEF Tries
    <3> QED
      BY <2>1, <3>1 DEF Early, TerminalReject
  <2>2. CASE d \notin cs \/ n # call[d].attempt
    BY <1>0, <1>2, <1>3, <2>2 DEF Tries
  <2> QED
    BY <2>1, <2>2
<1> QED
  BY <1>4, <1>5, <1>6, <1>7, <1>8 DEF ExecInv

(* One call that waits for no bundle goes on within its attempt.           *)
LEMMA OneMoves ==
    ASSUME ExecInv, NEW c \in Calls, Executing(c), call[c].pc # "bundled",
           NEW p \in {"send", "poll", "asking", "reverting"},
           NEW subs \in SUBSET (DOMAIN Intents[Intent[c]].prefers),
           call' = [call EXCEPT ![c] = [@ EXCEPT !.pc = p, !.subs = subs]],
           chain' \in {chain, reach({c})}, p = "reverting" => chain[Tx(c)] = "reverted",
           failedAt' \in [Submitters -> Nat \union {None}],
           UNCHANGED <<now, inFlight, group, flights, outcome>>
    PROVE  ExecInv'
<1>0. TypeOK
  BY DEF ExecInv
<1>1. call \in [Calls -> CallRec]
  BY <1>0 DEF TypeOK, CallRec
<1>2. subs \in SUBSET Nat /\ p \in Pcs
  <2>1. Intents[Intent[c]].prefers \in Seq(Submitters)
    BY IntentFacts, ExecutorAssumption
  <2> QED
    BY <2>1 DEF Pcs
<1>3. /\ call' \in [Calls -> CallRec] /\ \A d \in Calls \ {c} : call'[d] = call[d]
      /\ call'[c].pc = p /\ call'[c].subs = subs
      /\ call'[c].runs = call[c].runs /\ call'[c].attempt = call[c].attempt
      /\ call'[c].result = call[c].result /\ call'[c].tx = call[c].tx
  BY <1>1, <1>2 DEF CallRec
<1>4. Packing'
  <2>1. \A d \in Calls : call'[d].pc = "bundled" <=> call[d].pc = "bundled"
    BY <1>3
  <2>2. ASSUME NEW d \in Calls, call[d].pc = "bundled"
        PROVE  call'[d].attempt = call[d].attempt /\ chain'[Tx(d)] = chain[Tx(d)]
    <3>1. d # c /\ call'[d].attempt = call[d].attempt /\ call[d].attempt \in 1..MaxAttempts(d)
      BY <1>3, <2>2 DEF ExecInv, Slots, Executing
    <3>2. chain'[<<d, call[d].attempt>>] = chain[<<d, call[d].attempt>>]
      BY <3>1, ReachFacts
    <3> QED
      BY <3>1, <3>2 DEF Tx
  <2> QED
    BY <2>1, <2>2, PackingStays
<1>5. /\ group' \in [Groups -> Seq(Calls)]
      /\ \A f \in flights' : f.calls \in Seq(Calls) /\ f.subs \subseteq DOMAIN JitoOrder
  BY <1>0 DEF TypeOK
<1>6. /\ {c} \in SUBSET Calls /\ \A e \in {c} : Executing(e)
      /\ \A e \in {c} :
            /\ call'[e].pc \in {"send", "bundled", "poll", "asking", "reverting"}
            /\ call'[e].runs = call[e].runs /\ call'[e].attempt = call[e].attempt
            /\ call'[e].result = call[e].result /\ call'[e].tx = call[e].tx
            /\ call'[e].subs \subseteq DOMAIN Intents[Intent[e]].prefers
            /\ call'[e].pc = "reverting" => chain[Tx(e)] = "reverted"
  BY <1>3
<1>7. \A d \in Calls \ {c} : call'[d] = call[d]
  BY <1>3
<1> QED
  BY <1>3, <1>4, <1>5, <1>6, <1>7, MovingKeeps

-----------------------------------------------------------------------------
(* The attempts of the executions in cs end: what each call makes of it.   *)
(* The bundles that are given up hold nobody else.                         *)
LEMMA EndingKeeps ==
    ASSUME ExecInv, NEW cs \in SUBSET Calls, \A c \in cs : Executing(c),
           NEW result \in Results, NEW named \in BOOLEAN, EndAttempt(cs, result, named),
           result \in {"landed", "reverted"} => named /\ \A c \in cs : chain[Tx(c)] = result,
           result \in Early => \A c \in cs : chain[Tx(c)] = "none",
           flights' \subseteq flights, \A f \in flights \ flights' : Members(f) \subseteq cs,
           \A c \in cs : /\ \A g \in Groups : c \notin Gathered(g)
                         /\ \A f \in flights' : c \notin Members(f),
           UNCHANGED <<now, failedAt, group, chain>>
    PROVE  ExecInv'
<1>0. TypeOK /\ Slots /\ Sharing /\ Verdicts /\ Tries /\ Packing
  BY DEF ExecInv
<1> DEFINE S == Settling(cs, result)
<1>1. /\ S \subseteq Calls
      /\ \A d \in Calls : d \in S <=> /\ call[d].pc # "settled" /\ call[d].runs \in cs
                                      /\ ~Retries(call[d].runs, result)
  BY DEF Settling
<1>2. /\ call' = [c \in Calls |->
           IF c \in S
             THEN Settled(call[c], result, IF named THEN Tx(call[c].runs) ELSE NoTx)
           ELSE IF c \in cs
             THEN [call[c] EXCEPT !.pc = "attempt", !.attempt = @ + 1, !.subs = {}]
           ELSE call[c]]
      /\ inFlight' = [i \in DOMAIN inFlight |-> IF inFlight[i] \in S THEN None ELSE inFlight[i]]
      /\ outcome' = [t \in DOMAIN outcome |->
                       IF \E c \in cs : t = Tx(c) THEN result ELSE outcome[t]]
  BY Zenon DEF EndAttempt
<1> HIDE DEF S
<1>3. call \in [Calls -> CallRec]
  BY <1>0 DEF TypeOK, CallRec
<1>4. \A c \in cs : /\ call[c].runs = c /\ inFlight[Intent[c]] = c
                    /\ call[c].attempt \in 1..MaxAttempts(c) /\ Tx(c) \in Txs
  BY <1>0, TxFacts DEF Slots, Tx
<1>5. \A c \in cs : c \in S <=> ~Retries(c, result)
  BY <1>1, <1>4 DEF Executing
<1>6. ASSUME NEW d \in S
      PROVE  /\ d \in Calls /\ call[d].pc # "settled" /\ call[d].runs \in cs /\ call[d].runs \in S
             /\ Intent[call[d].runs] = Intent[d]
             /\ call'[d].pc = "settled" /\ call'[d].runs = call[d].runs /\ call'[d].subs = {}
             /\ call'[d].attempt = call[d].attempt /\ call'[d].result = result
             /\ call'[d].tx = IF named THEN Tx(call[d].runs) ELSE NoTx
             /\ call'[d] \in CallRec
  <2>1. d \in Calls /\ call[d].pc # "settled" /\ call[d].runs \in cs /\ call[d].runs \in S
    BY <1>1, <1>5
  <2>2. Intent[call[d].runs] = Intent[d]
    <3>1. call[d].runs # None
      BY <2>1, ExecutorAssumption
    <3>2. CASE Executing(d)
      BY <1>0, <2>1, <3>2 DEF Slots
    <3>3. CASE call[d].pc = "attached"
      BY <1>0, <2>1, <3>3 DEF Sharing
    <3> QED
      BY <1>0, <2>1, <3>1, <3>2, <3>3 DEF Sharing, Executing
  <2>3. call'[d] = Settled(call[d], result, IF named THEN Tx(call[d].runs) ELSE NoTx)
    BY <1>2, <2>1
  <2>4. (IF named THEN Tx(call[d].runs) ELSE NoTx) \in Txs \union {NoTx}
    BY <1>4, <2>1
  <2>5. /\ call'[d].pc = "settled" /\ call'[d].runs = call[d].runs /\ call'[d].subs = {}
        /\ call'[d].attempt = call[d].attempt /\ call'[d].result = result
        /\ call'[d].tx = IF named THEN Tx(call[d].runs) ELSE NoTx
        /\ call'[d] \in CallRec
    <3>1. call[d] \in CallRec
      BY <1>3, <2>1
    <3> QED
      BY <2>1, <2>3, <2>4, <3>1, SettledFacts
  <2> QED
    BY <2>1, <2>2, <2>5
<1>7. ASSUME NEW d \in cs, d \notin S
      PROVE  /\ result \in Retryable /\ call[d].attempt + 1 \in 1..MaxAttempts(d)
             /\ call'[d].pc = "attempt" /\ call'[d].runs = d /\ call'[d].subs = {}
             /\ call'[d].attempt = call[d].attempt + 1 /\ call'[d].result = call[d].result
             /\ call'[d].tx = call[d].tx /\ call'[d] \in CallRec
  <2>1. result \in Retryable /\ call[d].attempt < MaxAttempts(d) /\ d \in Calls
    BY <1>5, <1>7 DEF Retries
  <2>2. call[d].attempt + 1 \in 1..MaxAttempts(d) /\ call[d].attempt + 1 \in Nat
    BY <1>4, <2>1, IntentFacts
  <2>3. call'[d] = NextTry(call[d])
    BY <1>2, <1>7, <2>1 DEF NextTry
  <2> QED
    BY <1>3, <1>4, <2>1, <2>2, <2>3, NextTryFacts
<1>8. \A d \in Calls : d \notin S /\ d \notin cs => call'[d] = call[d]
  BY <1>2
<1>9. \A d \in Calls : Executing(d)' <=> Executing(d) /\ d \notin S
  BY <1>6, <1>7, <1>8 DEF Executing
<1>10. \A d \in Calls : \A n \in 1..MaxAttempts(d) :
          outcome'[<<d, n>>] = IF d \in cs /\ n = call[d].attempt THEN result ELSE outcome[<<d, n>>]
  <2> SUFFICES ASSUME NEW d \in Calls, NEW n \in 1..MaxAttempts(d)
               PROVE  outcome'[<<d, n>>] = IF d \in cs /\ n = call[d].attempt
                                           THEN result ELSE outcome[<<d, n>>]
    OBVIOUS
  <2>1. (\E c \in cs : <<d, n>> = Tx(c)) <=> d \in cs /\ n = call[d].attempt
    BY DEF Tx
  <2>2. <<d, n>> \in DOMAIN outcome
    BY <1>0, TxFacts DEF TypeOK
  <2> QED
    BY <1>2, <2>1, <2>2
<1>11. TypeOK'
  <2>1. call' \in [Calls -> CallRec]
    BY <1>2, <1>3, <1>6, <1>7, <1>8
  <2>2. \A c \in Calls : /\ call'[c].attempt <= MaxAttempts(c)
                         /\ call'[c].subs \subseteq DOMAIN Intents[Intent[c]].prefers
    BY <1>0, <1>6, <1>7, <1>8, IntentFacts DEF TypeOK
  <2>3. inFlight' \in [DOMAIN Intents -> Calls \union {None}]
    BY <1>0, <1>2 DEF TypeOK
  <2>4. outcome' \in [Txs -> Results \union {"open"}]
    BY <1>0, <1>2 DEF TypeOK
  <2> QED
    BY <1>0, <2>1, <2>2, <2>3, <2>4 DEF TypeOK, CallRec
<1>12. Slots'
  <2>1. ASSUME NEW d \in Calls, Executing(d), d \notin S
        PROVE  /\ call'[d].runs = d /\ inFlight'[Intent[d]] = d
               /\ call'[d].attempt \in 1..MaxAttempts(d)
    <3>1. inFlight[Intent[d]] = d /\ call[d].runs = d /\ call[d].attempt \in 1..MaxAttempts(d)
      BY <1>0, <2>1 DEF Slots
    <3>2. inFlight'[Intent[d]] = d
      BY <1>0, <1>2, <2>1, <3>1, IntentFacts DEF TypeOK
    <3>3. call'[d].runs = d /\ call'[d].attempt \in 1..MaxAttempts(d)
      BY <1>7, <1>8, <2>1, <3>1
    <3> QED
      BY <3>2, <3>3
  <2>2. ASSUME NEW i \in DOMAIN Intents, inFlight'[i] # None
        PROVE  /\ inFlight'[i] \in Calls /\ inFlight'[i] = inFlight[i] /\ inFlight[i] \notin S
               /\ Executing(inFlight[i]) /\ Intent[inFlight[i]] = i
    <3>1. inFlight[i] \in Calls /\ inFlight'[i] = inFlight[i] /\ inFlight[i] \notin S
      BY <1>0, <1>2, <2>2 DEF TypeOK
    <3> QED
      BY <1>0, <2>2, <3>1, ExecutorAssumption DEF Slots
  <2>3. \A i \in DOMAIN Intents : inFlight'[i] # None =>
           call'[inFlight'[i]].pc \notin {"idle", "attached", "settled"} /\ Intent[inFlight'[i]] = i
    BY <1>9, <2>2 DEF Executing
  <2> QED
    BY <1>9, <2>1, <2>3 DEF Slots, Executing
<1>13. Sharing'
  <2> SUFFICES ASSUME NEW d \in Calls
               PROVE  /\ call'[d].pc # "settled" => call'[d].result = "none"
                      /\ call'[d].pc = "idle" => call'[d].runs = None /\ call'[d].attempt = 0
                      /\ call'[d].pc = "attached" =>
                            /\ call'[d].runs \in Calls
                            /\ call'[call'[d].runs].pc \notin {"idle", "attached", "settled"}
                            /\ Intent[call'[d].runs] = Intent[d]
                      /\ call'[d].pc = "settled" /\ call'[d].runs # None =>
                            /\ call'[call'[d].runs].pc = "settled"
                            /\ call'[call'[d].runs].result = call'[d].result
                            /\ call'[call'[d].runs].tx = call'[d].tx
    BY DEF Sharing, Executing
  <2>1. CASE d \in S
    <3>1. call[call[d].runs].runs = call[d].runs
      BY <1>4, <1>6, <2>1
    <3> QED
      BY <1>6, <2>1, <3>1
  <2>2. CASE d \notin S /\ d \in cs
    BY <1>0, <1>7, <2>2 DEF Sharing, Executing
  <2>3. CASE d \notin S /\ d \notin cs
    <3>1. call'[d] = call[d]
      BY <1>8, <2>3
    <3>2. ASSUME call[d].pc = "attached"
          PROVE  /\ call[d].runs \in Calls /\ Intent[call[d].runs] = Intent[d]
                 /\ call'[call[d].runs].pc \notin {"idle", "attached", "settled"}
      <4>1. call[d].runs \in Calls /\ Intent[call[d].runs] = Intent[d] /\ Executing(call[d].runs)
        BY <1>0, <3>2 DEF Sharing
      <4>2. call[d].runs \notin S
        BY <1>0, <1>1, <1>5, <1>6, <2>3, <3>2, <4>1 DEF Slots
      <4> QED
        BY <1>9, <4>1, <4>2 DEF Executing
    <3>3. ASSUME call[d].pc = "settled", call[d].runs # None
          PROVE  call'[call[d].runs] = call[call[d].runs]
      <4>1. call[d].runs \in Calls /\ call[call[d].runs].pc = "settled"
        BY <1>0, <1>3, <3>3 DEF Sharing, CallRec
      <4> QED
        BY <1>6, <1>8, <4>1 DEF Executing
    <3> QED
      BY <1>0, <3>1, <3>2, <3>3 DEF Sharing
  <2> QED
    BY <2>1, <2>2, <2>3
<1>14. Verdicts'
  <2>1. ASSUME NEW d \in Calls, call'[d].result \in {"landed", "reverted"}
        PROVE  /\ call'[d].tx \in Txs /\ chain[call'[d].tx] = call'[d].result
               /\ Intent[call'[d].tx[1]] = Intent[d]
    <3>1. CASE d \in S
      <4>1. call'[d].result = result /\ call'[d].tx = Tx(call[d].runs) /\ call[d].runs \in cs
        BY <1>6, <2>1, <3>1
      <4>2. Tx(call[d].runs)[1] = call[d].runs
        BY DEF Tx
      <4> QED
        BY <1>4, <1>6, <2>1, <3>1, <4>1, <4>2
    <3>2. CASE d \notin S
      BY <1>0, <1>7, <1>8, <2>1, <3>2 DEF Verdicts
    <3> QED
      BY <3>1, <3>2
  <2>2. ASSUME NEW d \in Calls, call'[d].pc = "reverting" PROVE chain[Tx(d)'] = "reverted"
    <3>1. call'[d] = call[d]
      BY <1>6, <1>7, <1>8, <2>2
    <3> QED
      BY <1>0, <2>2, <3>1 DEF Verdicts, Tx
  <2> QED
    BY <2>1, <2>2 DEF Verdicts
<1>15. Tries'
  <2> SUFFICES ASSUME NEW d \in Calls, NEW n \in 1..MaxAttempts(d)
               PROVE  /\ n > call'[d].attempt => chain[<<d, n>>] = "none" /\ outcome'[<<d, n>>] = "open"
                      /\ n < call'[d].attempt => outcome'[<<d, n>>] \in Retryable
                      /\ n = call'[d].attempt /\ Executing(d)' => outcome'[<<d, n>>] = "open"
                      /\ n = call'[d].attempt /\ call'[d].pc = "attempt" => chain[<<d, n>>] = "none"
                      /\ outcome'[<<d, n>>] \in Early => chain[<<d, n>>] = "none"
    BY DEF Tries
  <2>0. /\ n > call[d].attempt => chain[<<d, n>>] = "none" /\ outcome[<<d, n>>] = "open"
        /\ n < call[d].attempt => outcome[<<d, n>>] \in Retryable
        /\ n = call[d].attempt /\ Executing(d) => outcome[<<d, n>>] = "open"
        /\ n = call[d].attempt /\ call[d].pc = "attempt" => chain[<<d, n>>] = "none"
        /\ outcome[<<d, n>>] \in Early => chain[<<d, n>>] = "none"
        /\ call[d].attempt \in Nat
    BY <1>0, <1>3 DEF Tries, CallRec
  <2>1. outcome'[<<d, n>>] = IF d \in cs /\ n = call[d].attempt THEN result ELSE outcome[<<d, n>>]
    BY <1>10
  <2>2. d \in cs /\ n = call[d].attempt /\ result \in Early => chain[<<d, n>>] = "none"
    BY DEF Tx
  <2>3. CASE d \in cs /\ d \notin S
    BY <1>7, <2>0, <2>1, <2>2, <2>3
  <2>4. CASE d \in cs /\ d \in S
    BY <1>6, <1>9, <2>0, <2>1, <2>2, <2>4
  <2>5. CASE d \notin cs /\ d \in S
    BY <1>6, <1>9, <2>0, <2>1, <2>5
  <2>6. CASE d \notin cs /\ d \notin S
    BY <1>8, <1>9, <2>0, <2>1, <2>6
  <2> QED
    BY <2>3, <2>4, <2>5, <2>6
<1>16. Packing'
  <2>1. \A c \in Calls : call[c].pc = "bundled" /\ c \notin cs => call'[c] = call[c]
    BY <1>0, <1>6, <1>8 DEF Slots, Executing
  <2>2. \A c \in Calls : call'[c].pc = "bundled" => call[c].pc = "bundled" /\ c \notin cs
    BY <1>6, <1>7, <1>8
  <2>3. \A g \in Groups : Gathered(g)' = Gathered(g)
    BY DEF Gathered
  <2>4. ASSUME NEW c \in Calls, call[c].pc = "bundled", c \notin cs
        PROVE  call'[c].pc = "bundled" /\ chain[Tx(c)'] = chain[Tx(c)]
    BY <2>1, <2>4 DEF Tx
  <2>5. ASSUME NEW g \in Groups, NEW c \in Gathered(g)
        PROVE  /\ call'[c].pc = "bundled" /\ chain[Tx(c)'] = "none"
               /\ Intents[Intent[c]].group = g
    BY <1>0, <2>4, PackedFacts DEF Packing
  <2>6. ASSUME NEW f \in flights', NEW c \in Members(f)
        PROVE  call'[c].pc = "bundled" /\ (Tipped(f) \/ chain[Tx(c)'] = "none")
    <3>1. f \in flights /\ c \in Calls /\ c \notin cs
      BY <2>6, PackedFacts
    <3> QED
      BY <1>0, <2>4, <2>6, <3>1 DEF Packing
  <2>7. ASSUME NEW c \in Calls, call'[c].pc = "bundled"
        PROVE  (\E g \in Groups : c \in Gathered(g)) \/ \E f \in flights' : c \in Members(f)
    BY <1>0, <2>2, <2>7 DEF Packing
  <2> QED
    BY <1>0, <2>3, <2>5, <2>6, <2>7 DEF Packing
<1> QED
  BY <1>11, <1>12, <1>13, <1>14, <1>15, <1>16 DEF ExecInv

(* One call that waits for no bundle ends its attempt.                     *)
LEMMA OneEnds ==
    ASSUME ExecInv, NEW c \in Calls, Executing(c), call[c].pc # "bundled",
           NEW result \in Results, NEW named \in BOOLEAN, EndAttempt({c}, result, named),
           result \in {"landed", "reverted"} => named /\ chain[Tx(c)] = result,
           result \in Early => chain[Tx(c)] = "none",
           UNCHANGED <<now, failedAt, group, flights, chain>>
    PROVE  ExecInv'
<1>1. \A g \in Groups : c \notin Gathered(g)
  BY PackedFacts
<1>2. \A f \in flights : c \notin Members(f)
  BY PackedFacts
<1>3. {c} \in SUBSET Calls /\ \A e \in {c} : Executing(e)
  OBVIOUS
<1> QED
  BY <1>1, <1>2, <1>3, EndingKeeps

-----------------------------------------------------------------------------
(* The steps of a call.                                                    *)

LEMMA CurrentFacts ==
    ASSUME ExecInv, NEW c \in Calls, Executing(c)
    PROVE  /\ call[c].pc = "attempt" => chain[Tx(c)] = "none"
           /\ call[c].pc = "reverting" => chain[Tx(c)] = "reverted"
  BY DEF ExecInv, Tries, Slots, Verdicts, Tx

LEMMA TrackTyped ==
    ASSUME ExecInv, NEW s, NEW ok, track(s, ok)
    PROVE  failedAt' \in [Submitters -> Nat \union {None}]
  BY DEF ExecInv, TypeOK, track

LEMMA MovesKeep ==
    ASSUME ExecInv, NEW c \in Calls,
           \/ Route(c) \/ SendOk(c) \/ SendFails(c)
           \/ PollAsk(c) \/ StatusReverted(c) \/ StatusNothing(c)
    PROVE  ExecInv'
<1>1. call \in [Calls -> CallRec] /\ failedAt \in [Submitters -> Nat \union {None}]
      /\ call[c].subs \in SUBSET (DOMAIN Intents[Intent[c]].prefers)
  BY DEF ExecInv, TypeOK, CallRec
<1>2. CASE Route(c)
  <2> DEFINE subs == {k \in candidates(Intent[c]) : Intents[Intent[c]].prefers[k] \notin Jito}
  <2>1. subs \in SUBSET (DOMAIN Intents[Intent[c]].prefers)
    BY DEF candidates, usableIn
  <2>2. /\ call' = [call EXCEPT ![c] = [@ EXCEPT !.pc = "send", !.subs = subs]]
        /\ call[c].pc = "attempt" /\ UNCHANGED <<now, inFlight, failedAt, group, flights, chain, outcome>>
    BY <1>2 DEF Route
  <2> HIDE DEF subs
  <2> QED
    BY <1>1, <2>1, <2>2, OneMoves DEF Executing
<1>3. CASE SendOk(c)
  <2>1. /\ call' = [call EXCEPT ![c] = [@ EXCEPT !.pc = "poll", !.subs = {}]]
        /\ call[c].pc = "send" /\ chain' = reach({c}) /\ UNCHANGED <<now, inFlight, group, flights, outcome>>
    BY <1>1, <1>3 DEF SendOk, CallRec
  <2>2. failedAt' \in [Submitters -> Nat \union {None}]
    BY <1>3, TrackTyped DEF SendOk
  <2>3. {} \in SUBSET (DOMAIN Intents[Intent[c]].prefers)
    OBVIOUS
  <2> QED
    BY <2>1, <2>2, <2>3, OneMoves DEF Executing
<1>4. CASE SendFails(c)
  <2> DEFINE subs == call[c].subs \ {First(call[c].subs)}
  <2>1. /\ call' = [call EXCEPT ![c] = [@ EXCEPT !.pc = "send", !.subs = subs]]
        /\ call[c].pc = "send" /\ chain' \in {chain, reach({c})}
        /\ UNCHANGED <<now, inFlight, group, flights, outcome>>
    BY <1>1, <1>4 DEF SendFails, CallRec
  <2>2. failedAt' \in [Submitters -> Nat \union {None}]
    BY <1>4, TrackTyped DEF SendFails
  <2>3. subs \in SUBSET (DOMAIN Intents[Intent[c]].prefers)
    BY <1>1
  <2> HIDE DEF subs
  <2> QED
    BY <2>1, <2>2, <2>3, OneMoves DEF Executing
<1>5. CASE PollAsk(c)
  <2>1. /\ call' = [call EXCEPT ![c] = [@ EXCEPT !.pc = "asking", !.subs = call[c].subs]]
        /\ call[c].pc = "poll" /\ UNCHANGED <<now, inFlight, failedAt, group, flights, chain, outcome>>
    BY <1>1, <1>5 DEF PollAsk, CallRec
  <2> QED
    BY <1>1, <2>1, OneMoves DEF Executing
<1>6. CASE StatusReverted(c)
  <2>1. /\ call' = [call EXCEPT ![c] = [@ EXCEPT !.pc = "reverting", !.subs = call[c].subs]]
        /\ call[c].pc = "asking" /\ chain[Tx(c)] = "reverted"
        /\ UNCHANGED <<now, inFlight, failedAt, group, flights, chain, outcome>>
    BY <1>1, <1>6 DEF StatusReverted, CallRec
  <2> QED
    BY <1>1, <2>1, OneMoves DEF Executing
<1>7. CASE StatusNothing(c)
  <2>1. /\ call' = [call EXCEPT ![c] = [@ EXCEPT !.pc = "poll", !.subs = call[c].subs]]
        /\ call[c].pc = "asking"
        /\ UNCHANGED <<now, inFlight, failedAt, group, flights, chain, outcome>>
    BY <1>1, <1>7 DEF StatusNothing, CallRec
  <2> QED
    BY <1>1, <2>1, OneMoves DEF Executing
<1> QED
  BY <1>2, <1>3, <1>4, <1>5, <1>6, <1>7

LEMMA EndsKeep ==
    ASSUME ExecInv, NEW c \in Calls,
           \/ \E code \in Results : PrepareFails(c, code)
           \/ NoSubmitter(c) \/ SendExhausted(c) \/ PollTimeout(c)
           \/ StatusLanded(c) \/ RevertedLogs(c) \/ ConfirmThrows(c)
    PROVE  ExecInv'
<1> USE DEF Executing
<1>1. ASSUME NEW code \in Results, PrepareFails(c, code) PROVE ExecInv'
  <2>1. /\ code \in Early /\ code \notin {"landed", "reverted"} /\ call[c].pc = "attempt"
        /\ EndAttempt({c}, code, FALSE) /\ UNCHANGED <<now, failedAt, group, flights, chain>>
    BY <1>1 DEF PrepareFails, Early, TerminalReject
  <2> QED
    BY <2>1, CurrentFacts, OneEnds
<1>2. CASE NoSubmitter(c)
  <2>1. /\ "no_submitter" \in Results /\ call[c].pc = "attempt"
        /\ EndAttempt({c}, "no_submitter", FALSE) /\ UNCHANGED <<now, failedAt, group, flights, chain>>
    BY <1>2 DEF NoSubmitter, Results, Retryable
  <2> QED
    BY <2>1, CurrentFacts, OneEnds
<1>3. CASE SendExhausted(c)
  <2>1. /\ "submit_failed" \in Results /\ "submit_failed" \notin Early /\ call[c].pc = "send"
        /\ EndAttempt({c}, "submit_failed", FALSE) /\ UNCHANGED <<now, failedAt, group, flights, chain>>
    BY <1>3 DEF SendExhausted, Results, Retryable, Early, TerminalReject
  <2> QED
    BY <2>1, OneEnds
<1>4. CASE PollTimeout(c)
  <2>1. /\ "timeout" \in Results /\ "timeout" \notin Early /\ call[c].pc = "poll"
        /\ EndAttempt({c}, "timeout", TRUE) /\ UNCHANGED <<now, failedAt, group, flights, chain>>
    BY <1>4 DEF PollTimeout, Results, Retryable, Early, TerminalReject
  <2> QED
    BY <2>1, OneEnds
<1>5. CASE StatusLanded(c)
  <2>1. /\ "landed" \in Results /\ "landed" \notin Early /\ call[c].pc = "asking"
        /\ chain[Tx(c)] = "landed"
        /\ EndAttempt({c}, "landed", TRUE) /\ UNCHANGED <<now, failedAt, group, flights, chain>>
    BY <1>5 DEF StatusLanded, Results, Early, TerminalReject
  <2> QED
    BY <2>1, OneEnds
<1>6. CASE RevertedLogs(c)
  <2>1. /\ "reverted" \in Results /\ "reverted" \notin Early /\ call[c].pc = "reverting"
        /\ EndAttempt({c}, "reverted", TRUE) /\ UNCHANGED <<now, failedAt, group, flights, chain>>
    BY <1>6 DEF RevertedLogs, Results, Early, TerminalReject
  <2> QED
    BY <2>1, CurrentFacts, OneEnds
<1>7. CASE ConfirmThrows(c)
  <2>1. /\ "threw" \in Results /\ "threw" \notin Early /\ call[c].pc \in {"asking", "reverting"}
        /\ EndAttempt({c}, "threw", FALSE) /\ UNCHANGED <<now, failedAt, group, flights, chain>>
    BY <1>7 DEF ConfirmThrows, Results, Early, TerminalReject
  <2> QED
    BY <2>1, OneEnds
<1> QED
  BY <1>1, <1>2, <1>3, <1>4, <1>5, <1>6, <1>7

(* submit() rejects the call, attaches it or begins an execution: y is     *)
(* what the call becomes.  Nobody was attached to it before.               *)
LEMMA SubmitKeeps == ASSUME ExecInv, NEW c \in Calls, Submit(c) PROVE ExecInv'
<1>0. TypeOK /\ Slots /\ Sharing /\ Verdicts /\ Tries
  BY DEF ExecInv
<1>1. /\ call \in [Calls -> CallRec] /\ call[c].pc = "idle" /\ call[c].runs = None
      /\ call[c].attempt = 0 /\ call[c].result = "none"
  BY <1>0 DEF TypeOK, CallRec, Submit, Sharing
<1>2. UNCHANGED <<now, failedAt, group, flights, chain, outcome>>
  BY DEF Submit
<1>3. PICK y \in CallRec :
        /\ call' = [call EXCEPT ![c] = y] /\ y.attempt <= MaxAttempts(c)
        /\ y.subs \subseteq DOMAIN Intents[Intent[c]].prefers
        /\ \/ /\ y.pc = "settled" /\ y.runs = None /\ y.attempt = 0
              /\ y.result = "no_jito_submitter_for_bundle" /\ inFlight' = inFlight
           \/ /\ y.pc = "attached" /\ y.runs = inFlight[Intent[c]] /\ y.runs # None
              /\ y.attempt = 0 /\ y.result = "none" /\ inFlight' = inFlight
           \/ /\ y.pc = "attempt" /\ y.runs = c /\ y.attempt = 1 /\ y.result = "none"
              /\ inFlight[Intent[c]] = None
              /\ inFlight' = [inFlight EXCEPT ![Intent[c]] = c]
  <2> DEFINE i == Intent[c]
  <2>1. /\ call[c] \in CallRec /\ call[c].subs \subseteq DOMAIN Intents[i].prefers
        /\ inFlight[i] \in Calls \union {None} /\ MaxAttempts(c) \in Nat /\ 1 <= MaxAttempts(c)
    BY <1>0, <1>1, IntentFacts DEF TypeOK
  <2>2. CASE Intents[i].group # None /\ ~\E s \in Jito : Usable(s)
    <3> DEFINE y == Settled(call[c], "no_jito_submitter_for_bundle", NoTx)
    <3>1. call' = [call EXCEPT ![c] = y] /\ inFlight' = inFlight
      BY <2>2 DEF Submit
    <3>2. "no_jito_submitter_for_bundle" \in Results
      BY DEF Results, TerminalReject
    <3>3. /\ y \in CallRec /\ y.pc = "settled" /\ y.subs = {} /\ y.runs = None /\ y.attempt = 0
          /\ y.result = "no_jito_submitter_for_bundle"
      BY <1>1, <2>1, <3>2, SettledFacts
    <3> HIDE DEF y
    <3>4. y.attempt <= MaxAttempts(c) /\ y.subs \subseteq DOMAIN Intents[i].prefers
      BY <2>1, <3>3
    <3> QED
      BY <3>1, <3>3, <3>4, Zenon
  <2>3. CASE ~(Intents[i].group # None /\ ~\E s \in Jito : Usable(s)) /\ inFlight[i] # None
    <3> DEFINE y == [call[c] EXCEPT !.pc = "attached", !.runs = inFlight[i]]
    <3>1. call' = [call EXCEPT ![c] = y] /\ inFlight' = inFlight
      BY <2>3 DEF Submit, executionOf
    <3>2. /\ y \in CallRec /\ y.pc = "attached" /\ y.runs = inFlight[i]
          /\ y.attempt = 0 /\ y.result = "none" /\ y.subs = call[c].subs
      BY <1>1, <2>1 DEF CallRec, Pcs
    <3> HIDE DEF y
    <3>3. y.attempt <= MaxAttempts(c) /\ y.subs \subseteq DOMAIN Intents[i].prefers
          /\ y.runs # None
      BY <2>1, <2>3, <3>2
    <3> QED
      BY <3>1, <3>2, <3>3, Zenon
  <2>4. CASE ~(Intents[i].group # None /\ ~\E s \in Jito : Usable(s)) /\ inFlight[i] = None
    <3> DEFINE y == [call[c] EXCEPT !.pc = "attempt", !.runs = c, !.attempt = 1]
    <3>1. call' = [call EXCEPT ![c] = y] /\ inFlight' = [inFlight EXCEPT ![i] = c]
      BY <2>4 DEF Submit, executionOf
    <3>2. /\ y \in CallRec /\ y.pc = "attempt" /\ y.runs = c
          /\ y.attempt = 1 /\ y.result = "none" /\ y.subs = call[c].subs
      BY <1>1, <2>1 DEF CallRec, Pcs
    <3> HIDE DEF y
    <3> QED
      BY <2>1, <2>4, <3>1, <3>2
  <2> QED
    BY <2>2, <2>3, <2>4
<1>4. /\ call' \in [Calls -> CallRec] /\ call'[c] = y
      /\ \A d \in Calls \ {c} : call'[d] = call[d]
  BY <1>1, <1>3
<1>5. inFlight' \in [DOMAIN Intents -> Calls \union {None}]
  BY <1>0, <1>3 DEF TypeOK
<1>6. TypeOK'
  BY <1>0, <1>2, <1>3, <1>4, <1>5 DEF TypeOK, CallRec
<1>7. \A d \in Calls \ {c} : Executing(d)' <=> Executing(d)
  BY <1>4 DEF Executing
<1>8. Slots'
  <2>1. c # None /\ ~Executing(c)
    BY <1>1, ExecutorAssumption DEF Executing
  <2>2. ASSUME NEW d \in Calls, Executing(d)'
        PROVE  /\ call'[d].runs = d /\ inFlight'[Intent[d]] = d
               /\ call'[d].attempt \in 1..MaxAttempts(d)
    <3>1. CASE d = c
      BY <1>0, <1>3, <1>4, <2>2, <3>1, IntentFacts DEF TypeOK, Executing
    <3>2. CASE d # c
      <4>1. /\ call[d].runs = d /\ inFlight[Intent[d]] = d /\ d # None
            /\ call[d].attempt \in 1..MaxAttempts(d)
        BY <1>0, <1>7, <2>2, <3>2, ExecutorAssumption DEF Slots
      <4> QED
        BY <1>0, <1>3, <1>4, <3>2, <4>1, IntentFacts DEF TypeOK
    <3> QED
      BY <3>1, <3>2
  <2>3. ASSUME NEW i \in DOMAIN Intents, inFlight'[i] # None
        PROVE  call'[inFlight'[i]].pc \notin {"idle", "attached", "settled"} /\ Intent[inFlight'[i]] = i
    <3>1. CASE inFlight'[i] = inFlight[i]
      <4>1. inFlight[i] \in Calls /\ Executing(inFlight[i]) /\ Intent[inFlight[i]] = i
        BY <1>0, <2>3, <3>1 DEF Slots, TypeOK
      <4> QED
        BY <1>4, <2>1, <3>1, <4>1 DEF Executing
    <3>2. CASE inFlight'[i] # inFlight[i]
      BY <1>0, <1>3, <1>4, <3>2 DEF TypeOK
    <3> QED
      BY <3>1, <3>2
  <2> QED
    BY <2>2, <2>3 DEF Slots, Executing
<1>9. Sharing'
  <2> SUFFICES ASSUME NEW d \in Calls
               PROVE  /\ call'[d].pc # "settled" => call'[d].result = "none"
                      /\ call'[d].pc = "idle" => call'[d].runs = None /\ call'[d].attempt = 0
                      /\ call'[d].pc = "attached" =>
                            /\ call'[d].runs \in Calls
                            /\ call'[call'[d].runs].pc \notin {"idle", "attached", "settled"}
                            /\ Intent[call'[d].runs] = Intent[d]
                      /\ call'[d].pc = "settled" /\ call'[d].runs # None =>
                            /\ call'[call'[d].runs].pc = "settled"
                            /\ call'[call'[d].runs].result = call'[d].result
                            /\ call'[call'[d].runs].tx = call'[d].tx
    BY DEF Sharing, Executing
  <2>1. CASE d = c
    <3>1. ASSUME y.pc = "attached"
          PROVE  /\ y.runs \in Calls /\ Intent[y.runs] = Intent[c]
                 /\ call'[y.runs].pc \notin {"idle", "attached", "settled"}
      <4>1. y.runs \in Calls /\ Intent[y.runs] = Intent[c] /\ Executing(y.runs)
        BY <1>0, <1>3, <3>1, IntentFacts DEF Slots, TypeOK
      <4> QED
        BY <1>1, <1>4, <4>1 DEF Executing
    <3> QED
      BY <1>3, <1>4, <2>1, <3>1
  <2>2. CASE d # c
    <3>1. call'[d] = call[d]
      BY <1>4, <2>2
    <3>2. ASSUME call[d].pc = "attached"
          PROVE  call[d].runs \in Calls /\ call'[call[d].runs] = call[call[d].runs]
      BY <1>0, <1>1, <1>4, <3>2 DEF Sharing, Executing
    <3>3. ASSUME call[d].pc = "settled", call[d].runs # None
          PROVE  call'[call[d].runs] = call[call[d].runs]
      <4>1. call[d].runs \in Calls /\ call[call[d].runs].pc = "settled"
        BY <1>0, <1>1, <3>3 DEF Sharing, CallRec
      <4> QED
        BY <1>1, <1>4, <4>1
    <3> QED
      BY <1>0, <3>1, <3>2, <3>3 DEF Sharing, Executing
  <2> QED
    BY <2>1, <2>2
<1>10. Verdicts'
  <2>1. ASSUME NEW d \in Calls, call'[d].result \in {"landed", "reverted"}
        PROVE  /\ call'[d].tx \in Txs /\ chain[call'[d].tx] = call'[d].result
               /\ Intent[call'[d].tx[1]] = Intent[d]
    BY <1>0, <1>3, <1>4, <2>1 DEF Verdicts
  <2>2. ASSUME NEW d \in Calls, call'[d].pc = "reverting" PROVE chain[Tx(d)'] = "reverted"
    BY <1>0, <1>3, <1>4, <2>2 DEF Verdicts, Tx
  <2> QED
    BY <1>2, <2>1, <2>2 DEF Verdicts
<1>11. Tries'
  <2> SUFFICES ASSUME NEW d \in Calls, NEW n \in 1..MaxAttempts(d)
               PROVE  /\ n > call'[d].attempt => chain[<<d, n>>] = "none" /\ outcome[<<d, n>>] = "open"
                      /\ n < call'[d].attempt => outcome[<<d, n>>] \in Retryable
                      /\ n = call'[d].attempt /\ Executing(d)' => outcome[<<d, n>>] = "open"
                      /\ n = call'[d].attempt /\ call'[d].pc = "attempt" => chain[<<d, n>>] = "none"
                      /\ outcome[<<d, n>>] \in Early => chain[<<d, n>>] = "none"
    BY <1>2 DEF Tries
  <2>1. CASE d = c
    BY <1>0, <1>1, <1>3, <1>4, <2>1 DEF Tries
  <2>2. CASE d # c
    BY <1>0, <1>4, <1>7, <2>2 DEF Tries
  <2> QED
    BY <2>1, <2>2
<1>12. Packing'
  BY <1>1, <1>2, <1>3, <1>4, PackingStays
<1> QED
  BY <1>6, <1>8, <1>9, <1>10, <1>11, <1>12 DEF ExecInv

-----------------------------------------------------------------------------
(* Bundles.                                                                *)

LEMMA AppendFacts ==
    ASSUME NEW s \in Seq(Calls), NEW c \in Calls
    PROVE  /\ Append(s, c) \in Seq(Calls) /\ Len(Append(s, c)) = Len(s) + 1
           /\ {Append(s, c)[k] : k \in DOMAIN Append(s, c)} = {s[k] : k \in DOMAIN s} \union {c}
           /\ IsInjectiveSeq(s) /\ c \notin {s[k] : k \in DOMAIN s} =>
                 IsInjectiveSeq(Append(s, c))
<1> DEFINE t == Append(s, c)
<1>1. /\ t \in Seq(Calls) /\ Len(t) = Len(s) + 1 /\ Len(s) \in Nat
      /\ DOMAIN s = 1..Len(s) /\ DOMAIN t = 1..(Len(s) + 1)
      /\ \A k \in DOMAIN s : t[k] = s[k]
      /\ t[Len(s) + 1] = c
  OBVIOUS
<1> HIDE DEF t
<1>2. DOMAIN t = DOMAIN s \union {Len(s) + 1}
  BY <1>1
<1>3. {t[k] : k \in DOMAIN t} = {s[k] : k \in DOMAIN s} \union {c}
  <2>1. \A k \in DOMAIN t : t[k] \in {s[j] : j \in DOMAIN s} \union {c}
    BY <1>1, <1>2
  <2>2. c \in {t[k] : k \in DOMAIN t}
    BY <1>1, <1>2
  <2>3. \A j \in DOMAIN s : s[j] \in {t[k] : k \in DOMAIN t}
    BY <1>1, <1>2
  <2> QED
    BY <2>1, <2>2, <2>3
<1>4. ASSUME IsInjectiveSeq(s), c \notin {s[k] : k \in DOMAIN s} PROVE IsInjectiveSeq(t)
  BY <1>1, <1>2, <1>4 DEF IsInjectiveSeq
<1> QED
  BY <1>1, <1>3, <1>4 DEF t

(* A group is flushed with the entries s: what waited in it, and perhaps   *)
(* one call more that was nowhere before.                                  *)
LEMMA FlushPacks ==
    ASSUME ExecInv, NEW g \in Groups, NEW s \in Seq(Calls),
           Len(s) <= MaxPerBundle, IsInjectiveSeq(s),
           Gathered(g) \subseteq {s[k] : k \in DOMAIN s},
           \A k \in DOMAIN s :
              /\ \A f \in flights : s[k] \notin Members(f)
              /\ \A h \in Groups \ {g} : s[k] \notin Gathered(h)
              /\ chain[Tx(s[k])] = "none" /\ call'[s[k]].pc = "bundled",
           \A d \in Calls : call'[d].pc = "bundled" =>
              call[d].pc = "bundled" \/ \E k \in DOMAIN s : d = s[k],
           \A d \in Calls : /\ call[d].pc = "bundled" => call'[d].pc = "bundled"
                            /\ call'[d].attempt = call[d].attempt,
           group' = [group EXCEPT ![g] = <<>>], flights' = flights \union {Flight(s)},
           chain' = chain
    PROVE  /\ Packing' /\ group' \in [Groups -> Seq(Calls)]
           /\ \A f \in flights' : f.calls \in Seq(Calls) /\ f.subs \subseteq DOMAIN JitoOrder
<1>0. TypeOK /\ Packing
  BY DEF ExecInv
<1> DEFINE F == Flight(s)
<1>1. /\ F \in [calls : Seq(Calls), subs : SUBSET Nat] /\ F.calls = s
      /\ F.subs \subseteq DOMAIN JitoOrder
  <2>1. DOMAIN JitoOrder \subseteq Nat
    BY ExecutorAssumption
  <2> QED
    BY <2>1 DEF Flight, usableIn
<1> HIDE DEF F
<1>2. Members(F) = {s[k] : k \in DOMAIN s} /\ \A k \in DOMAIN s : s[k] \in Calls
  BY <1>1 DEF Members
<1>3. flights' = flights \union {F}
  BY DEF F
<1>4. /\ group' \in [Groups -> Seq(Calls)]
      /\ \A f \in flights' : f.calls \in Seq(Calls) /\ f.subs \subseteq DOMAIN JitoOrder
  BY <1>0, <1>1, <1>3 DEF TypeOK
<1>5. /\ group'[g] = <<>> /\ \A h \in Groups \ {g} : group'[h] = group[h]
  BY <1>0 DEF TypeOK
<1>6. Gathered(g)' = {} /\ \A h \in Groups \ {g} : Gathered(h)' = Gathered(h)
  BY <1>5 DEF Gathered
<1>7. \A d \in Calls : Tx(d)' = Tx(d)
  BY DEF Tx
<1>8. ASSUME NEW h \in Groups
      PROVE  /\ Len(group'[h]) < MaxPerBundle /\ IsInjectiveSeq(group'[h])
             /\ \A c \in Gathered(h)' :
                   /\ call'[c].pc = "bundled" /\ chain[Tx(c)'] = "none"
                   /\ Intents[Intent[c]].group = h
  <2>1. CASE h = g
    <3>1. Len(<<>>) < MaxPerBundle /\ IsInjectiveSeq(<<>>)
      BY ExecutorAssumption DEF IsInjectiveSeq
    <3> QED
      BY <1>5, <1>6, <2>1, <3>1
  <2>2. CASE h # g
    BY <1>0, <1>5, <1>6, <1>7, <2>2, PackedFacts DEF Packing
  <2> QED
    BY <2>1, <2>2
<1>9. ASSUME NEW f \in flights'
      PROVE  /\ f \in [calls : Seq(Calls), subs : SUBSET Nat]
             /\ Len(f.calls) <= MaxPerBundle /\ IsInjectiveSeq(f.calls)
             /\ \A c \in Members(f) :
                   /\ call'[c].pc = "bundled" /\ (Tipped(f) \/ chain[Tx(c)'] = "none")
                   /\ \A h \in Groups : c \notin Gathered(h)'
  <2>1. CASE f = F
    BY <1>1, <1>2, <1>6, <1>7, <2>1
  <2>2. CASE f \in flights
    BY <1>0, <1>6, <1>7, <2>2, PackedFacts DEF Packing
  <2> QED
    BY <1>3, <2>1, <2>2
<1>10. \A e, f \in flights' : e # f => Members(e) \cap Members(f) = {}
  BY <1>0, <1>2, <1>3 DEF Packing
<1>11. ASSUME NEW c \in Calls, call'[c].pc = "bundled"
       PROVE  (\E h \in Groups : c \in Gathered(h)') \/ \E f \in flights' : c \in Members(f)
  <2>1. CASE c \in Members(F)
    BY <1>3, <2>1
  <2>2. CASE c \notin Members(F)
    <3>1. call[c].pc = "bundled" /\ c \notin Gathered(g)
      BY <1>2, <1>11, <2>2
    <3> QED
      BY <1>0, <1>3, <1>6, <3>1 DEF Packing
  <2> QED
    BY <2>1, <2>2
<1> QED
  BY <1>4, <1>8, <1>9, <1>10, <1>11 DEF Packing

LEMMA AddKeeps == ASSUME ExecInv, NEW c \in Calls, AddToBundle(c) PROVE ExecInv'
<1>0. TypeOK /\ Packing /\ Slots
  BY DEF ExecInv
<1> DEFINE g == Intents[Intent[c]].group
           s == Append(group[g], c)
<1>1. /\ call[c].pc = "attempt" /\ g # None /\ g \in Groups /\ group[g] \in Seq(Calls)
      /\ call' = [call EXCEPT ![c].pc = "bundled"]
      /\ UNCHANGED <<now, inFlight, failedAt, chain, outcome>>
      /\ \/ /\ Len(s) >= MaxPerBundle
            /\ group' = [group EXCEPT ![g] = <<>>] /\ flights' = flights \union {Flight(s)}
         \/ ~(Len(s) >= MaxPerBundle) /\ group' = [group EXCEPT ![g] = s] /\ UNCHANGED flights
  BY <1>0, IntentFacts DEF AddToBundle, TypeOK
<1>2. call \in [Calls -> CallRec]
  BY <1>0 DEF TypeOK, CallRec
<1>3. /\ call' \in [Calls -> CallRec] /\ \A d \in Calls \ {c} : call'[d] = call[d]
      /\ call'[c].pc = "bundled" /\ call'[c].subs = call[c].subs
      /\ call'[c].runs = call[c].runs /\ call'[c].attempt = call[c].attempt
      /\ call'[c].result = call[c].result /\ call'[c].tx = call[c].tx
  BY <1>1, <1>2 DEF CallRec, Pcs
<1>4. Executing(c) /\ chain[Tx(c)] = "none"
  BY <1>1, CurrentFacts DEF Executing
<1>5. /\ s \in Seq(Calls) /\ Len(s) = Len(group[g]) + 1 /\ Len(group[g]) \in Nat
      /\ {s[k] : k \in DOMAIN s} = Gathered(g) \union {c} /\ IsInjectiveSeq(s)
  <2>1. IsInjectiveSeq(group[g]) /\ c \notin Gathered(g)
    BY <1>0, <1>1, PackedFacts DEF Packing
  <2>2. Len(group[g]) \in Nat
    BY <1>1
  <2> QED
    BY <1>1, <2>1, <2>2, AppendFacts DEF Gathered
<1> HIDE DEF s
<1>6. \A d \in Gathered(g) \union {c} :
         /\ \A f \in flights : d \notin Members(f)
         /\ \A h \in Groups \ {g} : d \notin Gathered(h)
         /\ chain[Tx(d)] = "none" /\ call'[d].pc = "bundled" /\ Intents[Intent[d]].group = g
         /\ d \in Calls
  <2>1. c \notin Gathered(g) /\ (\A f \in flights : c \notin Members(f))
        /\ \A h \in Groups : c \notin Gathered(h)
    BY <1>1, PackedFacts
  <2> QED
    BY <1>0, <1>1, <1>3, <1>4, <2>1, PackedFacts DEF Packing
<1>7. /\ Packing' /\ group' \in [Groups -> Seq(Calls)]
      /\ \A f \in flights' : f.calls \in Seq(Calls) /\ f.subs \subseteq DOMAIN JitoOrder
  <2>1. CASE Len(s) >= MaxPerBundle
    <3>1. Len(s) <= MaxPerBundle
      BY <1>0, <1>1, <1>5, ExecutorAssumption DEF Packing
    <3>2. Gathered(g) \subseteq {s[k] : k \in DOMAIN s} /\ \A k \in DOMAIN s : s[k] \in Gathered(g) \union {c}
      BY <1>5
    <3>3. \A k \in DOMAIN s :
              /\ \A f \in flights : s[k] \notin Members(f)
              /\ \A h \in Groups \ {g} : s[k] \notin Gathered(h)
              /\ chain[Tx(s[k])] = "none" /\ call'[s[k]].pc = "bundled"
      BY <1>6, <3>2
    <3>4. ASSUME NEW d \in Calls, call'[d].pc = "bundled"
          PROVE  call[d].pc = "bundled" \/ \E k \in DOMAIN s : d = s[k]
      BY <1>3, <1>5, <3>4, ZenonT(30)
    <3>5. \A d \in Calls : /\ call[d].pc = "bundled" => call'[d].pc = "bundled"
                           /\ call'[d].attempt = call[d].attempt
      BY <1>3
    <3>6. group' = [group EXCEPT ![g] = <<>>] /\ flights' = flights \union {Flight(s)} /\ chain' = chain
      BY <1>1, <2>1
    <3> HIDE DEF g
    <3> QED
      BY <1>1, <1>5, <3>1, <3>2, <3>3, <3>4, <3>5, <3>6, FlushPacks
  <2>2. CASE ~(Len(s) >= MaxPerBundle)
    <3>1. group' = [group EXCEPT ![g] = s] /\ flights' = flights
      BY <1>1, <2>2
    <3>2. /\ group' \in [Groups -> Seq(Calls)] /\ group'[g] = s
          /\ \A h \in Groups \ {g} : group'[h] = group[h]
      BY <1>0, <1>1, <1>5, <3>1 DEF TypeOK
    <3>3. /\ Gathered(g)' = Gathered(g) \union {c}
          /\ \A h \in Groups \ {g} : Gathered(h)' = Gathered(h)
      <4>1. Gathered(g)' = {s[k] : k \in DOMAIN s}
        BY <3>2 DEF Gathered
      <4>2. \A h \in Groups \ {g} : Gathered(h)' = Gathered(h)
        BY <3>2 DEF Gathered
      <4> QED
        BY <1>5, <4>1, <4>2
    <3>4. \A d \in Calls : Tx(d)' = Tx(d)
      BY <1>3 DEF Tx
    <3>5. ASSUME NEW h \in Groups
          PROVE  /\ Len(group'[h]) < MaxPerBundle /\ IsInjectiveSeq(group'[h])
                 /\ \A d \in Gathered(h)' :
                       /\ call'[d].pc = "bundled" /\ chain[Tx(d)'] = "none"
                       /\ Intents[Intent[d]].group = h
      <4>1. CASE h = g
        BY <1>5, <1>6, <2>2, <3>2, <3>3, <3>4, <4>1, ExecutorAssumption
      <4>2. CASE h # g
        BY <1>0, <1>3, <3>2, <3>3, <3>4, <4>2, PackedFacts, SMTT(30) DEF Packing
      <4> QED
        BY <4>1, <4>2
    <3>6. ASSUME NEW f \in flights
          PROVE  /\ f \in [calls : Seq(Calls), subs : SUBSET Nat]
                 /\ Len(f.calls) <= MaxPerBundle /\ IsInjectiveSeq(f.calls)
                 /\ \A d \in Members(f) :
                       /\ call'[d].pc = "bundled" /\ (Tipped(f) \/ chain[Tx(d)'] = "none")
                       /\ \A h \in Groups : d \notin Gathered(h)'
      <4>1. \A d \in Members(f) :
               /\ d \in Calls /\ d # c /\ call[d].pc = "bundled" /\ (Tipped(f) \/ chain[Tx(d)] = "none")
               /\ \A h \in Groups : d \notin Gathered(h)
        BY <1>0, <1>6, PackedFacts DEF Packing
      <4>2. \A d \in Members(f) : \A h \in Groups : d \notin Gathered(h)'
        BY <3>3, <4>1
      <4>3. \A d \in Members(f) :
               call'[d].pc = "bundled" /\ (Tipped(f) \/ chain[Tx(d)'] = "none")
        BY <1>3, <3>4, <4>1
      <4> QED
        BY <1>0, <4>2, <4>3 DEF Packing
    <3>7. ASSUME NEW d \in Calls, call'[d].pc = "bundled"
          PROVE  (\E h \in Groups : d \in Gathered(h)') \/ \E f \in flights : d \in Members(f)
      BY <1>0, <1>1, <1>3, <3>3, <3>7 DEF Packing
    <3>8. \A e, f \in flights : e # f => Members(e) \cap Members(f) = {}
      BY <1>0 DEF Packing
    <3>9. Packing'
      BY <1>1, <3>1, <3>5, <3>6, <3>7, <3>8 DEF Packing
    <3> QED
      BY <1>0, <3>1, <3>2, <3>9 DEF TypeOK
  <2> QED
    BY <2>1, <2>2
<1>8. /\ {c} \in SUBSET Calls /\ \A e \in {c} : Executing(e)
      /\ \A e \in {c} :
            /\ call'[e].pc \in {"send", "bundled", "poll", "asking", "reverting"}
            /\ call'[e].runs = call[e].runs /\ call'[e].attempt = call[e].attempt
            /\ call'[e].result = call[e].result /\ call'[e].tx = call[e].tx
            /\ call'[e].subs \subseteq DOMAIN Intents[Intent[e]].prefers
            /\ call'[e].pc = "reverting" => chain[Tx(e)] = "reverted"
  BY <1>0, <1>3, <1>4 DEF TypeOK
<1>9. /\ \A d \in Calls \ {c} : call'[d] = call[d]
      /\ failedAt' \in [Submitters -> Nat \union {None}] /\ chain' = chain
      /\ UNCHANGED <<now, inFlight, outcome>>
  BY <1>0, <1>1, <1>3 DEF TypeOK
<1> QED
  BY <1>3, <1>7, <1>8, <1>9, MovingKeeps

(* The window timer flushes what waits: the calls stay where they are.     *)
LEMMA TimerKeeps == ASSUME ExecInv, NEW g \in Groups, FlushTimer(g) PROVE ExecInv'
<1>0. TypeOK /\ Packing
  BY DEF ExecInv
<1>1. /\ group' = [group EXCEPT ![g] = <<>>] /\ flights' = flights \union {Flight(group[g])}
      /\ UNCHANGED <<now, call, inFlight, failedAt, chain, outcome>>
  BY DEF FlushTimer
<1>2. /\ group[g] \in Seq(Calls) /\ Len(group[g]) <= MaxPerBundle /\ IsInjectiveSeq(group[g])
      /\ Gathered(g) \subseteq {group[g][k] : k \in DOMAIN group[g]}
  <2>1. group[g] \in Seq(Calls) /\ Len(group[g]) < MaxPerBundle /\ IsInjectiveSeq(group[g])
    BY <1>0 DEF TypeOK, Packing
  <2>2. Len(group[g]) \in Nat
    BY <2>1
  <2> QED
    BY <2>1, <2>2, ExecutorAssumption DEF Gathered
<1>3. \A k \in DOMAIN group[g] :
         /\ \A f \in flights : group[g][k] \notin Members(f)
         /\ \A h \in Groups \ {g} : group[g][k] \notin Gathered(h)
         /\ chain[Tx(group[g][k])] = "none" /\ call'[group[g][k]].pc = "bundled"
  <2>1. ASSUME NEW c \in Gathered(g)
        PROVE  /\ \A f \in flights : c \notin Members(f)
               /\ \A h \in Groups \ {g} : c \notin Gathered(h)
               /\ chain[Tx(c)] = "none" /\ call'[c].pc = "bundled"
    BY <1>0, <1>1 DEF Packing
  <2>2. \A k \in DOMAIN group[g] : group[g][k] \in Gathered(g)
    BY DEF Gathered
  <2> QED
    BY <2>1, <2>2
<1>4. \A d \in Calls : call'[d] = call[d]
  BY <1>1
<1>5. /\ Packing' /\ group' \in [Groups -> Seq(Calls)]
      /\ \A f \in flights' : f.calls \in Seq(Calls) /\ f.subs \subseteq DOMAIN JitoOrder
  BY <1>1, <1>2, <1>3, <1>4, FlushPacks
<1>6. /\ call' \in [Calls -> CallRec] /\ {} \in SUBSET Calls
      /\ failedAt' \in [Submitters -> Nat \union {None}] /\ chain' = chain
  BY <1>0, <1>1 DEF TypeOK, CallRec
<1> QED
  BY <1>1, <1>4, <1>5, <1>6, MovingKeeps

LEMMA FlightFacts ==
    ASSUME ExecInv, NEW f \in flights
    PROVE  /\ Members(f) \in SUBSET Calls /\ \A c \in Members(f) : Executing(c)
           /\ \A c \in Members(f) : call[c].pc = "bundled" /\ \A g \in Groups : c \notin Gathered(g)
           /\ \A h \in flights \ {f} : \A c \in Members(f) : c \notin Members(h)
           /\ ~Tipped(f) => \A c \in Members(f) : chain[Tx(c)] = "none"
<1>1. \A c \in Members(f) : c \in Calls /\ call[c].pc = "bundled"
  BY PackedFacts
<1> QED
  BY <1>1 DEF ExecInv, Packing, Executing

(* A bundle that nobody accepts ends the attempts of its calls.            *)
LEMMA GivenUpKeeps ==
    ASSUME ExecInv, NEW f \in flights, FlightUntipped(f) \/ FlightExhausted(f)
    PROVE  ExecInv'
<1>1. \A c \in Members(f) : /\ \A g \in Groups : c \notin Gathered(g)
                            /\ \A h \in flights \ {f} : c \notin Members(h)
  BY FlightFacts
<1>2. \A h \in flights \ (flights \ {f}) : Members(h) \subseteq Members(f)
  OBVIOUS
<1>3. CASE FlightUntipped(f)
  <2>1. /\ "bundle_without_tip" \in Results /\ \A c \in Members(f) : chain[Tx(c)] = "none"
        /\ EndAttempt(Members(f), "bundle_without_tip", FALSE) /\ flights' = flights \ {f}
        /\ UNCHANGED <<now, failedAt, group, chain>>
    BY <1>3, FlightFacts DEF FlightUntipped, Results, TerminalReject
  <2> QED
    BY <1>1, <1>2, <2>1, FlightFacts, EndingKeeps
<1>4. CASE FlightExhausted(f)
  <2>1. /\ "bundle_flush_failed" \in Results /\ "bundle_flush_failed" \notin Early
        /\ EndAttempt(Members(f), "bundle_flush_failed", FALSE) /\ flights' = flights \ {f}
        /\ UNCHANGED <<now, failedAt, group, chain>>
    BY <1>4 DEF FlightExhausted, Results, Retryable, Early, TerminalReject
  <2> QED
    BY <1>1, <1>2, <2>1, FlightFacts, EndingKeeps
<1> QED
  BY <1>3, <1>4

(* The transactions of a bundle reach the network, whether the submitter   *)
(* accepts or throws; the calls of other bundles and of groups stay.       *)
LEMMA OthersStayPacked ==
    ASSUME ExecInv, NEW f \in flights, chain' \in {chain, reach(Members(f))},
           \A d \in Calls \ Members(f) : call'[d] = call[d]
    PROVE  \A d \in Calls \ Members(f) :
              call[d].pc = "bundled" =>
                 /\ call'[d].pc = "bundled"
                 /\ chain[Tx(d)] = "none" => chain'[Tx(d)'] = "none"
<1> SUFFICES ASSUME NEW d \in Calls \ Members(f), call[d].pc = "bundled", chain[Tx(d)] = "none"
             PROVE  chain'[Tx(d)'] = "none"
  OBVIOUS
<1>1. call[d].attempt \in 1..MaxAttempts(d) /\ Tx(d)' = Tx(d) /\ Tx(d) = <<d, call[d].attempt>>
  BY DEF ExecInv, Slots, Executing, Tx
<1>2. reach(Members(f))[Tx(d)] = chain[Tx(d)]
  BY <1>1, FlightFacts, ReachFacts
<1> QED
  BY <1>1, <1>2

LEMMA AcceptedKeeps == ASSUME ExecInv, NEW f \in flights, FlightOk(f) PROVE ExecInv'
<1>0. TypeOK /\ Packing
  BY DEF ExecInv
<1>1. /\ call' = [c \in Calls |-> IF c \in Members(f) THEN [call[c] EXCEPT !.pc = "poll"] ELSE call[c]]
      /\ chain' = reach(Members(f)) /\ flights' = flights \ {f}
      /\ UNCHANGED <<now, inFlight, group, outcome>>
  BY DEF FlightOk
<1>2. failedAt' \in [Submitters -> Nat \union {None}]
  BY TrackTyped DEF FlightOk
<1>3. call \in [Calls -> CallRec]
  BY <1>0 DEF TypeOK, CallRec
<1>4. Members(f) \in SUBSET Calls /\ \A c \in Members(f) : Executing(c)
  BY FlightFacts
<1>5. ASSUME NEW c \in Members(f)
      PROVE  /\ call'[c] \in CallRec /\ call'[c].pc = "poll" /\ call'[c].subs = call[c].subs
             /\ call'[c].runs = call[c].runs /\ call'[c].attempt = call[c].attempt
             /\ call'[c].result = call[c].result /\ call'[c].tx = call[c].tx
  BY <1>1, <1>3, <1>4 DEF CallRec, Pcs
<1>6. \A d \in Calls \ Members(f) : call'[d] = call[d]
  BY <1>1
<1>7. call' \in [Calls -> CallRec]
  BY <1>1, <1>3, <1>5, <1>6
<1>8. \A c \in Members(f) : call[c].subs \subseteq DOMAIN Intents[Intent[c]].prefers
  BY <1>0, <1>4 DEF TypeOK
<1>9. Packing'
  <2>1. \A d \in Calls : call'[d].pc = "bundled" => call[d].pc = "bundled" /\ d \notin Members(f)
    BY <1>5, <1>6
  <2>2. \A g \in Groups : Gathered(g)' = Gathered(g)
    BY <1>1 DEF Gathered
  <2>3. \A d \in Calls \ Members(f) :
           call[d].pc = "bundled" =>
              call'[d].pc = "bundled" /\ (chain[Tx(d)] = "none" => chain'[Tx(d)'] = "none")
    BY <1>1, <1>6, OthersStayPacked
  <2>4. ASSUME NEW g \in Groups, NEW c \in Gathered(g)
        PROVE  /\ call'[c].pc = "bundled" /\ chain'[Tx(c)'] = "none"
               /\ Intents[Intent[c]].group = g
    BY <1>0, <2>3, FlightFacts, PackedFacts DEF Packing
  <2>5. ASSUME NEW h \in flights \ {f}, NEW c \in Members(h)
        PROVE  /\ call'[c].pc = "bundled" /\ (Tipped(h) \/ chain'[Tx(c)'] = "none")
               /\ \A g \in Groups : c \notin Gathered(g)
    BY <1>0, <2>3, FlightFacts, PackedFacts DEF Packing
  <2>6. ASSUME NEW c \in Calls, call'[c].pc = "bundled"
        PROVE  (\E g \in Groups : c \in Gathered(g)) \/ \E h \in flights' : c \in Members(h)
    <3>1. CASE \E g \in Groups : c \in Gathered(g)
      BY <3>1
    <3>2. CASE \E h \in flights : c \in Members(h)
      BY <1>1, <2>1, <2>6, <3>2
    <3> QED
      BY <1>0, <2>1, <2>6, <3>1, <3>2 DEF Packing
  <2>7. \A h \in flights' :
           /\ h \in [calls : Seq(Calls), subs : SUBSET Nat]
           /\ Len(h.calls) <= MaxPerBundle /\ IsInjectiveSeq(h.calls)
           /\ \A c \in Members(h) :
                 /\ call'[c].pc = "bundled" /\ (Tipped(h) \/ chain'[Tx(c)'] = "none")
                 /\ \A g \in Groups : c \notin Gathered(g)
    BY <1>0, <1>1, <2>5 DEF Packing
  <2>8. \A e, h \in flights' : e # h => Members(e) \cap Members(h) = {}
    BY <1>0, <1>1 DEF Packing
  <2>9. \A g \in Groups : Len(group'[g]) < MaxPerBundle /\ IsInjectiveSeq(group'[g])
    BY <1>0, <1>1 DEF Packing
  <2>10. \A g \in Groups : \A c \in Gathered(g)' :
            /\ call'[c].pc = "bundled" /\ chain'[Tx(c)'] = "none"
            /\ Intents[Intent[c]].group = g
    BY <2>2, <2>4
  <2>11. \A h \in flights' :
            /\ h \in [calls : Seq(Calls), subs : SUBSET Nat]
            /\ Len(h.calls) <= MaxPerBundle /\ IsInjectiveSeq(h.calls)
            /\ \A c \in Members(h) :
                  /\ call'[c].pc = "bundled" /\ (Tipped(h) \/ chain'[Tx(c)'] = "none")
                  /\ \A g \in Groups : c \notin Gathered(g)'
    BY <2>2, <2>7
  <2>12. \A c \in Calls : call'[c].pc = "bundled" =>
            \/ \E g \in Groups : c \in Gathered(g)'
            \/ \E h \in flights' : c \in Members(h)
    BY <2>2, <2>6
  <2> QED
    BY <2>8, <2>9, <2>10, <2>11, <2>12 DEF Packing
<1>10. /\ group' \in [Groups -> Seq(Calls)]
       /\ \A h \in flights' : h.calls \in Seq(Calls) /\ h.subs \subseteq DOMAIN JitoOrder
  BY <1>0, <1>1 DEF TypeOK
<1> QED
  BY <1>1, <1>2, <1>4, <1>5, <1>6, <1>7, <1>8, <1>9, <1>10, MovingKeeps

LEMMA RefusedKeeps == ASSUME ExecInv, NEW f \in flights, FlightFails(f) PROVE ExecInv'
<1>0. TypeOK /\ Packing
  BY DEF ExecInv
<1> DEFINE F == [f EXCEPT !.subs = @ \ {First(@)}]
<1>1. /\ Tipped(f) /\ chain' \in {chain, reach(Members(f))}
      /\ flights' = (flights \ {f}) \union {F}
      /\ UNCHANGED <<now, call, inFlight, group, outcome>>
  BY DEF FlightFails
<1>2. failedAt' \in [Submitters -> Nat \union {None}]
  BY TrackTyped DEF FlightFails
<1>3. /\ F \in [calls : Seq(Calls), subs : SUBSET Nat] /\ F.calls = f.calls
      /\ F.subs \subseteq DOMAIN JitoOrder
  <2>1. f \in [calls : Seq(Calls), subs : SUBSET Nat] /\ f.subs \subseteq DOMAIN JitoOrder
    BY <1>0 DEF TypeOK, Packing
  <2> QED
    BY <2>1
<1> HIDE DEF F
<1>4. Members(F) = Members(f) /\ Tipped(F)
  BY <1>1, <1>3 DEF Members, Tipped
<1>5. call \in [Calls -> CallRec]
  BY <1>0 DEF TypeOK, CallRec
<1>6. Packing'
  <2>1. \A d \in Calls : call'[d] = call[d]
    BY <1>1
  <2>2. \A g \in Groups : Gathered(g)' = Gathered(g)
    BY <1>1 DEF Gathered
  <2>3. \A d \in Calls \ Members(f) :
           call[d].pc = "bundled" =>
              call'[d].pc = "bundled" /\ (chain[Tx(d)] = "none" => chain'[Tx(d)'] = "none")
    BY <1>1, <2>1, OthersStayPacked
  <2>4. ASSUME NEW g \in Groups, NEW c \in Gathered(g)
        PROVE  /\ call'[c].pc = "bundled" /\ chain'[Tx(c)'] = "none"
               /\ Intents[Intent[c]].group = g
    BY <1>0, <2>3, FlightFacts, PackedFacts DEF Packing
  <2>5. ASSUME NEW h \in flights'
        PROVE  /\ h \in [calls : Seq(Calls), subs : SUBSET Nat]
               /\ Len(h.calls) <= MaxPerBundle /\ IsInjectiveSeq(h.calls)
               /\ \A c \in Members(h) :
                     /\ call'[c].pc = "bundled" /\ (Tipped(h) \/ chain'[Tx(c)'] = "none")
                     /\ \A g \in Groups : c \notin Gathered(g)
    <3>1. CASE h = F
      BY <1>0, <1>1, <1>3, <1>4, <3>1, FlightFacts DEF Packing
    <3>2. CASE h \in flights \ {f}
      <4>1. \A c \in Members(h) : c \in Calls /\ c \notin Members(f) /\ call[c].pc = "bundled"
        BY <3>2, FlightFacts, PackedFacts
      <4> QED
        BY <1>0, <2>3, <3>2, <4>1 DEF Packing
    <3> QED
      BY <1>1, <3>1, <3>2
  <2>6. ASSUME NEW e \in flights', NEW h \in flights', e # h
        PROVE  Members(e) \cap Members(h) = {}
    BY <1>0, <1>1, <1>4, <2>6 DEF Packing
  <2>7. ASSUME NEW c \in Calls, call'[c].pc = "bundled"
        PROVE  (\E g \in Groups : c \in Gathered(g)) \/ \E h \in flights' : c \in Members(h)
    BY <1>0, <1>1, <1>4, <2>1, <2>7 DEF Packing
  <2> QED
    BY <1>0, <1>1, <2>2, <2>4, <2>5, <2>6, <2>7 DEF Packing
<1>7. /\ group' \in [Groups -> Seq(Calls)] /\ call' \in [Calls -> CallRec]
      /\ \A h \in flights' : h.calls \in Seq(Calls) /\ h.subs \subseteq DOMAIN JitoOrder
  BY <1>0, <1>1, <1>3, <1>5 DEF TypeOK
<1>8. /\ Members(f) \in SUBSET Calls /\ \A c \in Members(f) : Executing(c)
      /\ \A d \in Calls \ Members(f) : call'[d] = call[d]
      /\ \A c \in Members(f) :
            /\ call'[c].pc \in {"send", "bundled", "poll", "asking", "reverting"}
            /\ call'[c].runs = call[c].runs /\ call'[c].attempt = call[c].attempt
            /\ call'[c].result = call[c].result /\ call'[c].tx = call[c].tx
            /\ call'[c].subs \subseteq DOMAIN Intents[Intent[c]].prefers
            /\ call'[c].pc = "reverting" => chain[Tx(c)] = "reverted"
  BY <1>0, <1>1, FlightFacts DEF TypeOK
<1> QED
  BY <1>1, <1>2, <1>6, <1>7, <1>8, MovingKeeps

-----------------------------------------------------------------------------
(* The network decides about what was sent: nothing that a call relies on. *)
LEMMA ChainKeeps == ASSUME ExecInv, NEW t \in Txs, ChainDecides(t) PROVE ExecInv'
<1>0. TypeOK /\ Slots /\ Sharing /\ Verdicts /\ Tries
  BY DEF ExecInv
<1>1. /\ UNCHANGED <<now, call, inFlight, failedAt, group, flights, outcome>>
      /\ chain[t] = "sent"
      /\ chain' \in [Txs -> {"none", "sent", "landed", "reverted", "expired"}]
      /\ \A s \in Txs : s # t => chain'[s] = chain[s]
  BY <1>0 DEF ChainDecides, TypeOK
<1>2. \A s \in Txs : chain[s] # "sent" => chain'[s] = chain[s]
  BY <1>1
<1>3. \A c \in Calls : Executing(c) => Tx(c) \in Txs
  BY <1>0, TxFacts DEF Slots, Tx
<1>4. TypeOK' /\ Slots' /\ Sharing'
  BY <1>0, <1>1 DEF TypeOK, Slots, Sharing, Executing
<1>5. Verdicts'
  BY <1>0, <1>1, <1>2, <1>3 DEF Verdicts, Executing, Tx
<1>6. Tries'
  BY <1>0, <1>1, <1>2, TxFacts, ZenonT(30) DEF Tries, Executing
<1>7. Packing'
  BY <1>1, <1>2, <1>3, PackingStays DEF Executing
<1> QED
  BY <1>4, <1>5, <1>6, <1>7 DEF ExecInv

LEMMA TickKeeps == ASSUME ExecInv, Tick \/ UNCHANGED vars PROVE ExecInv'
<1>0. TypeOK /\ Slots /\ Sharing /\ Verdicts /\ Tries
  BY DEF ExecInv
<1>1. now' \in Nat /\ UNCHANGED <<call, inFlight, failedAt, group, flights, chain, outcome>>
  BY <1>0 DEF Tick, vars, TypeOK
<1>2. TypeOK' /\ Slots' /\ Sharing' /\ Verdicts' /\ Tries'
  BY <1>0, <1>1 DEF TypeOK, Slots, Sharing, Verdicts, Tries, Executing, Tx
<1>3. Packing'
  BY <1>1, PackingStays
<1> QED
  BY <1>2, <1>3 DEF ExecInv

LEMMA ExecStep == ExecInv /\ [Next]_vars => ExecInv'
<1> SUFFICES ASSUME ExecInv, [Next]_vars PROVE ExecInv'
  OBVIOUS
<1>1. ASSUME NEW c \in Calls, Submit(c) \/ Proceed(c) PROVE ExecInv'
  BY <1>1, SubmitKeeps, AddKeeps, MovesKeep, EndsKeep DEF Proceed
<1>2. ASSUME Flying PROVE ExecInv'
  BY <1>2, GivenUpKeeps, AcceptedKeeps, RefusedKeeps DEF Flying
<1> QED
  BY <1>1, <1>2, TimerKeeps, ChainKeeps, TickKeeps DEF Next

LEMMA ExecStarts == Init => ExecInv
<1> SUFFICES ASSUME Init PROVE ExecInv
  OBVIOUS
<1>1. \A c \in Calls : call[c] = NoCall
  BY DEF Init
<1>2. NoCall \in CallRec /\ NoCall.pc = "idle" /\ NoCall.runs = None /\ NoCall.attempt = 0
      /\ NoCall.subs = {} /\ NoCall.result = "none"
  BY DEF NoCall, CallRec, Pcs
<1>3. TypeOK
  <2>1. <<>> \in Seq(Calls)
    OBVIOUS
  <2>2. \A c \in Calls : call[c].attempt <= MaxAttempts(c)
    BY <1>1, <1>2, IntentFacts
  <2>3. /\ group \in [Groups -> Seq(Calls)] /\ flights = {}
        /\ call \in [Calls -> CallRec] /\ now \in Nat
        /\ inFlight \in [DOMAIN Intents -> Calls \union {None}]
        /\ failedAt \in [Submitters -> Nat \union {None}]
        /\ chain \in [Txs -> {"none", "sent", "landed", "reverted", "expired"}]
        /\ outcome \in [Txs -> Results \union {"open"}]
    BY <1>2, <2>1 DEF Init
  <2> QED
    BY <1>1, <1>2, <2>2, <2>3 DEF TypeOK, CallRec
<1>4. Slots
  BY <1>1, <1>2 DEF Init, Slots, Executing
<1>5. Sharing /\ Verdicts
  BY <1>1, <1>2 DEF Sharing, Verdicts
<1>6. Tries
  <2>1. \A c \in Calls : \A n \in 1..MaxAttempts(c) :
           chain[<<c, n>>] = "none" /\ outcome[<<c, n>>] = "open"
    BY TxFacts DEF Init
  <2>2. \A c \in Calls : \A n \in 1..MaxAttempts(c) :
           ~(n < call[c].attempt) /\ ~Executing(c) /\ call[c].pc # "attempt"
    BY <1>1, <1>2, IntentFacts DEF Executing
  <2>3. "open" \notin Early
    BY DEF Early, TerminalReject
  <2> QED
    BY <2>1, <2>2, <2>3 DEF Tries
<1>7. Packing
  <2>1. \A g \in Groups : group[g] = <<>> /\ Gathered(g) = {}
    BY DEF Init, Gathered
  <2>2. flights = {} /\ Len(<<>>) < MaxPerBundle /\ IsInjectiveSeq(<<>>)
    BY ExecutorAssumption DEF Init, IsInjectiveSeq
  <2> QED
    BY <1>1, <1>2, <2>1, <2>2 DEF Packing
<1> QED
  BY <1>3, <1>4, <1>5, <1>6, <1>7 DEF ExecInv

-----------------------------------------------------------------------------
(* What submit() promises the callers of one intent (executor.ts, with     *)
(* InFlightMap of in-flight.ts and confirmLanded): never two executions of *)
(* an intent under way, one result for all that share one, and a landed or *)
(* reverted result that is what the chain says of a transaction of theirs. *)
THEOREM CallsShareTheirVerdict == Spec => []CallsShareTheTruth
<1>1. ExecInv => CallsShareTheTruth
  <2> SUFFICES ASSUME ExecInv PROVE CallsShareTheTruth
    OBVIOUS
  <2>0. TypeOK /\ Slots /\ Sharing /\ Verdicts
    BY DEF ExecInv
  <2>1. OneExecutionPerIntent
    BY <2>0 DEF Slots, OneExecutionPerIntent
  <2>2. SharedResolution
    <3> SUFFICES ASSUME NEW c \in Calls, NEW d \in Calls, call[c].runs # None,
                        call[c].runs = call[d].runs, call[c].pc = "settled"
                 PROVE  /\ call[d].pc = "settled" /\ call[d].result = call[c].result
                        /\ call[d].tx = call[c].tx
      BY DEF SharedResolution
    <3> DEFINE x == call[c].runs
    <3>1. call[x].pc = "settled" /\ call[x].result = call[c].result /\ call[x].tx = call[c].tx
      BY <2>0 DEF Sharing
    <3>2. call[d].pc # "idle"
      BY <2>0 DEF Sharing
    <3>3. call[d].pc # "attached"
      BY <2>0, <3>1 DEF Sharing, Executing
    <3>4. ~Executing(d)
      BY <2>0, <3>1 DEF Slots, Executing
    <3> QED
      BY <2>0, <3>1, <3>2, <3>3, <3>4 DEF Sharing, Executing
  <2>3. VerdictIsTrue
    BY <2>0 DEF Verdicts, VerdictIsTrue
  <2> QED
    BY <2>0, <2>1, <2>2, <2>3 DEF CallsShareTheTruth
<1> QED
  BY <1>1, ExecStarts, ExecStep, PTL DEF Spec

(* The retry loop (runWithRetry) signs over a fresh blockhash each time;   *)
(* only an attempt that ended without knowing, a timeout or a failed       *)
(* submission, can have taken effect when a later one is sent.             *)
THEOREM SecondLandingIsAmbiguous == Spec => []DoubleLandingIsAmbiguous
<1>1. ExecInv => DoubleLandingIsAmbiguous
  <2> SUFFICES ASSUME ExecInv, NEW s \in Txs, NEW t \in Txs, s[1] = t[1], s[2] < t[2],
                      chain[s] \in {"landed", "reverted"}, chain[t] # "none"
               PROVE  outcome[s] \in {"timeout", "submit_failed", "bundle_flush_failed"}
    BY DEF DoubleLandingIsAmbiguous
  <2> DEFINE c == t[1]  m == s[2]  n == t[2]
  <2>0. TypeOK /\ Tries
    BY DEF ExecInv
  <2>1. /\ c \in Calls /\ m \in 1..MaxAttempts(c) /\ n \in 1..MaxAttempts(c)
        /\ s = <<c, m>> /\ t = <<c, n>> /\ m < n
    BY TxFacts
  <2>2. call[c].attempt \in Nat /\ m \in Nat /\ n \in Nat
    BY <2>0, <2>1, IntentFacts DEF TypeOK
  <2> HIDE DEF c, m, n
  <2>3. ~(n > call[c].attempt)
    BY <2>0, <2>1 DEF Tries
  <2>4. m < call[c].attempt
    BY <2>1, <2>2, <2>3
  <2>5. outcome[s] \in Retryable /\ outcome[s] \notin Early
    BY <2>0, <2>1, <2>4 DEF Tries
  <2> QED
    BY <2>5 DEF Retryable, Early
<1> QED
  BY <1>1, ExecStarts, ExecStep, PTL DEF Spec

(* The places of an injective sequence that hold c: one if it is among its *)
(* elements.                                                               *)
LEMMA OnePlace ==
    ASSUME NEW c, NEW n \in Nat, NEW S, NEW seqs, NEW x \in S, NEW k \in DOMAIN seqs[x],
           k \in 1..n, IsInjectiveSeq(seqs[x]), seqs[x][k] = c,
           \A y \in S : (\E j \in DOMAIN seqs[y] : seqs[y][j] = c) => y = x
    PROVE  {p \in S \X (1..n) : p[2] \in DOMAIN seqs[p[1]] /\ seqs[p[1]][p[2]] = c} = {<<x, k>>}
  BY DEF IsInjectiveSeq

(* Wherever a call looks for its place in a family of sequences that do    *)
(* not hold it, it finds none.                                             *)
LEMMA NoPlace ==
    ASSUME NEW c, NEW n \in Nat, NEW S, NEW seqs,
           \A y \in S : \A j \in DOMAIN seqs[y] : seqs[y][j] # c
    PROVE  {p \in S \X (1..n) : p[2] \in DOMAIN seqs[p[1]] /\ seqs[p[1]][p[2]] = c} = {}
  OBVIOUS

(* Of the accumulator (add, flush and flushBundle of                       *)
(* bundle-accumulator.ts and executor.ts): an attempt rejected before      *)
(* submission sent nothing, and a call that waits for its bundle is in     *)
(* exactly one place, whether the group filled up or its timer fired.      *)
THEOREM BundlesLoseNothing == Spec => []BundlesAreSound
<1>1. ASSUME ExecInv PROVE RejectedIsUnsent
  <2> SUFFICES ASSUME NEW t \in Txs, outcome[t] \in Early PROVE chain[t] = "none"
    BY DEF RejectedIsUnsent, Early
  <2>1. t[1] \in Calls /\ t[2] \in 1..MaxAttempts(t[1]) /\ t = <<t[1], t[2]>>
    BY TxFacts
  <2> QED
    BY <1>1, <2>1 DEF ExecInv, Tries
<1>2. ASSUME ExecInv PROVE BundledOnce
  <2>0. TypeOK /\ Packing
    BY <1>2 DEF ExecInv
  <2>1. MaxPerBundle \in Nat
    BY ExecutorAssumption
  <2> DEFINE inGroups(c) == {p \in Groups \X (1..MaxPerBundle) :
                               p[2] \in DOMAIN group[p[1]] /\ group[p[1]][p[2]] = c}
             inFlights(c) == {p \in flights \X (1..MaxPerBundle) :
                               p[2] \in DOMAIN p[1].calls /\ p[1].calls[p[2]] = c}
             seqs == [f \in flights |-> f.calls]
  <2>2. \A s \in Seq(Calls) : Len(s) <= MaxPerBundle => DOMAIN s \subseteq 1..MaxPerBundle
    BY <2>1
  <2>3. \A c : inFlights(c) = {p \in flights \X (1..MaxPerBundle) :
                                p[2] \in DOMAIN seqs[p[1]] /\ seqs[p[1]][p[2]] = c}
    OBVIOUS
  <2>4. ASSUME NEW c \in Calls, NEW g \in Groups, c \in Gathered(g)
        PROVE  Cardinality(inGroups(c)) + Cardinality(inFlights(c)) = 1
    <3>1. PICK k \in DOMAIN group[g] : group[g][k] = c
      BY <2>4 DEF Gathered
    <3>2. /\ group[g] \in Seq(Calls) /\ Len(group[g]) <= MaxPerBundle
          /\ IsInjectiveSeq(group[g])
      BY <2>0, <2>1 DEF TypeOK, Packing
    <3>3. DOMAIN group[g] \subseteq 1..MaxPerBundle
      BY <2>2, <3>2
    <3>4. \A h \in Groups : (\E j \in DOMAIN group[h] : group[h][j] = c) => h = g
      <4>1. \A h \in Groups : c \in Gathered(h) => Intents[Intent[c]].group = h
        BY <2>0 DEF Packing
      <4> QED
        BY <2>4, <4>1 DEF Gathered
    <3>5. inGroups(c) = {<<g, k>>}
      <4>1. <<g, k>> \in inGroups(c)
        BY <3>1, <3>3
      <4>2. ASSUME NEW p \in inGroups(c) PROVE p = <<g, k>>
        <5>1. p[1] = g
          BY <3>4
        <5>2. p[2] = k
          BY <3>1, <3>2, <5>1 DEF IsInjectiveSeq
        <5> QED
          BY <5>1, <5>2
      <4> QED
        BY <4>1, <4>2
    <3>6. \A f \in flights : \A j \in DOMAIN seqs[f] : seqs[f][j] # c
      BY <2>0, <2>4 DEF Packing, Members
    <3>7. inFlights(c) = {}
      BY <2>1, <2>3, <3>6, NoPlace
    <3>8. Cardinality(inGroups(c)) = 1
      BY <3>5, FS_Singleton, Zenon
    <3>9. Cardinality(inFlights(c)) = 0
      BY <3>7, FS_EmptySet, Zenon
    <3> HIDE DEF inGroups, inFlights
    <3> QED
      BY <3>8, <3>9
  <2>5. ASSUME NEW c \in Calls, NEW f \in flights, c \in Members(f)
        PROVE  Cardinality(inGroups(c)) + Cardinality(inFlights(c)) = 1
    <3>1. PICK k \in DOMAIN f.calls : f.calls[k] = c
      BY <2>5 DEF Members
    <3>2. /\ f.calls \in Seq(Calls) /\ Len(f.calls) <= MaxPerBundle
          /\ IsInjectiveSeq(f.calls)
      BY <2>0 DEF TypeOK, Packing
    <3>3. DOMAIN f.calls \subseteq 1..MaxPerBundle
      BY <2>2, <3>2
    <3>4. \A h \in flights : (\E j \in DOMAIN seqs[h] : seqs[h][j] = c) => h = f
      <4> SUFFICES ASSUME NEW h \in flights, NEW j \in DOMAIN h.calls, h.calls[j] = c
                   PROVE  h = f
        OBVIOUS
      <4>1. c \in Members(h)
        BY DEF Members
      <4> QED
        BY <2>0, <2>5, <4>1 DEF Packing
    <3>5. inFlights(c) = {<<f, k>>}
      <4>1. /\ seqs[f] = f.calls /\ k \in DOMAIN seqs[f] /\ k \in 1..MaxPerBundle
            /\ IsInjectiveSeq(seqs[f]) /\ seqs[f][k] = c
        BY <3>1, <3>2, <3>3
      <4> HIDE DEF seqs
      <4>2. {p \in flights \X (1..MaxPerBundle) :
                p[2] \in DOMAIN seqs[p[1]] /\ seqs[p[1]][p[2]] = c} = {<<f, k>>}
        BY <2>1, <3>4, <4>1, OnePlace
      <4> QED
        BY <2>3, <4>2
    <3>6. \A g \in Groups : \A j \in DOMAIN group[g] : group[g][j] # c
      BY <2>0, <2>5 DEF Packing, Gathered
    <3>7. inGroups(c) = {}
      BY <2>1, <3>6, NoPlace
    <3>8. Cardinality(inFlights(c)) = 1
      BY <3>5, FS_Singleton, Zenon
    <3>9. Cardinality(inGroups(c)) = 0
      BY <3>7, FS_EmptySet, Zenon
    <3> HIDE DEF inGroups, inFlights
    <3> QED
      BY <3>8, <3>9
  <2>6. ASSUME NEW c \in Calls, call[c].pc # "bundled"
        PROVE  Cardinality(inGroups(c)) + Cardinality(inFlights(c)) = 0
    <3>1. \A g \in Groups : \A j \in DOMAIN group[g] : group[g][j] # c
      BY <2>0, <2>6 DEF Packing, Gathered
    <3>2. \A f \in flights : \A j \in DOMAIN seqs[f] : seqs[f][j] # c
      BY <2>0, <2>6 DEF Packing, Members
    <3>3. inGroups(c) = {} /\ inFlights(c) = {}
      BY <2>1, <2>3, <3>1, <3>2, NoPlace
    <3> HIDE DEF inGroups, inFlights
    <3> QED
      BY <3>3, FS_EmptySet
  <2>7. \A c \in Calls : Cardinality(inGroups(c)) + Cardinality(inFlights(c)) =
                            IF call[c].pc = "bundled" THEN 1 ELSE 0
    BY <2>0, <2>4, <2>5, <2>6 DEF Packing
  <2> QED
    BY <2>0, <2>7 DEF BundledOnce, Packing
<1>3. ExecInv => BundlesAreSound
  BY <1>1, <1>2 DEF BundlesAreSound, ExecInv
<1> QED
  BY <1>3, ExecStarts, ExecStep, PTL DEF Spec

-----------------------------------------------------------------------------
(* The strategy runtime.                                                   *)

(* A queue q whose head awaits p, and what its record has submitted: the   *)
(* signals of the queue are in order and come after those submitted, but   *)
(* for the head that is past its submission.                               *)
PastSubmit == {"submit", "adapt", "before", "apply", "after", "positions"}
IsSignal(t) == t.hook = "onSignal"

Ordered(q, p, sub, n) ==
    /\ q \in Seq(TaskType) /\ p \in Awaits /\ sub \in Seq(1..MaxSignals)
    /\ p # "idle" => q # <<>>
    /\ p \notin {"idle", "hook"} => IsSignal(q[1])
    /\ \A j \in DOMAIN q : IsSignal(q[j]) => q[j].sig \in 1..n
    /\ \A j, k \in DOMAIN q : j < k /\ IsSignal(q[j]) /\ IsSignal(q[k]) => q[j].sig < q[k].sig
    /\ \A k \in DOMAIN sub : sub[k] <= n
    /\ \A j, k \in DOMAIN sub : j < k => sub[j] < sub[k]
    /\ \A k \in DOMAIN sub : \A j \in DOMAIN q :
          IsSignal(q[j]) => \/ sub[k] < q[j].sig
                            \/ j = 1 /\ p \in PastSubmit /\ sub[k] = q[j].sig

QueuesInOrder ==
    /\ queue \in [Records -> Seq(TaskType)] /\ pc \in [Records -> Awaits]
    /\ submitted \in [Records -> Seq(1..MaxSignals)] /\ signals \in 0..MaxSignals
    /\ dereg \in [Deregs -> [rec : Records \union {NoRecord},
                    pc : {"idle", "barrier", "drained", "shutdown", "flushed", "done"}]]
    /\ \A r \in Records : Ordered(queue[r], pc[r], submitted[r], signals)

(* Times a guard remembers at time t: in order, and none to come.          *)
InOrder(times, t) ==
    /\ times \in Seq(0..MaxInstant)
    /\ \A k \in DOMAIN times : times[k] <= t
    /\ \A j, k \in DOMAIN times : j < k => times[j] <= times[k]

(* The decisions let through that are in the window at t are among those   *)
(* the guard remembers: counted from the end, the j-th of the former is    *)
(* not later than the j-th of the latter.                                  *)
Remembered(acc, dec, t) ==
    \A k \in DOMAIN acc : t - acc[k] < DecisionWindow =>
        /\ Len(acc) - k < Len(dec)
        /\ acc[k] <= dec[Len(dec) - (Len(acc) - k)]

Spaced(acc) ==
    \A k \in DOMAIN acc : k + MaxDecisions \in DOMAIN acc =>
        acc[k + MaxDecisions] - acc[k] >= DecisionWindow

WindowsHold ==
    /\ instant \in 0..MaxInstant /\ guard \in [Records -> GuardType]
    /\ accepted \in [Records -> Seq(0..MaxInstant)]
    /\ \A r \in Records :
          /\ InOrder(accepted[r], instant) /\ InOrder(guard[r].decisions, instant)
          /\ InOrder(guard[r].errors, instant)
          /\ Remembered(accepted[r], guard[r].decisions, instant) /\ Spaced(accepted[r])

(* Losses past a limit at time t, by the books of guard g.                 *)
Lossy(g, t) ==
    \/ g.cumulative < -MaxDrawdown
    \/ g.cumulative < -MaxLoss /\ t < DayLength

(* The books of the guard of r.  On the first day the day's amount is all  *)
(* there is; what a trade realised reaches the guard between "apply" and   *)
(* the end of "after".                                                     *)
Booked(r) ==
    /\ guard[r].cumulative <= guard[r].peak
    /\ instant < DayLength => guard[r].day = 0 /\ guard[r].today = guard[r].cumulative
    /\ r \notin resumed /\ Lossy(guard[r], instant) => quarantined[r]
    /\ faults = 0 /\ Alone(r) =>
          /\ pc[r] # "after" => guard[r].cumulative = own[r]
          /\ pc[r] = "apply" => realized[Wallet[r]] = before[r]
          /\ pc[r] = "after" => realized[Wallet[r]] - before[r] = own[r] - guard[r].cumulative

BooksTyped ==
    /\ own \in [Records -> Int] /\ before \in [Records -> Int]
    /\ realized \in [Wallets -> Int] /\ quarantined \in [Records -> BOOLEAN]
    /\ resumed \subseteq Records /\ faults \in Nat

BooksBalance == BooksTyped /\ \A r \in Records : Booked(r)

WiringTyped ==
    /\ instances \in [Ids -> Records \union {NoRecord}] /\ created \subseteq Records
    /\ trades \in [Records -> 0..MaxTrades]
    /\ \A r \in Records : pc[r] \in {"before", "apply"} => trades[r] > 0
    /\ address \subseteq Records /\ tripping \subseteq Records
    /\ subscribed \in BOOLEAN /\ tickTimer \in BOOLEAN
    /\ timers \in Nat /\ listeners \in Nat
    /\ tickTimer => timers > 0
    /\ ticks \in Nat /\ starts \in Nat /\ pauses \in Nat

RuntimeInv == QueuesInOrder /\ WindowsHold /\ BooksBalance /\ WiringTyped

-----------------------------------------------------------------------------
(* The definitions are local to their arguments.                           *)
LEMMA TaskFacts ==
    ASSUME NEW s \in 0..MaxSignals, NEW h \in HookNames, NEW d \in Deregs \union {NoRecord}
    PROVE  /\ Task(h, s, d) \in TaskType
           /\ Task(h, s, d).hook = h /\ Task(h, s, d).sig = s
  BY DEF Task, TaskType

LEMMA ElementOf == ASSUME NEW S, NEW s \in Seq(S), NEW k \in DOMAIN s PROVE s[k] \in S
  OBVIOUS

(* What happens to a queue: its head ends, ...                             *)
LEMMA OrderedTail ==
    ASSUME NEW q, NEW p, NEW sub, NEW n \in Nat, Ordered(q, p, sub, n), p # "idle"
    PROVE  Ordered(Tail(q), "idle", sub, n)
<1>1. /\ q \in Seq(TaskType) /\ q # <<>> /\ sub \in Seq(1..MaxSignals)
      /\ "idle" \in Awaits /\ "idle" \notin PastSubmit
  BY DEF Ordered, Awaits, PastSubmit
<1>2. /\ Tail(q) \in Seq(TaskType) /\ Len(Tail(q)) = Len(q) - 1
      /\ \A j \in DOMAIN Tail(q) : j + 1 \in DOMAIN q /\ j + 1 # 1 /\ Tail(q)[j] = q[j + 1]
      /\ DOMAIN Tail(q) \subseteq Nat
  BY <1>1
<1> DEFINE u == Tail(q)
<1> HIDE DEF u
<1>3. \A j \in DOMAIN u : IsSignal(u[j]) => u[j].sig \in 1..n
  BY <1>2 DEF Ordered, u
<1>4. \A j, k \in DOMAIN u : j < k /\ IsSignal(u[j]) /\ IsSignal(u[k]) => u[j].sig < u[k].sig
  <2> SUFFICES ASSUME NEW j \in DOMAIN u, NEW k \in DOMAIN u, j < k, IsSignal(u[j]), IsSignal(u[k])
               PROVE  u[j].sig < u[k].sig
    OBVIOUS
  <2>1. j + 1 \in DOMAIN q /\ k + 1 \in DOMAIN q /\ j + 1 < k + 1
    BY <1>2 DEF u
  <2> QED
    BY <1>2, <2>1 DEF Ordered, u
<1>5. \A k \in DOMAIN sub : \A j \in DOMAIN u : IsSignal(u[j]) => sub[k] < u[j].sig
  BY <1>2 DEF Ordered, u
<1> QED
  BY <1>1, <1>2, <1>3, <1>4, <1>5 DEF Ordered, u

(* ... tasks that are no signals are chained behind it, ...                *)
LEMMA OrderedEnqueue ==
    ASSUME NEW q, NEW p, NEW sub, NEW n \in Nat, Ordered(q, p, sub, n),
           NEW t \in Seq(TaskType), \A j \in DOMAIN t : ~IsSignal(t[j])
    PROVE  Ordered(q \o t, p, sub, n)
<1>1. q \in Seq(TaskType) /\ sub \in Seq(1..MaxSignals) /\ p \in Awaits
  BY DEF Ordered
<1> DEFINE u == q \o t
<1>2. /\ u \in Seq(TaskType) /\ (q # <<>> => u # <<>> /\ u[1] = q[1])
      /\ \A j \in DOMAIN u : j \in Nat /\ (IsSignal(u[j]) => j \in DOMAIN q /\ u[j] = q[j])
  <2>1. u \in Seq(TaskType) /\ Len(u) = Len(q) + Len(t)
    BY <1>1
  <2>2. \A j \in DOMAIN u : IF j <= Len(q) THEN j \in DOMAIN q /\ u[j] = q[j]
                            ELSE j - Len(q) \in DOMAIN t /\ u[j] = t[j - Len(q)]
    BY <1>1, <2>1
  <2>3. q # <<>> => Len(q) > 0 /\ 1 \in DOMAIN u /\ u # <<>>
    BY <1>1, <2>1
  <2> QED
    BY <2>1, <2>2, <2>3
<1> HIDE DEF u
<1>3. \A j, k \in DOMAIN u : j < k /\ IsSignal(u[j]) /\ IsSignal(u[k]) => u[j].sig < u[k].sig
  BY <1>2 DEF Ordered
<1>4. \A k \in DOMAIN sub : \A j \in DOMAIN u :
         IsSignal(u[j]) => sub[k] < u[j].sig \/ (j = 1 /\ p \in PastSubmit /\ sub[k] = u[j].sig)
  BY <1>2 DEF Ordered
<1>5. \A j \in DOMAIN u : IsSignal(u[j]) => u[j].sig \in 1..n
  BY <1>2 DEF Ordered
<1>6. (p # "idle" => u # <<>>) /\ (p \notin {"idle", "hook"} => IsSignal(u[1]))
  BY <1>2 DEF Ordered
<1> QED
  BY <1>1, <1>2, <1>3, <1>4, <1>5, <1>6 DEF Ordered, u

(* ... the next signal is, ...                                             *)
LEMMA OrderedSignal ==
    ASSUME NEW q, NEW p, NEW sub, NEW n \in 0..MaxSignals, n < MaxSignals, Ordered(q, p, sub, n)
    PROVE  /\ Ordered(q, p, sub, n + 1)
           /\ Ordered(q \o <<Task("onSignal", n + 1, NoRecord)>>, p, sub, n + 1)
<1>1. q \in Seq(TaskType) /\ sub \in Seq(1..MaxSignals) /\ p \in Awaits
  BY DEF Ordered
<1>0. MaxSignals \in Nat /\ n \in Nat /\ n + 1 \in 1..MaxSignals
  BY RuntimeAssumption
<1> DEFINE t == Task("onSignal", n + 1, NoRecord)
           u == Append(q, t)
<1>2. t \in TaskType /\ IsSignal(t) /\ t.sig = n + 1
  BY <1>0, TaskFacts DEF HookNames, IsSignal
<1> HIDE DEF t
<1>3. /\ u \in Seq(TaskType) /\ u # <<>> /\ (q # <<>> => u[1] = q[1])
      /\ \A j \in DOMAIN u : (j \in DOMAIN q /\ u[j] = q[j] /\ j < Len(u)) \/ (j = Len(u) /\ u[j] = t)
  <2>1. /\ u \in Seq(TaskType) /\ Len(u) = Len(q) + 1 /\ u[Len(u)] = t
        /\ \A j \in 1..Len(q) : u[j] = q[j]
    BY <1>1, <1>2
  <2>2. DOMAIN q = 1..Len(q) /\ DOMAIN u = 1..Len(u) /\ Len(q) \in Nat
    BY <1>1, <2>1
  <2> HIDE DEF u
  <2>3. q # <<>> => 1 \in 1..Len(q)
    BY <1>1
  <2>4. u # <<>>
    BY <2>1, <2>2
  <2>5. \A j \in 1..Len(u) : (j \in 1..Len(q) /\ j < Len(u)) \/ j = Len(u)
    BY <2>1, <2>2
  <2>6. \A j \in 1..Len(q) : j < Len(u) /\ Len(u) \in Nat /\ j \in Nat
    BY <2>1, <2>2
  <2>7. q # <<>> => u[1] = q[1]
    BY <2>1, <2>3
  <2>8. \A j \in DOMAIN u : (j \in DOMAIN q /\ u[j] = q[j] /\ j < Len(u)) \/ (j = Len(u) /\ u[j] = t)
    <3> SUFFICES ASSUME NEW j \in 1..Len(u), j # Len(u)
                 PROVE  j \in DOMAIN q /\ u[j] = q[j] /\ j < Len(u)
      BY <2>1, <2>2
    <3> QED
      BY <2>1, <2>2, <2>5
  <2> QED
    BY <2>1, <2>2, <2>4, <2>6, <2>7, <2>8
<1>4. q \o <<t>> = u
  BY <1>1, <1>2
<1> HIDE DEF u
<1>5. Ordered(q, p, sub, n + 1)
  <2>1. \A j \in DOMAIN q : IsSignal(q[j]) => q[j].sig \in 1..(n + 1)
    BY <1>0 DEF Ordered
  <2>2. \A k \in DOMAIN sub : sub[k] <= n + 1
    BY <1>0, <1>1 DEF Ordered
  <2> QED
    BY <2>1, <2>2 DEF Ordered
<1>6. \A j \in DOMAIN q : IsSignal(q[j]) => q[j].sig \in 1..n
  BY DEF Ordered
<1>7. \A j \in DOMAIN u : IsSignal(u[j]) => u[j].sig \in 1..(n + 1)
  BY <1>0, <1>2, <1>3, <1>6
<1>8. \A j, k \in DOMAIN u : j < k /\ IsSignal(u[j]) /\ IsSignal(u[k]) => u[j].sig < u[k].sig
  <2> SUFFICES ASSUME NEW j \in DOMAIN u, NEW k \in DOMAIN u, j < k, IsSignal(u[j]), IsSignal(u[k])
               PROVE  u[j].sig < u[k].sig
    OBVIOUS
  <2>0. Len(u) \in Nat /\ k <= Len(u)
    BY <1>3
  <2>1. j \in DOMAIN q /\ u[j] = q[j]
    BY <1>3, <2>0
  <2>2. CASE k = Len(u) /\ u[k] = t
    BY <1>0, <1>2, <1>6, <2>1, <2>2
  <2>3. CASE k \in DOMAIN q /\ u[k] = q[k]
    BY <2>1, <2>3 DEF Ordered
  <2> QED
    BY <1>3, <2>2, <2>3
<1>9. \A k \in DOMAIN sub : \A j \in DOMAIN u :
         IsSignal(u[j]) => sub[k] < u[j].sig \/ (j = 1 /\ p \in PastSubmit /\ sub[k] = u[j].sig)
  <2> SUFFICES ASSUME NEW k \in DOMAIN sub, NEW j \in DOMAIN u, IsSignal(u[j])
               PROVE  sub[k] < u[j].sig \/ (j = 1 /\ p \in PastSubmit /\ sub[k] = u[j].sig)
    OBVIOUS
  <2>1. CASE u[j] = t
    <3>1. sub[k] <= n
      BY DEF Ordered
    <3>2. sub[k] \in 1..MaxSignals
      BY <1>1, ElementOf, Zenon
    <3> QED
      BY <1>0, <1>2, <2>1, <3>1, <3>2
  <2>2. CASE j \in DOMAIN q /\ u[j] = q[j]
    BY <2>2 DEF Ordered
  <2> QED
    BY <1>3, <2>1, <2>2
<1>10. p \notin {"idle", "hook"} => IsSignal(u[1])
  BY <1>3 DEF Ordered
<1> QED
  BY <1>1, <1>3, <1>4, <1>5, <1>7, <1>8, <1>9, <1>10, SMTT(30) DEF Ordered, t

(* ... its head gets on, ...                                               *)
LEMMA OrderedMoves ==
    ASSUME NEW q, NEW p, NEW sub, NEW n \in Nat, Ordered(q, p, sub, n), NEW a \in Awaits,
           p \in PastSubmit <=> a \in PastSubmit, q # <<>>, a # "hook" => IsSignal(q[1])
    PROVE  Ordered(q, a, sub, n)
  BY DEF Ordered

(* ... or submits.                                                         *)
LEMMA OrderedSubmits ==
    ASSUME NEW q, NEW p, NEW sub, NEW n \in 0..MaxSignals, Ordered(q, p, sub, n),
           p \notin PastSubmit, q # <<>>, IsSignal(q[1])
    PROVE  Ordered(q, "submit", Append(sub, q[1].sig), n)
<1>1. q \in Seq(TaskType) /\ sub \in Seq(1..MaxSignals) /\ "submit" \in Awaits
      /\ "submit" \in PastSubmit /\ 1 \in DOMAIN q
  BY DEF Ordered, Awaits, PastSubmit
<1> DEFINE x == q[1].sig  u == Append(sub, x)
<1>2. x \in 1..n /\ x \in 1..MaxSignals /\ x \in Nat /\ n \in Nat
  BY <1>1, RuntimeAssumption, SMTT(30) DEF Ordered
<1>3. \A k \in DOMAIN sub : sub[k] < x /\ sub[k] \in Nat
  <2>1. \A k \in DOMAIN sub : sub[k] < x
    BY <1>1 DEF Ordered
  <2>2. \A k \in DOMAIN sub : sub[k] \in 1..MaxSignals
    BY <1>1, ElementOf, Zenon
  <2> QED
    BY <2>1, <2>2
<1> HIDE DEF x
<1>4. /\ u \in Seq(1..MaxSignals)
      /\ \A k \in DOMAIN u : k \in Nat /\ k <= Len(u) /\ Len(u) \in Nat
      /\ \A k \in DOMAIN u : (k \in DOMAIN sub /\ u[k] = sub[k] /\ k < Len(u))
                             \/ (k = Len(u) /\ u[k] = x)
  BY <1>1, <1>2
<1> HIDE DEF u
<1>5. \A k \in DOMAIN u : u[k] <= n
  BY <1>2, <1>4 DEF Ordered
<1>6. \A j, k \in DOMAIN u : j < k => u[j] < u[k]
  BY <1>3, <1>4 DEF Ordered
<1>7. \A j \in DOMAIN q : IsSignal(q[j]) =>
        (j = 1 /\ q[j].sig = x) \/ (x < q[j].sig /\ q[j].sig \in Nat)
  <2>1. \A j \in DOMAIN q : j \in Nat /\ (j # 1 => 1 < j)
    BY <1>1
  <2>2. \A j \in DOMAIN q : IsSignal(q[j]) => q[j].sig \in Nat
    BY <1>2 DEF Ordered
  <2> QED
    BY <1>1, <2>1, <2>2 DEF Ordered, x
<1>8. \A k \in DOMAIN u : \A j \in DOMAIN q :
         IsSignal(q[j]) => \/ u[k] < q[j].sig
                           \/ j = 1 /\ "submit" \in PastSubmit /\ u[k] = q[j].sig
  <2> SUFFICES ASSUME NEW k \in DOMAIN u, NEW j \in DOMAIN q, IsSignal(q[j]), u[k] # x
               PROVE  u[k] < q[j].sig
    BY <1>1, <1>7
  <2>1. k \in DOMAIN sub /\ u[k] = sub[k] /\ sub[k] < x /\ sub[k] \in Nat
    BY <1>3, <1>4
  <2> QED
    BY <1>2, <1>7, <2>1
<1> QED
  BY <1>1, <1>4, <1>5, <1>6, <1>8 DEF Ordered, u, x

-----------------------------------------------------------------------------
(* The windows of the guards.                                              *)
LEMMA LeastNatural ==
    ASSUME NEW S \in SUBSET Nat, S # {}
    PROVE  \E n \in S : \A m \in S : n <= m
<1> DEFINE R == OpToRel(<, Nat)
<1>1. IsWellFoundedOn(R, Nat)
  BY NatLessThanWellFounded, Zenon
<1>2. \A m, n \in Nat : m < n => <<m, n>> \in R
  BY Zenon DEF OpToRel
<1> HIDE DEF R
<1>3. PICK n \in S : \A m \in S : ~(<<m, n>> \in R)
  BY <1>1, WFMin, Zenon
<1>4. \A m \in S : ~(m < n)
  BY <1>2, <1>3
<1> QED
  BY <1>3, <1>4

LEMMA TimesAre ==
    ASSUME NEW s, NEW t, InOrder(s, t)
    PROVE  /\ s \in Seq(0..MaxInstant) /\ Len(s) \in Nat /\ DOMAIN s = 1..Len(s)
           /\ \A k \in DOMAIN s : /\ k \in Nat /\ k >= 1 /\ s[k] \in 0..MaxInstant
                                /\ s[k] \in Nat /\ s[k] <= t
<1>1. s \in Seq(0..MaxInstant) /\ \A k \in DOMAIN s : s[k] <= t
  BY DEF InOrder
<1>2. \A k \in DOMAIN s : s[k] \in 0..MaxInstant
  BY <1>1, ElementOf, Zenon
<1>3. \A k \in DOMAIN s : s[k] \in Nat
  BY <1>2, RuntimeAssumption
<1>4. Len(s) \in Nat /\ DOMAIN s = 1..Len(s)
  BY <1>1
<1>5. \A k \in DOMAIN s : k \in Nat /\ k >= 1
  BY <1>4
<1> QED
  BY <1>1, <1>2, <1>3, <1>4, <1>5

(* The filter drops a prefix: those up to n.                               *)
LEMMA RecentFacts ==
    ASSUME instant \in 0..MaxInstant, NEW s, InOrder(s, instant), NEW w \in Nat
    PROVE  \E n \in 0..Len(s) :
              /\ Recent(s, w) = SubSeq(s, n + 1, Len(s))
              /\ \A k \in DOMAIN s : k > n <=> instant - s[k] < w
<1>1. /\ s \in Seq(0..MaxInstant) /\ Len(s) \in Nat /\ DOMAIN s = 1..Len(s)
      /\ \A k \in DOMAIN s : k \in Nat /\ k >= 1 /\ s[k] \in Nat
  BY TimesAre
<1>2. instant \in Nat
  BY RuntimeAssumption
<1> DEFINE Kept == {k \in DOMAIN s : instant - s[k] < w}
           drops(n) == \A k \in DOMAIN s : k > n <=> instant - s[k] < w
<1>3. \E n \in 0..Len(s) : drops(n)
  <2>1. CASE Kept = {}
    <3>1. \A k \in DOMAIN s : ~(k > Len(s)) /\ ~(instant - s[k] < w)
      BY <1>1, <2>1
    <3>2. Len(s) \in 0..Len(s)
      BY <1>1
    <3> QED
      BY <3>1, <3>2
  <2>2. CASE Kept # {}
    <3>1. Kept \in SUBSET Nat
      BY <1>1
    <3>2. PICK m \in Kept : \A k \in Kept : m <= k
      BY <2>2, <3>1, LeastNatural
    <3>3. m \in 1..Len(s) /\ instant - s[m] < w
      BY <1>1
    <3>4. ASSUME NEW k \in DOMAIN s, k > m - 1 PROVE instant - s[k] < w
      <4>1. s[m] <= s[k]
        <5>1. CASE k = m
          BY <1>1, <5>1
        <5>2. CASE k # m
          <6>1. m < k
            BY <1>1, <3>3, <3>4, <5>2
          <6> QED
            BY <6>1 DEF InOrder
        <5> QED
          BY <5>1, <5>2
      <4> QED
        BY <1>1, <1>2, <3>3, <4>1
    <3>5. ASSUME NEW k \in DOMAIN s, instant - s[k] < w PROVE k > m - 1
      BY <1>1, <3>2, <3>3, <3>5
    <3>6. m - 1 \in 0..Len(s) /\ drops(m - 1)
      BY <1>1, <3>3, <3>4, <3>5
    <3> QED
      BY <3>6
  <2> QED
    BY <2>1, <2>2
<1> DEFINE n == CHOOSE n \in 0..Len(s) : drops(n)
<1>4. n \in 0..Len(s) /\ drops(n)
  BY <1>3
<1>5. Recent(s, w) = SubSeq(s, n + 1, Len(s))
  BY DEF Recent
<1> HIDE DEF n
<1> QED
  BY <1>4, <1>5

(* A list of times with its old ones dropped and the present one added.    *)
LEMMA Recorded ==
    ASSUME instant \in 0..MaxInstant, NEW s, InOrder(s, instant), NEW w \in Nat
    PROVE  \E n \in 0..Len(s) : LET u == Append(Recent(s, w), instant) IN
              /\ u \in Seq(0..MaxInstant) /\ Len(u) = Len(s) - n + 1
              /\ \A j \in DOMAIN u : \/ j < Len(u) /\ j + n \in DOMAIN s /\ u[j] = s[j + n]
                                     \/ j = Len(u) /\ u[j] = instant
              /\ \A k \in DOMAIN s : k > n <=> instant - s[k] < w
<1>1. s \in Seq(0..MaxInstant) /\ Len(s) \in Nat /\ DOMAIN s = 1..Len(s)
  BY TimesAre
<1>2. PICK n \in 0..Len(s) :
         /\ Recent(s, w) = SubSeq(s, n + 1, Len(s))
         /\ \A k \in DOMAIN s : k > n <=> instant - s[k] < w
  BY RecentFacts
<1> DEFINE v == SubSeq(s, n + 1, Len(s))  u == Append(v, instant)
<1>3. /\ v \in Seq(0..MaxInstant) /\ Len(v) = Len(s) - n
      /\ \A j \in 1..Len(v) : j + n \in DOMAIN s /\ v[j] = s[j + n]
  <2>0. n \in Nat /\ n <= Len(s)
    BY <1>1
  <2>4. \A i \in (n + 1)..Len(s) : i \in DOMAIN s
    BY <1>1, <2>0
  <2>5. \A i \in (n + 1)..Len(s) : s[i] \in 0..MaxInstant
    BY <1>1, <2>4, ElementOf, Zenon
  <2>6. n + 1 \in Int /\ Len(s) \in Int
    BY <1>1, <2>0
  <2>1. /\ v \in Seq(0..MaxInstant)
        /\ Len(v) = IF n + 1 <= Len(s) THEN Len(s) - (n + 1) + 1 ELSE 0
        /\ \A j \in 1..(Len(s) - (n + 1) + 1) : v[j] = s[(n + 1) + j - 1]
    <3> DEFINE m == n + 1  last == Len(s)
    <3>1. m \in Int /\ last \in Int /\ \A i \in m..last : s[i] \in 0..MaxInstant
      BY <2>5, <2>6
    <3> HIDE DEF m, last
    <3>2. /\ SubSeq(s, m, last) \in Seq(0..MaxInstant)
          /\ Len(SubSeq(s, m, last)) = IF m <= last THEN last - m + 1 ELSE 0
          /\ \A j \in 1..(last - m + 1) : SubSeq(s, m, last)[j] = s[m + j - 1]
      BY <3>1, SubSeqProperties
    <3> QED
      BY <3>2 DEF m, last
  <2> HIDE DEF v
  <2>2. Len(v) = Len(s) - n
    <3>1. CASE n + 1 <= Len(s)
      BY <1>1, <2>0, <2>1, <3>1
    <3>2. CASE n = Len(s)
      BY <1>1, <2>0, <2>1, <3>2
    <3>0. Len(s) \in Nat
      BY <1>1
    <3>3. n + 1 <= Len(s) \/ n = Len(s)
      BY <2>0, <3>0
    <3> QED
      BY <3>1, <3>2, <3>3
  <2>3. ASSUME NEW j \in 1..Len(v) PROVE j + n \in DOMAIN s /\ v[j] = s[j + n]
    <3>1. j \in 1..(Len(s) - (n + 1) + 1) /\ j + n \in 1..Len(s) /\ (n + 1) + j - 1 = j + n
      BY <1>1, <2>0, <2>2
    <3> QED
      BY <1>1, <2>1, <3>1
  <2> QED
    BY <2>1, <2>2, <2>3
<1> HIDE DEF v
<1>4. /\ u \in Seq(0..MaxInstant) /\ Len(u) = Len(v) + 1 /\ u[Len(u)] = instant
      /\ \A j \in 1..Len(v) : u[j] = v[j]
  BY <1>3
<1> HIDE DEF u
<1>5. ASSUME NEW j \in DOMAIN u, j # Len(u)
      PROVE  j < Len(u) /\ j + n \in DOMAIN s /\ u[j] = s[j + n]
  <2>1. DOMAIN u = 1..Len(u) /\ Len(v) \in Nat
    BY <1>3, <1>4
  <2>2. j \in 1..Len(v) /\ j < Len(u)
    BY <1>4, <1>5, <2>1
  <2> QED
    BY <1>3, <1>4, <2>2
<1>6. Len(u) = Len(s) - n + 1
  BY <1>3, <1>4
<1> QED
  BY <1>2, <1>4, <1>5, <1>6 DEF u, v

LEMMA RecordedInOrder ==
    ASSUME instant \in 0..MaxInstant, NEW s, InOrder(s, instant), NEW w \in Nat
    PROVE  InOrder(Append(Recent(s, w), instant), instant)
<1> DEFINE u == Append(Recent(s, w), instant)
<1>1. PICK n \in 0..Len(s) :
         /\ u \in Seq(0..MaxInstant) /\ Len(u) = Len(s) - n + 1
         /\ \A j \in DOMAIN u : \/ j < Len(u) /\ j + n \in DOMAIN s /\ u[j] = s[j + n]
                                \/ j = Len(u) /\ u[j] = instant
  BY Recorded
<1> HIDE DEF u
<1>2. /\ \A j \in DOMAIN u : j \in Nat /\ j <= Len(u)
      /\ Len(u) \in Nat /\ n \in Nat /\ instant \in Nat
  <2>1. Len(s) \in Nat
    BY TimesAre
  <2>2. n \in Nat /\ instant \in Nat
    BY <2>1, RuntimeAssumption
  <2>3. Len(u) \in Nat /\ DOMAIN u = 1..Len(u)
    BY <1>1
  <2> QED
    BY <2>2, <2>3
<1>3. \A k \in DOMAIN s : s[k] <= instant
  BY DEF InOrder
<1>4. \A k \in DOMAIN u : u[k] <= instant
  BY <1>1, <1>2, <1>3
<1>5. ASSUME NEW j \in DOMAIN u, NEW k \in DOMAIN u, j < k PROVE u[j] <= u[k]
  <2>1. j < Len(u) /\ j + n \in DOMAIN s /\ u[j] = s[j + n]
    BY <1>1, <1>2, <1>5
  <2>2. CASE k = Len(u) /\ u[k] = instant
    BY <1>4, <2>2
  <2>3. CASE k + n \in DOMAIN s /\ u[k] = s[k + n]
    <3>1. j + n < k + n
      BY <1>2, <1>5
    <3> QED
      BY <2>1, <2>3, <3>1 DEF InOrder
  <2> QED
    BY <1>1, <2>2, <2>3
<1> QED
  BY <1>1, <1>4, <1>5 DEF InOrder, u

LEMMA LaterInOrder ==
    ASSUME NEW t \in Nat, NEW s, InOrder(s, t)
    PROVE  InOrder(s, t + 1)
  BY TimesAre DEF InOrder

LEMMA LaterRemembered ==
    ASSUME NEW t \in Nat, NEW acc, NEW dec, InOrder(acc, t), Remembered(acc, dec, t)
    PROVE  Remembered(acc, dec, t + 1)
<1>1. \A k \in DOMAIN acc : acc[k] \in Nat
  BY TimesAre
<1>2. \A k \in DOMAIN acc : (t + 1) - acc[k] < DecisionWindow => t - acc[k] < DecisionWindow
  BY <1>1, RuntimeAssumption
<1> SUFFICES ASSUME NEW k \in DOMAIN acc, (t + 1) - acc[k] < DecisionWindow
             PROVE  Len(acc) - k < Len(dec) /\ acc[k] <= dec[Len(dec) - (Len(acc) - k)]
  BY DEF Remembered
<1>3. t - acc[k] < DecisionWindow
  BY <1>2
<1> QED
  BY <1>3 DEF Remembered

(* A decision is recorded: what went through before is still remembered,   *)
(* and if there are no more than the limit it may go through as well.      *)
LEMMA DecisionRecorded ==
    ASSUME instant \in 0..MaxInstant, NEW acc, NEW dec, InOrder(acc, instant),
           InOrder(dec, instant), Remembered(acc, dec, instant), Spaced(acc),
           NEW u, u = Append(Recent(dec, DecisionWindow), instant)
    PROVE  /\ InOrder(u, instant) /\ Remembered(acc, u, instant)
           /\ Len(u) <= MaxDecisions =>
                 /\ InOrder(Append(acc, instant), instant)
                 /\ Remembered(Append(acc, instant), u, instant)
                 /\ Spaced(Append(acc, instant))
<1>0. /\ DecisionWindow \in Nat /\ instant \in Nat /\ MaxDecisions \in Nat
  BY RuntimeAssumption
<1>1. InOrder(u, instant)
  BY <1>0, RecordedInOrder
<1>2. /\ acc \in Seq(0..MaxInstant) /\ Len(acc) \in Nat /\ DOMAIN acc = 1..Len(acc)
      /\ \A k \in DOMAIN acc : k \in Nat /\ k >= 1 /\ acc[k] \in Nat /\ acc[k] <= instant
      /\ Len(dec) \in Nat /\ DOMAIN dec = 1..Len(dec)
      /\ \A k \in DOMAIN dec : k \in Nat /\ k >= 1 /\ dec[k] \in Nat /\ dec[k] <= instant
      /\ Len(u) \in Nat /\ DOMAIN u = 1..Len(u)
      /\ \A k \in DOMAIN u : u[k] \in Nat /\ u[k] <= instant
  BY <1>1, TimesAre
<1>3. PICK n \in 0..Len(dec) :
         /\ Len(u) = Len(dec) - n + 1
         /\ \A j \in DOMAIN u : \/ j < Len(u) /\ j + n \in DOMAIN dec /\ u[j] = dec[j + n]
                                \/ j = Len(u) /\ u[j] = instant
         /\ \A k \in DOMAIN dec : k > n <=> instant - dec[k] < DecisionWindow
  BY <1>0, Recorded, SMTT(30)
<1>4. n \in Nat /\ n <= Len(dec)
  BY <1>2, <1>3
<1> DEFINE at(k) == Len(dec) - (Len(acc) - k)
           mine(k) == k \in DOMAIN acc /\ instant - acc[k] < DecisionWindow
<1>5. ASSUME NEW k, mine(k)
      PROVE  /\ at(k) \in Nat /\ n < at(k) /\ at(k) <= Len(dec) /\ at(k) \in DOMAIN dec
             /\ acc[k] <= dec[at(k)]
  <2>1. k \in 1..Len(acc) /\ Len(acc) - k < Len(dec) /\ acc[k] <= dec[at(k)]
    BY <1>2, <1>5 DEF Remembered
  <2>2. at(k) \in Nat /\ at(k) >= 1 /\ at(k) <= Len(dec)
    BY <1>2, <2>1
  <2> HIDE DEF at
  <2>3. at(k) \in DOMAIN dec
    BY <1>2, <2>2
  <2>4. instant - dec[at(k)] < DecisionWindow
    BY <1>0, <1>2, <1>5, <2>1, <2>3
  <2> QED
    BY <1>3, <2>1, <2>2, <2>3, <2>4
<1>6. ASSUME NEW k, mine(k)
      PROVE  /\ at(k) - n \in DOMAIN u /\ u[at(k) - n] = dec[at(k)]
             /\ at(k) - n + 1 \in DOMAIN u
  <2>1. at(k) \in Nat /\ n < at(k) /\ at(k) <= Len(dec)
    BY <1>5, <1>6
  <2> HIDE DEF at, mine
  <2> DEFINE j == at(k) - n
  <2>2. j \in 1..Len(u) /\ j + 1 \in 1..Len(u) /\ j # Len(u) /\ j + n = at(k)
    BY <1>2, <1>3, <1>4, <2>1
  <2> HIDE DEF j
  <2>3. u[j] = dec[j + n]
    BY <1>2, <1>3, <2>2
  <2> QED
    BY <1>2, <2>2, <2>3 DEF j
<1>7. Remembered(acc, u, instant)
  <2> SUFFICES ASSUME NEW k \in DOMAIN acc, instant - acc[k] < DecisionWindow
               PROVE  Len(acc) - k < Len(u) /\ acc[k] <= u[Len(u) - (Len(acc) - k)]
    BY DEF Remembered
  <2>1. mine(k)
    OBVIOUS
  <2>2. Len(u) - (Len(acc) - k) = at(k) - n + 1
    BY <1>2, <1>3, <1>4
  <2>6. at(k) \in Nat /\ at(k) \in DOMAIN dec /\ acc[k] <= dec[at(k)]
    BY <1>5, <2>1
  <2>7. at(k) - n + 1 \in DOMAIN u /\ at(k) - n \in DOMAIN u /\ u[at(k) - n] = dec[at(k)]
    BY <1>6, <2>1
  <2>8. dec[at(k)] \in Nat
    BY <1>2, <2>6
  <2>9. at(k) - n < at(k) - n + 1
    BY <1>4, <2>6
  <2>3. at(k) - n + 1 \in DOMAIN u /\ at(k) - n \in DOMAIN u /\ at(k) - n < at(k) - n + 1
        /\ u[at(k) - n] = dec[at(k)] /\ acc[k] <= dec[at(k)] /\ dec[at(k)] \in Nat
    BY <2>6, <2>7, <2>8, <2>9
  <2>4. Len(acc) - k < Len(u)
    BY <1>2, <1>3, <1>4, <2>2, <2>3, SMTT(30)
  <2>5. u[at(k) - n] <= u[at(k) - n + 1]
    BY <1>1, <2>3 DEF InOrder
  <2> HIDE DEF at, mine
  <2>10. acc[k] <= u[at(k) - n + 1]
    BY <1>2, <2>3, <2>5, SMTT(30)
  <2> QED
    BY <2>2, <2>4, <2>10
<1>8. ASSUME Len(u) <= MaxDecisions
      PROVE  /\ InOrder(Append(acc, instant), instant)
             /\ Remembered(Append(acc, instant), u, instant)
             /\ Spaced(Append(acc, instant))
  <2> DEFINE a == Append(acc, instant)
  <2>1. /\ a \in Seq(0..MaxInstant) /\ Len(a) = Len(acc) + 1 /\ DOMAIN a = 1..Len(a)
        /\ a[Len(a)] = instant /\ \A k \in 1..Len(acc) : a[k] = acc[k]
    BY <1>2
  <2> HIDE DEF a
  <2>2. \A k \in DOMAIN a : k \in Nat /\ (k = Len(a) \/ (k \in DOMAIN acc /\ k < Len(a)))
    BY <1>2, <2>1
  <2>3. InOrder(a, instant)
    <3>1. \A k \in DOMAIN a : a[k] <= instant
      BY <1>0, <1>2, <2>1, <2>2
    <3>2. ASSUME NEW j \in DOMAIN a, NEW k \in DOMAIN a, j < k PROVE a[j] <= a[k]
      <4>1. j \in DOMAIN acc /\ a[j] = acc[j] /\ acc[j] <= instant
        BY <1>2, <2>1, <2>2, <3>2
      <4>2. CASE k = Len(a)
        BY <2>1, <4>1, <4>2
      <4>3. CASE k \in DOMAIN acc
        <5>1. acc[j] <= acc[k]
          BY <3>2, <4>1, <4>3 DEF InOrder
        <5> QED
          BY <1>2, <2>1, <4>1, <4>3, <5>1
      <4> QED
        BY <2>2, <4>2, <4>3
    <3> QED
      BY <2>1, <3>1, <3>2 DEF InOrder
  <2>4. Remembered(a, u, instant)
    <3> SUFFICES ASSUME NEW k \in DOMAIN a, instant - a[k] < DecisionWindow
                 PROVE  Len(a) - k < Len(u) /\ a[k] <= u[Len(u) - (Len(a) - k)]
      BY DEF Remembered
    <3>1. CASE k = Len(a)
      <4>1. Len(u) >= 1 /\ Len(u) \in DOMAIN u
        BY <1>2, <1>3, <1>4
      <4>2. u[Len(u)] = instant
        BY <1>2, <1>3, <4>1
      <4>3. Len(a) - k = 0 /\ Len(u) - 0 = Len(u)
        BY <1>2, <2>1, <3>1
      <4> QED
        BY <1>0, <1>2, <2>1, <3>1, <4>1, <4>2, <4>3
    <3>2. CASE k \in DOMAIN acc
      <4>1. a[k] = acc[k] /\ mine(k)
        BY <1>2, <2>1, <3>2
      <4>2. at(k) - n \in DOMAIN u /\ u[at(k) - n] = dec[at(k)] /\ acc[k] <= dec[at(k)]
        BY <1>5, <1>6, <4>1
      <4>3. Len(u) - (Len(a) - k) = at(k) - n
        BY <1>2, <1>3, <1>4, <2>1, <3>2
      <4>4. Len(a) - k < Len(u)
        BY <1>2, <1>3, <1>4, <2>1, <3>2, <4>2, <4>3, SMTT(30)
      <4> QED
        BY <4>1, <4>2, <4>3, <4>4
    <3> QED
      BY <2>2, <3>1, <3>2
  <2>5. Spaced(a)
    <3> SUFFICES ASSUME NEW k \in DOMAIN a, k + MaxDecisions \in DOMAIN a
                 PROVE  a[k + MaxDecisions] - a[k] >= DecisionWindow
      BY DEF Spaced
    <3>0. Len(u) >= 1
      BY <1>2, <1>3, <1>4
    <3>1. k < k + MaxDecisions /\ k \in DOMAIN acc /\ a[k] = acc[k] /\ k \in Nat
      BY <1>0, <1>2, <1>8, <2>1, <2>2, <3>0
    <3>2. CASE k + MaxDecisions \in DOMAIN acc
      <4>1. a[k + MaxDecisions] = acc[k + MaxDecisions]
        BY <1>2, <2>1, <3>2
      <4> QED
        BY <3>1, <3>2, <4>1 DEF Spaced
    <3>3. CASE k + MaxDecisions = Len(a)
      <4>1. ASSUME instant - acc[k] < DecisionWindow PROVE FALSE
        <5>1. mine(k)
          BY <3>1, <4>1
        <5>2. n < at(k) /\ at(k) \in Nat
          BY <1>5, <5>1
        <5>3. Len(acc) - k = MaxDecisions - 1
          BY <1>0, <1>2, <2>1, <3>1, <3>3
        <5> QED
          BY <1>0, <1>2, <1>3, <1>4, <1>8, <5>2, <5>3
      <4>2. instant - acc[k] >= DecisionWindow
        BY <1>0, <1>2, <3>1, <4>1
      <4> QED
        BY <2>1, <3>1, <3>3, <4>2
    <3> QED
      BY <2>2, <3>2, <3>3
  <2> QED
    BY <2>3, <2>4, <2>5 DEF a
<1> QED
  BY <1>1, <1>7, <1>8

-----------------------------------------------------------------------------
(* What the listeners add to a queue is no signal.                         *)
Plain(t) == t \in Seq(TaskType) /\ \A j \in DOMAIN t : ~IsSignal(t[j])

LEMMA CopiesArePlain ==
    ASSUME NEW n \in Nat, NEW t, Plain(t)
    PROVE  Plain(Copies(n, t))
<1>1. t \in Seq(TaskType) /\ Len(t) \in Nat /\ DOMAIN t = 1..Len(t)
  BY DEF Plain
<1> DEFINE l == Len(t)
<1>2. l \in Nat /\ n * l \in Nat
  BY <1>1
<1>3. CASE l = 0
  <2>1. n * l = 0
    BY <1>3
  <2>2. Copies(n, t) = [k \in 1..0 |-> t[((k - 1) % l) + 1]]
    BY <2>1 DEF Copies
  <2> QED
    BY <2>2 DEF Plain
<1>4. CASE l > 0
  <2>1. \A k \in 1..(n * l) : ((k - 1) % l) + 1 \in 1..l
    BY <1>2, <1>4
  <2> DEFINE c == Copies(n, t)
  <2>2. c = [k \in 1..(n * l) |-> t[((k - 1) % l) + 1]]
    BY DEF Copies
  <2>3. \A k \in 1..(n * l) : t[((k - 1) % l) + 1] \in TaskType /\ ~IsSignal(t[((k - 1) % l) + 1])
    BY <1>1, <2>1, ElementOf DEF Plain
  <2> HIDE DEF l, c
  <2>4. c \in [1..(n * l) -> TaskType]
    BY <2>2, <2>3
  <2>5. c \in Seq(TaskType)
    BY <1>2, <2>4
  <2> QED
    BY <2>2, <2>3, <2>5 DEF Plain, c
<1> QED
  BY <1>2, <1>3, <1>4

LEMMA WantedIsPlain ==
    ASSUME NEW r \in Records, NEW h \in HookNames \ {"onSignal"}
    PROVE  Plain(Wanted(r, Task(h, 0, NoRecord)))
<1> DEFINE t == Task(h, 0, NoRecord)
<1>1. t \in TaskType /\ ~IsSignal(t)
  BY RuntimeAssumption, TaskFacts DEF IsSignal
<1> HIDE DEF t
<1>2. Plain(<<>>) /\ Plain(<<t>>)
  BY <1>1 DEF Plain
<1> QED
  BY <1>2 DEF Wanted, t

LEMMA PlainTogether ==
    ASSUME NEW s, Plain(s), NEW t, Plain(t)
    PROVE  Plain(s \o t)
<1>1. s \in Seq(TaskType) /\ t \in Seq(TaskType)
  BY DEF Plain
<1>2. s \o t \in Seq(TaskType) /\ Len(s \o t) = Len(s) + Len(t) /\ Len(s) \in Nat /\ Len(t) \in Nat
  BY <1>1
<1> DEFINE u == s \o t
<1>3. ASSUME NEW j \in DOMAIN u PROVE ~IsSignal(u[j])
  <2>1. CASE j <= Len(s)
    <3>1. j \in DOMAIN s /\ u[j] = s[j]
      BY <1>1, <1>2, <2>1
    <3> QED
      BY <3>1 DEF Plain
  <2>2. CASE j > Len(s)
    <3>1. j - Len(s) \in DOMAIN t /\ u[j] = t[j - Len(s)]
      BY <1>1, <1>2, <2>2
    <3> QED
      BY <3>1 DEF Plain
  <2> QED
    BY <1>1, <1>2, <2>1, <2>2
<1> QED
  BY <1>2, <1>3 DEF Plain

(* The queues after an emission: each has something plain behind it.       *)
LEMMA ResultsArePlain ==
    ASSUME listeners \in Nat
    PROVE  \E e \in [Records -> Seq(TaskType)] :
              /\ dispatchExecutionResult = [r \in Records |-> queue[r] \o e[r]]
              /\ \A r \in Records : Plain(e[r])
<1> DEFINE e == [r \in Records |->
                  Copies(listeners, Wanted(r, Task("onExecutionResult", 0, NoRecord)))]
<1>1. \A r \in Records : Plain(e[r])
  BY WantedIsPlain, CopiesArePlain DEF HookNames
<1>2. e \in [Records -> Seq(TaskType)]
  BY <1>1 DEF Plain
<1>3. dispatchExecutionResult = [r \in Records |-> queue[r] \o e[r]]
  BY DEF dispatchExecutionResult, enqueue
<1> QED
  BY <1>1, <1>2, <1>3

LEMMA ChangesArePlain ==
    ASSUME listeners \in Nat, NEW w, NEW moved \in BOOLEAN
    PROVE  \E e \in [Records -> Seq(TaskType)] :
              /\ dispatchPositionChange(w, moved) = [r \in Records |-> queue[r] \o e[r]]
              /\ \A r \in Records : Plain(e[r])
<1> DEFINE wants(r) == Wanted(r, Task("onPositionChange", 0, NoRecord)) \o
              (IF moved /\ r \in address /\ Wallet[r] = w
                 THEN Wanted(r, Task("onBalanceChange", 0, NoRecord)) ELSE <<>>)
           e == [r \in Records |-> Copies(listeners, wants(r))]
<1>0. Plain(<<>>)
  BY DEF Plain
<1>1. ASSUME NEW r \in Records PROVE Plain(wants(r))
  <2>1. /\ Plain(Wanted(r, Task("onPositionChange", 0, NoRecord)))
        /\ Plain(Wanted(r, Task("onBalanceChange", 0, NoRecord)))
    BY WantedIsPlain DEF HookNames
  <2> QED
    BY <1>0, <2>1, PlainTogether
<1> HIDE DEF wants
<1>2. \A r \in Records : Plain(e[r])
  BY <1>1, CopiesArePlain
<1>3. e \in [Records -> Seq(TaskType)]
  BY <1>2 DEF Plain
<1>4. dispatchPositionChange(w, moved) = [r \in Records |-> queue[r] \o e[r]]
  BY DEF dispatchPositionChange, enqueue, wants
<1> QED
  BY <1>2, <1>3, <1>4

-----------------------------------------------------------------------------
(* The queues stay in order: what the actions do to them.                  *)
DeregType == [rec : Records \union {NoRecord},
              pc : {"idle", "barrier", "drained", "shutdown", "flushed", "done"}]

Waits(q) ==
    /\ q \in [Records -> Seq(TaskType)]
    /\ \A x \in Records : Ordered(q[x], pc[x], submitted[x], signals)

LEMMA QueuesWait ==
    ASSUME QueuesInOrder
    PROVE  Waits(queue) /\ signals \in Nat /\ dereg \in [Deregs -> DeregType]
  BY RuntimeAssumption DEF QueuesInOrder, Waits, DeregType

LEMMA QueuesGrow ==
    ASSUME QueuesInOrder, NEW e \in [Records -> Seq(TaskType)], \A x \in Records : Plain(e[x])
    PROVE  Waits([x \in Records |-> queue[x] \o e[x]])
<1>1. \A x \in Records : Ordered(queue[x], pc[x], submitted[x], signals) /\ signals \in Nat
  BY QueuesWait DEF Waits
<1>2. \A x \in Records : Ordered(queue[x] \o e[x], pc[x], submitted[x], signals)
  BY <1>1, OrderedEnqueue DEF Plain
<1>3. \A x \in Records : queue[x] \o e[x] \in Seq(TaskType)
  BY <1>2 DEF Ordered
<1> QED
  BY <1>2, <1>3 DEF Waits

(* A task awaits something else, ...                                       *)
LEMMA QueuesAfterMove ==
    ASSUME QueuesInOrder, NEW q, Waits(q), queue' = q, NEW r \in Records, NEW a \in Awaits,
           pc' = [pc EXCEPT ![r] = a], q[r] # <<>>, pc[r] \in PastSubmit <=> a \in PastSubmit,
           a # "hook" => IsSignal(q[r][1]), UNCHANGED <<submitted, signals, dereg>>
    PROVE  QueuesInOrder'
<1>1. ASSUME NEW x \in Records PROVE Ordered(queue'[x], pc'[x], submitted'[x], signals')
  <2>0. Ordered(q[x], pc[x], submitted[x], signals) /\ signals \in Nat /\ pc \in [Records -> Awaits]
    BY QueuesWait DEF Waits, QueuesInOrder
  <2>1. CASE x = r
    BY <2>0, <2>1, OrderedMoves
  <2>2. CASE x # r
    BY <2>0, <2>2
  <2> QED
    BY <2>1, <2>2
<1> QED
  BY <1>1 DEF QueuesInOrder, Waits

(* ... submits, ...                                                        *)
LEMMA QueuesAfterSubmit ==
    ASSUME QueuesInOrder, NEW r \in Records, pc[r] \in {"hook", "address"}, IsSignal(queue[r][1]),
           pc' = [pc EXCEPT ![r] = "submit"],
           submitted' = [submitted EXCEPT ![r] = Append(@, queue[r][1].sig)],
           UNCHANGED <<queue, signals, dereg>>
    PROVE  QueuesInOrder'
<1>0. /\ submitted \in [Records -> Seq(1..MaxSignals)] /\ pc \in [Records -> Awaits]
      /\ signals \in 0..MaxSignals /\ \A x \in Records : Ordered(queue[x], pc[x], submitted[x], signals)
  BY DEF QueuesInOrder
<1>1. queue[r] # <<>> /\ pc[r] \notin PastSubmit
  BY <1>0 DEF Ordered, PastSubmit
<1>2. Ordered(queue[r], "submit", Append(submitted[r], queue[r][1].sig), signals)
  BY <1>0, <1>1, OrderedSubmits
<1>3. "submit" \in Awaits /\ Append(submitted[r], queue[r][1].sig) \in Seq(1..MaxSignals)
  BY <1>2 DEF Ordered
<1>4. \A x \in Records : Ordered(queue'[x], pc'[x], submitted'[x], signals')
  BY <1>0, <1>2
<1>5. pc' \in [Records -> Awaits] /\ submitted' \in [Records -> Seq(1..MaxSignals)]
  BY <1>0, <1>3
<1> QED
  BY <1>4, <1>5 DEF QueuesInOrder

(* ... or ends, ...                                                        *)
LEMMA QueuesAfterEnd ==
    ASSUME QueuesInOrder, NEW q, Waits(q), NEW r \in Records, pc[r] # "idle", EndTask(r, q),
           UNCHANGED <<submitted, signals>>
    PROVE  QueuesInOrder'
<1>0. signals \in Nat /\ pc \in [Records -> Awaits] /\ q \in [Records -> Seq(TaskType)]
  BY QueuesWait DEF QueuesInOrder, Waits
<1>1. Ordered(Tail(q[r]), "idle", submitted[r], signals)
  BY <1>0, OrderedTail DEF Waits
<1>2. Tail(q[r]) \in Seq(TaskType) /\ "idle" \in Awaits
  BY <1>1 DEF Ordered
<1>3. queue' = [q EXCEPT ![r] = Tail(q[r])] /\ pc' = [pc EXCEPT ![r] = "idle"]
  BY DEF EndTask
<1>4. queue' \in [Records -> Seq(TaskType)] /\ pc' \in [Records -> Awaits]
  BY <1>0, <1>2, <1>3
<1>5. \A x \in Records : Ordered(queue'[x], pc'[x], submitted'[x], signals')
  BY <1>0, <1>1, <1>3 DEF Waits
<1>6. dereg' \in [Deregs -> DeregType]
  BY QueuesWait DEF EndTask, DeregType
<1> QED
  BY <1>4, <1>5, <1>6 DEF QueuesInOrder, DeregType

(* ... a task that is no signal is added, ...                              *)
LEMMA QueuesAfterAdd ==
    ASSUME QueuesInOrder, NEW r, NEW h \in HookNames \ {"onSignal"},
           NEW d \in Deregs \union {NoRecord},
           queue' = [queue EXCEPT ![r] = @ \o <<Task(h, 0, d)>>], dereg' \in [Deregs -> DeregType],
           UNCHANGED <<pc, submitted, signals>>
    PROVE  QueuesInOrder'
<1> DEFINE t == Task(h, 0, d)
<1>1. t \in TaskType /\ ~IsSignal(t)
  BY RuntimeAssumption, TaskFacts DEF IsSignal
<1> HIDE DEF t
<1>2. Plain(<<t>>) /\ Plain(<<>>)
  BY <1>1 DEF Plain
<1> DEFINE e == [x \in Records |-> IF x = r THEN <<t>> ELSE <<>>]
<1>3. e \in [Records -> Seq(TaskType)] /\ \A x \in Records : Plain(e[x])
  BY <1>2 DEF Plain
<1>4. Waits([x \in Records |-> queue[x] \o e[x]])
  BY <1>3, QueuesGrow
<1>5. queue' = [x \in Records |-> queue[x] \o e[x]]
  <2>1. queue \in [Records -> Seq(TaskType)]
    BY QueuesWait DEF Waits
  <2>2. \A x \in Records : queue[x] \o <<>> = queue[x]
    BY <2>1
  <2> QED
    BY <2>1, <2>2 DEF t
<1> QED
  BY <1>4, <1>5 DEF QueuesInOrder, Waits, DeregType

(* ... each gets something that is no signal, ...                          *)
LEMMA QueuesAfterEmit ==
    ASSUME QueuesInOrder, NEW q, Waits(q), queue' = q, UNCHANGED <<pc, submitted, signals, dereg>>
    PROVE  QueuesInOrder'
  BY DEF QueuesInOrder, Waits

(* ... or a signal is dispatched.                                          *)
LEMMA QueuesAfterSignal ==
    ASSUME QueuesInOrder, DispatchSignal
    PROVE  QueuesInOrder'
<1>0. signals \in 0..MaxSignals /\ \A x \in Records : Ordered(queue[x], pc[x], submitted[x], signals)
  BY DEF QueuesInOrder
<1>1. signals < MaxSignals /\ signals' = signals + 1 /\ UNCHANGED <<pc, submitted, dereg>>
  BY DEF DispatchSignal, recordVars, historyVars
<1> DEFINE more(x) == queue[x] \o <<Task("onSignal", signals + 1, NoRecord)>>
<1>2. \A x \in Records : Ordered(queue[x], pc[x], submitted[x], signals + 1)
                         /\ Ordered(more(x), pc[x], submitted[x], signals + 1)
  BY <1>0, <1>1, OrderedSignal
<1>3. \A x \in Records : queue[x] \in Seq(TaskType) /\ more(x) \in Seq(TaskType)
  BY <1>2 DEF Ordered
<1>4. queue' = [x \in Records |-> IF Registered(x) /\ ~quarantined[x] /\ signals + 1 \in Matches[x]
                                    THEN more(x) ELSE queue[x]]
  BY DEF DispatchSignal, enqueue
<1> HIDE DEF more
<1>5. \A x \in Records : Ordered(queue'[x], pc'[x], submitted'[x], signals')
  BY <1>1, <1>2, <1>4
<1>6. queue' \in [Records -> Seq(TaskType)]
  BY <1>3, <1>4
<1>7. signals' \in 0..MaxSignals
  BY <1>0, <1>1, RuntimeAssumption
<1> QED
  BY <1>1, <1>5, <1>6, <1>7 DEF QueuesInOrder

LEMMA QueuesStay ==
    ASSUME QueuesInOrder, UNCHANGED <<queue, pc, submitted, signals, dereg>>
    PROVE  QueuesInOrder'
  BY DEF QueuesInOrder

LEMMA QueuesStep ==
    ASSUME QueuesInOrder, listeners \in Nat, [RuntimeNext]_runtimeVars
    PROVE  QueuesInOrder'
<1>0. /\ Waits(queue) /\ signals \in Nat /\ dereg \in [Deregs -> DeregType]
      /\ pc \in [Records -> Awaits] /\ queue \in [Records -> Seq(TaskType)]
      /\ submitted \in [Records -> Seq(1..MaxSignals)]
      /\ \A r \in Records : Ordered(queue[r], pc[r], submitted[r], signals)
  BY QueuesWait DEF QueuesInOrder
<1>1. \A r \in Records : /\ pc[r] # "idle" => queue[r] # <<>>
                         /\ pc[r] \notin {"idle", "hook"} => IsSignal(queue[r][1])
  BY <1>0 DEF Ordered
<1>2. CASE UNCHANGED runtimeVars
  BY <1>2, QueuesStay DEF runtimeVars, recordVars, countVars, historyVars
<1>3. CASE Start \/ Stop \/ TimePasses
  BY <1>3, QueuesStay DEF Start, Stop, TimePasses, recordVars, countVars, historyVars
<1>4. CASE \E r \in Records : Pause(r) \/ Resume(r) \/ TripShutdownEnds(r)
  BY <1>4, QueuesStay DEF Pause, Resume, TripShutdownEnds, countVars, historyVars
<1>5. ASSUME NEW r \in Records, Register(r) PROVE QueuesInOrder'
  <2>1. CASE "onStart" \in Hooks[r]
    <3>1. /\ queue' = [queue EXCEPT ![r] = @ \o <<Task("onStart", 0, NoRecord)>>]
          /\ UNCHANGED <<pc, submitted, signals, dereg>>
      BY <1>5, <2>1 DEF Register, enqueue, countVars, historyVars
    <3> QED
      BY <1>0, <3>1, QueuesAfterAdd DEF HookNames
  <2>2. CASE "onStart" \notin Hooks[r]
    <3>1. queue' = queue /\ UNCHANGED <<pc, submitted, signals, dereg>>
      BY <1>0, <1>5, <2>2 DEF Register, countVars, historyVars
    <3> QED
      BY <3>1, QueuesStay
  <2> QED
    BY <2>1, <2>2
<1>6. ASSUME NEW d \in Deregs, NEW r \in Records, Deregister(d, r) PROVE QueuesInOrder'
  <2>1. /\ queue' = [queue EXCEPT ![r] = @ \o <<Task("barrier", 0, d)>>]
        /\ UNCHANGED <<pc, submitted, signals>>
        /\ dereg' = [dereg EXCEPT ![d] = [rec |-> r, pc |-> "barrier"]]
    BY <1>6 DEF Deregister, enqueue, countVars, historyVars
  <2>2. dereg' \in [Deregs -> DeregType]
    BY <1>0, <2>1 DEF DeregType
  <2> QED
    BY <2>1, <2>2, QueuesAfterAdd DEF HookNames
<1>7. ASSUME NEW d \in Deregs, DeregisterShutdown(d) PROVE QueuesInOrder'
  <2>1. /\ queue' = [queue EXCEPT ![dereg[d].rec] = @ \o <<Task("onShutdown", 0, d)>>]
        /\ UNCHANGED <<pc, submitted, signals>>
        /\ dereg' = [dereg EXCEPT ![d].pc = "shutdown"]
    BY <1>7 DEF DeregisterShutdown, enqueue, countVars, historyVars
  <2>2. dereg' \in [Deregs -> DeregType]
    BY <1>0, <2>1 DEF DeregType
  <2> QED
    BY <2>1, <2>2, QueuesAfterAdd DEF HookNames
<1>8. ASSUME NEW d \in Deregs, DeregisterRemove(d) PROVE QueuesInOrder'
  <2>1. UNCHANGED <<queue, pc, submitted, signals>> /\ dereg' = [dereg EXCEPT ![d].pc = "done"]
    BY <1>8 DEF DeregisterRemove, recordVars, countVars, historyVars
  <2>2. dereg' \in [Deregs -> DeregType]
    BY <1>0, <2>1 DEF DeregType
  <2> QED
    BY <2>1, <2>2 DEF QueuesInOrder, DeregType
<1>9. CASE DispatchSignal
  BY <1>9, QueuesAfterSignal
<1>10. CASE DispatchTick
  <2> DEFINE e == [x \in Records |-> Wanted(x, Task("onTick", 0, NoRecord))]
  <2>1. \A x \in Records : Plain(e[x])
    BY WantedIsPlain DEF HookNames
  <2>2. e \in [Records -> Seq(TaskType)]
    BY <2>1 DEF Plain
  <2>3. queue' = [x \in Records |-> queue[x] \o e[x]] /\ UNCHANGED <<pc, submitted, signals, dereg>>
    BY <1>10 DEF DispatchTick, enqueue, historyVars
  <2> HIDE DEF e
  <2> QED
    BY <2>1, <2>2, <2>3, QueuesGrow, QueuesAfterEmit
<1>11. ASSUME NEW r \in Records, BeginTask(r) PROVE QueuesInOrder'
  <2>1. /\ pc[r] = "idle" /\ queue[r] # <<>> /\ queue' = queue
        /\ pc' = [pc EXCEPT ![r] = "hook"] /\ UNCHANGED <<submitted, signals, dereg>>
    BY <1>11 DEF BeginTask, countVars, historyVars
  <2> QED
    BY <1>0, <2>1, QueuesAfterMove DEF Awaits, PastSubmit
<1>12. ASSUME NEW r \in Records,
              \/ HookEnds(r) \/ HookThrows(r) \/ TaskThrows(r)
              \/ \E n \in {0, MaxOpen + 1} : CheckPositions(r, n)
       PROVE  QueuesInOrder'
  <2>1. pc[r] # "idle" /\ EndTask(r, queue) /\ UNCHANGED <<submitted, signals>>
    BY <1>12 DEF HookEnds, HookThrows, TaskThrows, CheckPositions, countVars, historyVars
  <2> QED
    BY <1>0, <2>1, QueuesAfterEnd
<1>13. ASSUME NEW r \in Records, HookDecides(r) PROVE QueuesInOrder'
  <2>0. pc[r] = "hook" /\ queue[r] # <<>> /\ Head(queue[r]).hook = "onSignal"
    BY <1>1, <1>13 DEF HookDecides
  <2>1. Head(queue[r]) = queue[r][1]
    BY <1>0, <2>0
  <2>2. CASE TripsDecision(guard'[r])
    <3>1. EndTask(r, queue) /\ UNCHANGED <<submitted, signals>>
      BY <1>13, <2>2 DEF HookDecides, countVars
    <3> QED
      BY <1>0, <2>0, <3>1, QueuesAfterEnd
  <2>3. CASE ~TripsDecision(guard'[r]) /\ r \in address
    <3>1. /\ pc' = [pc EXCEPT ![r] = "submit"] /\ UNCHANGED <<queue, signals, dereg>>
          /\ submitted' = [submitted EXCEPT ![r] = Append(@, queue[r][1].sig)]
      BY <1>13, <2>1, <2>3 DEF HookDecides, countVars
    <3> QED
      BY <2>0, <2>1, <3>1, QueuesAfterSubmit DEF IsSignal
  <2>4. CASE ~TripsDecision(guard'[r]) /\ r \notin address
    <3>1. /\ pc' = [pc EXCEPT ![r] = "address"] /\ queue' = queue
          /\ UNCHANGED <<submitted, signals, dereg>>
      BY <1>13, <2>4 DEF HookDecides, countVars
    <3> QED
      BY <1>0, <2>0, <2>1, <3>1, QueuesAfterMove DEF Awaits, PastSubmit, IsSignal
  <2> QED
    BY <2>2, <2>3, <2>4
<1>14. ASSUME NEW r \in Records, AddressResolves(r) PROVE QueuesInOrder'
  <2>0. pc[r] = "address" /\ queue[r] # <<>>
    BY <1>1, <1>14 DEF AddressResolves
  <2>1. Head(queue[r]) = queue[r][1]
    BY <1>0, <2>0
  <2>2. /\ pc' = [pc EXCEPT ![r] = "submit"] /\ UNCHANGED <<queue, signals, dereg>>
        /\ submitted' = [submitted EXCEPT ![r] = Append(@, queue[r][1].sig)]
    BY <1>14, <2>1 DEF AddressResolves, countVars
  <2> QED
    BY <1>1, <2>0, <2>2, QueuesAfterSubmit
<1>15. ASSUME NEW r \in Records, NEW landed \in BOOLEAN, SubmitResolves(r, landed) PROVE QueuesInOrder'
  <2>0. pc[r] = "submit" /\ queue[r] # <<>> /\ IsSignal(queue[r][1])
    BY <1>1, <1>15 DEF SubmitResolves
  <2> DEFINE q == dispatchExecutionResult
  <2>1. PICK e \in [Records -> Seq(TaskType)] :
           q = [x \in Records |-> queue[x] \o e[x]] /\ \A x \in Records : Plain(e[x])
    BY ResultsArePlain
  <2>2. Waits(q)
    BY <2>1, QueuesGrow
  <2>3. UNCHANGED <<submitted, signals>>
    BY <1>15 DEF SubmitResolves, countVars, historyVars
  <2>4. CASE ~landed
    <3>1. EndTask(r, q)
      BY <1>15, <2>4 DEF SubmitResolves
    <3> HIDE DEF q
    <3> QED
      BY <2>0, <2>2, <2>3, <3>1, QueuesAfterEnd
  <2>5. CASE landed
    <3>1. queue' = q /\ pc' = [pc EXCEPT ![r] = "adapt"] /\ dereg' = dereg
      BY <1>15, <2>5 DEF SubmitResolves
    <3> HIDE DEF q
    <3>2. Ordered(q[r], "submit", submitted[r], signals)
      BY <2>0, <2>2 DEF Waits
    <3>3. q[r] # <<>> /\ IsSignal(q[r][1])
      BY <3>2 DEF Ordered
    <3> QED
      BY <2>0, <2>2, <2>3, <3>1, <3>3, QueuesAfterMove DEF Awaits, PastSubmit
  <2> QED
    BY <2>4, <2>5
<1>16. ASSUME NEW r \in Records, NEW n \in 0..MaxTrades, Adapt(r, n) PROVE QueuesInOrder'
  <2>0. pc[r] = "adapt" /\ queue[r] # <<>> /\ IsSignal(queue[r][1]) /\ UNCHANGED <<submitted, signals>>
    BY <1>1, <1>16 DEF Adapt, countVars, historyVars
  <2>1. CASE n = 0
    <3>1. EndTask(r, queue)
      BY <1>16, <2>1 DEF Adapt
    <3> QED
      BY <1>0, <2>0, <3>1, QueuesAfterEnd
  <2>2. CASE n # 0
    <3>1. pc' = [pc EXCEPT ![r] = "before"] /\ queue' = queue /\ dereg' = dereg
      BY <1>16, <2>2 DEF Adapt
    <3> QED
      BY <1>0, <2>0, <3>1, QueuesAfterMove DEF Awaits, PastSubmit
  <2> QED
    BY <2>1, <2>2
<1>17. ASSUME NEW r \in Records, ReadBefore(r) PROVE QueuesInOrder'
  <2>1. /\ pc[r] = "before" /\ pc' = [pc EXCEPT ![r] = "apply"] /\ queue' = queue
        /\ UNCHANGED <<submitted, signals, dereg>>
    BY <1>17 DEF ReadBefore, countVars, historyVars
  <2>2. queue[r] # <<>> /\ IsSignal(queue[r][1])
    BY <1>1, <2>1
  <2> QED
    BY <1>0, <2>1, <2>2, QueuesAfterMove DEF Awaits, PastSubmit
<1>18. ASSUME NEW r \in Records, NEW amount \in Pnl, NEW moved \in BOOLEAN, Apply(r, amount, moved)
       PROVE  QueuesInOrder'
  <2> DEFINE q == dispatchPositionChange(Wallet[r], moved)
  <2>1. /\ pc[r] = "apply" /\ pc' = [pc EXCEPT ![r] = "after"] /\ queue' = q
        /\ UNCHANGED <<submitted, signals, dereg>>
    BY <1>18 DEF Apply, countVars
  <2>2. PICK e \in [Records -> Seq(TaskType)] :
           q = [x \in Records |-> queue[x] \o e[x]] /\ \A x \in Records : Plain(e[x])
    BY ChangesArePlain
  <2>3. Waits(q)
    BY <2>2, QueuesGrow
  <2> HIDE DEF q
  <2>4. Ordered(q[r], "apply", submitted[r], signals)
    BY <2>1, <2>3 DEF Waits
  <2>5. q[r] # <<>> /\ IsSignal(q[r][1])
    BY <2>4 DEF Ordered
  <2> QED
    BY <2>1, <2>3, <2>5, QueuesAfterMove DEF Awaits, PastSubmit
<1>19. ASSUME NEW r \in Records, ReadAfter(r) PROVE QueuesInOrder'
  <2>0. pc[r] = "after" /\ queue[r] # <<>> /\ IsSignal(queue[r][1]) /\ UNCHANGED <<submitted, signals>>
    BY <1>1, <1>19 DEF ReadAfter, countVars
  <2>1. CASE TripsRealized(guard'[r])
    <3>1. EndTask(r, queue)
      BY <1>19, <2>1 DEF ReadAfter
    <3> QED
      BY <1>0, <2>0, <3>1, QueuesAfterEnd
  <2>2. CASE ~TripsRealized(guard'[r])
    <3> DEFINE a == IF trades[r] > 0 THEN "before" ELSE "positions"
    <3>1. pc' = [pc EXCEPT ![r] = a] /\ queue' = queue /\ dereg' = dereg
      BY <1>19, <2>2 DEF ReadAfter
    <3>2. a \in Awaits /\ a \in PastSubmit /\ "after" \in PastSubmit
      BY DEF Awaits, PastSubmit
    <3> HIDE DEF a
    <3> QED
      BY <1>0, <2>0, <3>1, <3>2, QueuesAfterMove
  <2> QED
    BY <2>1, <2>2
<1> QED
  BY <1>2, <1>3, <1>4, <1>5, <1>6, <1>7, <1>8, <1>9, <1>10, <1>11, <1>12, <1>13, <1>14, <1>15, <1>16,
     <1>17, <1>18, <1>19 DEF RuntimeNext, QueueStep, DeregisterStep

-----------------------------------------------------------------------------
(* The windows hold.                                                       *)
LEMMA DayFacts ==
    ASSUME NEW t \in Nat, NEW d \in Nat \ {0}
    PROVE  t \div d \in Nat /\ (t < d => t \div d = 0)
  OBVIOUS

LEMMA InstantIsNatural ==
    ASSUME WindowsHold
    PROVE  /\ instant \in Nat /\ instant \div DayLength \in Nat
           /\ instant < DayLength => instant \div DayLength = 0
  BY DayFacts, RuntimeAssumption DEF WindowsHold

(* One guard changes and the clock stands still.                           *)
LEMMA WindowsAfterGuard ==
    ASSUME WindowsHold, NEW r \in Records, NEW g \in GuardType, guard' = [guard EXCEPT ![r] = g],
           NEW acc, accepted' = [accepted EXCEPT ![r] = acc], instant' = instant,
           InOrder(acc, instant), InOrder(g.decisions, instant), InOrder(g.errors, instant),
           Remembered(acc, g.decisions, instant), Spaced(acc)
    PROVE  WindowsHold'
<1>1. acc \in Seq(0..MaxInstant)
  BY DEF InOrder
<1>2. guard' \in [Records -> GuardType] /\ accepted' \in [Records -> Seq(0..MaxInstant)]
  BY <1>1 DEF WindowsHold
<1>3. \A x \in Records :
        /\ InOrder(accepted'[x], instant') /\ InOrder(guard'[x].decisions, instant')
        /\ InOrder(guard'[x].errors, instant')
        /\ Remembered(accepted'[x], guard'[x].decisions, instant') /\ Spaced(accepted'[x])
  BY DEF WindowsHold
<1> QED
  BY <1>2, <1>3 DEF WindowsHold

LEMMA ErrorRecorded ==
    ASSUME WindowsHold, NEW r \in Records
    PROVE  /\ recordError(guard[r]) \in GuardType
           /\ recordError(guard[r]) = [guard[r] EXCEPT !.errors = recordError(guard[r]).errors]
           /\ InOrder(recordError(guard[r]).errors, instant)
<1>1. guard[r] \in GuardType /\ InOrder(guard[r].errors, instant) /\ instant \in 0..MaxInstant
  BY DEF WindowsHold
<1>2. ErrorWindow \in Nat
  BY RuntimeAssumption
<1> DEFINE u == Append(Recent(guard[r].errors, ErrorWindow), instant)
<1>3. InOrder(u, instant)
  BY <1>1, <1>2, RecordedInOrder
<1>4. u \in Seq(0..MaxInstant)
  BY <1>3 DEF InOrder
<1>5. recordError(guard[r]) = [guard[r] EXCEPT !.errors = u]
  BY DEF recordError
<1> HIDE DEF u
<1> QED
  BY <1>1, <1>3, <1>4, <1>5 DEF GuardType

LEMMA DecisionKept ==
    ASSUME WindowsHold, NEW r \in Records
    PROVE  LET g == recordDecision(guard[r]) IN
           /\ g \in GuardType /\ g = [guard[r] EXCEPT !.decisions = g.decisions]
           /\ InOrder(g.decisions, instant) /\ Remembered(accepted[r], g.decisions, instant)
           /\ ~TripsDecision(g) =>
                 /\ InOrder(Append(accepted[r], instant), instant)
                 /\ Remembered(Append(accepted[r], instant), g.decisions, instant)
                 /\ Spaced(Append(accepted[r], instant))
<1>1. /\ guard[r] \in GuardType /\ InOrder(guard[r].decisions, instant) /\ instant \in 0..MaxInstant
      /\ InOrder(accepted[r], instant) /\ Spaced(accepted[r])
      /\ Remembered(accepted[r], guard[r].decisions, instant)
  BY DEF WindowsHold
<1> DEFINE u == Append(Recent(guard[r].decisions, DecisionWindow), instant)
<1>2. /\ InOrder(u, instant) /\ Remembered(accepted[r], u, instant)
      /\ Len(u) <= MaxDecisions =>
            /\ InOrder(Append(accepted[r], instant), instant)
            /\ Remembered(Append(accepted[r], instant), u, instant)
            /\ Spaced(Append(accepted[r], instant))
  BY <1>1, DecisionRecorded
<1>3. u \in Seq(0..MaxInstant) /\ Len(u) \in Nat
  BY <1>2 DEF InOrder
<1>4. recordDecision(guard[r]) = [guard[r] EXCEPT !.decisions = u]
  BY DEF recordDecision
<1> HIDE DEF u
<1> DEFINE g == recordDecision(guard[r])
<1>5. g.decisions = u /\ g \in GuardType
  BY <1>1, <1>3, <1>4 DEF GuardType
<1>6. ~TripsDecision(g) => Len(u) <= MaxDecisions
  BY <1>3, <1>5, RuntimeAssumption DEF TripsDecision
<1> QED
  BY <1>2, <1>4, <1>5, <1>6

(* What the loss guard does to its books.                                  *)
LEMMA RealizedRecorded ==
    ASSUME WindowsHold, NEW r \in Records, NEW a \in Int, guard[r].cumulative <= guard[r].peak
    PROVE  LET g == recordRealized(guard[r], a) IN
           /\ g \in GuardType
           /\ g.decisions = guard[r].decisions /\ g.errors = guard[r].errors
           /\ g.cumulative = guard[r].cumulative + a /\ g.cumulative <= g.peak
           /\ g.day = instant \div DayLength
           /\ g.today = (IF g.day # guard[r].day THEN 0 ELSE guard[r].today) + a
<1>1. guard[r] \in GuardType /\ instant \div DayLength \in Nat
  BY InstantIsNatural DEF WindowsHold
<1> DEFINE day == instant \div DayLength
           cumulative == guard[r].cumulative + a
           today == (IF day # guard[r].day THEN 0 ELSE guard[r].today) + a
           peak == IF cumulative > guard[r].peak THEN cumulative ELSE guard[r].peak
<1>2. recordRealized(guard[r], a) =
         [guard[r] EXCEPT !.day = day, !.today = today, !.cumulative = cumulative, !.peak = peak]
  BY <1>1 DEF recordRealized, GuardType
<1>3. cumulative \in Int /\ today \in Int /\ peak \in Nat /\ cumulative <= peak
  BY <1>1 DEF GuardType
<1> HIDE DEF cumulative, today, peak
<1> QED
  BY <1>1, <1>2, <1>3 DEF GuardType, cumulative, today

LEMMA WindowsStep ==
    ASSUME WindowsHold, BooksBalance, [RuntimeNext]_runtimeVars
    PROVE  WindowsHold'
<1>0. /\ instant \in 0..MaxInstant /\ guard \in [Records -> GuardType]
      /\ accepted \in [Records -> Seq(0..MaxInstant)]
      /\ \A r \in Records :
            /\ InOrder(accepted[r], instant) /\ InOrder(guard[r].decisions, instant)
            /\ InOrder(guard[r].errors, instant)
            /\ Remembered(accepted[r], guard[r].decisions, instant) /\ Spaced(accepted[r])
  BY DEF WindowsHold
<1>1. ASSUME UNCHANGED <<instant, guard, accepted>> PROVE WindowsHold'
  BY <1>1 DEF WindowsHold
<1>2. CASE UNCHANGED runtimeVars
  BY <1>1, <1>2 DEF runtimeVars, recordVars, historyVars
<1>3. CASE Start \/ Stop \/ DispatchSignal \/ DispatchTick
  BY <1>1, <1>3 DEF Start, Stop, DispatchSignal, DispatchTick, recordVars, historyVars
<1>4. CASE \E d \in Deregs : DeregisterStep(d) \/ \E r \in Records : Deregister(d, r)
  BY <1>1, <1>4 DEF Deregister, DeregisterStep, DeregisterShutdown, DeregisterRemove, recordVars,
                    historyVars
<1>5. ASSUME NEW r \in Records, Pause(r) \/ Resume(r) \/ TripShutdownEnds(r) \/ BeginTask(r)
                                \/ HookEnds(r) \/ AddressResolves(r) \/ ReadBefore(r) \/ TaskThrows(r)
      PROVE  WindowsHold'
  BY <1>1, <1>5 DEF Pause, Resume, TripShutdownEnds, BeginTask, HookEnds, AddressResolves, ReadBefore,
                    TaskThrows, historyVars
<1>6. ASSUME NEW r \in Records,
             \/ \E landed \in BOOLEAN : SubmitResolves(r, landed)
             \/ \E n \in 0..MaxTrades : Adapt(r, n)
             \/ \E amount \in Pnl, moved \in BOOLEAN : Apply(r, amount, moved)
             \/ \E n \in {0, MaxOpen + 1} : CheckPositions(r, n)
      PROVE  WindowsHold'
  BY <1>1, <1>6 DEF SubmitResolves, Adapt, Apply, CheckPositions, historyVars
<1>7. CASE TimePasses
  <2>1. /\ instant < MaxInstant /\ instant' = instant + 1 /\ guard' = guard /\ accepted' = accepted
    BY <1>7 DEF TimePasses, recordVars, historyVars
  <2>2. instant' \in 0..MaxInstant /\ instant \in Nat
    BY <1>0, <2>1, RuntimeAssumption
  <2>3. \A r \in Records :
           /\ InOrder(accepted[r], instant + 1) /\ InOrder(guard[r].decisions, instant + 1)
           /\ InOrder(guard[r].errors, instant + 1)
           /\ Remembered(accepted[r], guard[r].decisions, instant + 1) /\ Spaced(accepted[r])
    BY <1>0, <2>2, LaterInOrder, LaterRemembered
  <2> QED
    BY <1>0, <2>1, <2>2, <2>3 DEF WindowsHold
<1>8. ASSUME NEW r \in Records, Register(r) PROVE WindowsHold'
  <2> DEFINE g == [guard[r] EXCEPT !.day = instant \div DayLength]
  <2>1. /\ guard' = [guard EXCEPT ![r] = g] /\ accepted' = [accepted EXCEPT ![r] = accepted[r]]
        /\ instant' = instant
    BY <1>0, <1>8 DEF Register, historyVars
  <2>2. g \in GuardType /\ g.decisions = guard[r].decisions /\ g.errors = guard[r].errors
    BY <1>0, InstantIsNatural DEF GuardType
  <2> HIDE DEF g
  <2> QED
    BY <1>0, <2>1, <2>2, WindowsAfterGuard
<1>9. ASSUME NEW r \in Records, HookThrows(r) PROVE WindowsHold'
  <2> DEFINE g == recordError(guard[r])
  <2>1. /\ guard' = [guard EXCEPT ![r] = g] /\ accepted' = [accepted EXCEPT ![r] = accepted[r]]
        /\ instant' = instant
    BY <1>0, <1>9 DEF HookThrows
  <2>2. g \in GuardType /\ InOrder(g.errors, instant) /\ g.decisions = guard[r].decisions
    BY <1>0, ErrorRecorded DEF GuardType
  <2> HIDE DEF g
  <2> QED
    BY <1>0, <2>1, <2>2, WindowsAfterGuard
<1>10. ASSUME NEW r \in Records, HookDecides(r) PROVE WindowsHold'
  <2> DEFINE g == recordDecision(guard[r])
  <2>1. guard' = [guard EXCEPT ![r] = g] /\ instant' = instant /\ guard'[r] = g
    BY <1>0, <1>10 DEF HookDecides
  <2>2. /\ g \in GuardType /\ g.errors = guard[r].errors /\ InOrder(g.decisions, instant)
        /\ Remembered(accepted[r], g.decisions, instant)
    BY <1>0, DecisionKept DEF GuardType
  <2>3. CASE TripsDecision(g)
    <3>1. accepted' = [accepted EXCEPT ![r] = accepted[r]]
      BY <1>0, <1>10, <2>1, <2>3 DEF HookDecides
    <3> HIDE DEF g
    <3> QED
      BY <1>0, <2>1, <2>2, <3>1, WindowsAfterGuard
  <2>4. CASE ~TripsDecision(g)
    <3>1. accepted' = [accepted EXCEPT ![r] = Append(accepted[r], instant)]
      BY <1>0, <1>10, <2>1, <2>4 DEF HookDecides
    <3>2. /\ InOrder(Append(accepted[r], instant), instant)
          /\ Remembered(Append(accepted[r], instant), g.decisions, instant)
          /\ Spaced(Append(accepted[r], instant))
      BY <2>4, DecisionKept
    <3> HIDE DEF g
    <3> QED
      BY <1>0, <2>1, <2>2, <3>1, <3>2, WindowsAfterGuard
  <2> QED
    BY <2>3, <2>4
<1>11. ASSUME NEW r \in Records, ReadAfter(r) PROVE WindowsHold'
  <2> DEFINE a == realized[Wallet[r]] - before[r]
             g == recordRealized(guard[r], a)
  <2>1. /\ guard' = [guard EXCEPT ![r] = g] /\ accepted' = [accepted EXCEPT ![r] = accepted[r]]
        /\ instant' = instant
    BY <1>0, <1>11 DEF ReadAfter
  <2>2. a \in Int /\ guard[r].cumulative <= guard[r].peak
    BY DEF BooksBalance, BooksTyped, Booked, Wallets
  <2> HIDE DEF a
  <2>3. g \in GuardType /\ g.decisions = guard[r].decisions /\ g.errors = guard[r].errors
    BY <2>2, RealizedRecorded
  <2> HIDE DEF g
  <2> QED
    BY <1>0, <2>1, <2>3, WindowsAfterGuard
<1> QED
  BY <1>2, <1>3, <1>4, <1>5, <1>6, <1>7, <1>8, <1>9, <1>10, <1>11 DEF RuntimeNext, QueueStep

-----------------------------------------------------------------------------
(* The books balance.                                                      *)
Flat == {"idle", "hook", "address", "submit", "adapt", "before", "positions"}

(* The books of x when a step leaves its books alone.                      *)
LEMMA BookStays ==
    ASSUME NEW x \in Records, Booked(x), instant' = instant, Alone(x)' <=> Alone(x),
           guard'[x].cumulative = guard[x].cumulative, guard'[x].peak = guard[x].peak,
           guard'[x].day = guard[x].day, guard'[x].today = guard[x].today,
           own'[x] = own[x], before'[x] = before[x], realized'[Wallet[x]] = realized[Wallet[x]],
           pc'[x] = pc[x] \/ (pc[x] \in Flat /\ pc'[x] \in Flat),
           x \in resumed => x \in resumed', (quarantined[x] => quarantined'[x]) \/ x \in resumed',
           faults' = 0 => faults = 0
    PROVE  Booked(x)'
  BY DEF Booked, Lossy, Flat

(* A task of r gets on, away from its books.                               *)
LEMMA BooksAfterMove ==
    ASSUME BooksBalance, UNCHANGED <<guard, own, before, realized, instant, resumed, faults>>,
           NEW r \in Records, NEW a \in Flat, pc \in [Records -> Awaits], pc' = [pc EXCEPT ![r] = a],
           pc[r] \in Flat,
           quarantined' = quarantined \/ quarantined' = [quarantined EXCEPT ![r] = TRUE]
    PROVE  BooksBalance'
<1>1. \A x \in Records : Booked(x)'
  BY BookStays DEF BooksBalance, BooksTyped, Alone
<1> QED
  BY <1>1 DEF BooksBalance, BooksTyped

(* A loss that is recorded trips.                                          *)
LEMMA LossTrips ==
    ASSUME WindowsHold, NEW r \in Records, Booked(r), NEW a \in Int,
           NEW h, h = recordRealized(guard[r], a)
    PROVE  /\ h.cumulative <= h.peak
           /\ instant < DayLength => h.day = 0 /\ h.today = h.cumulative
           /\ Lossy(h, instant) => TripsRealized(h)
<1>0. /\ guard[r].cumulative <= guard[r].peak /\ guard[r] \in GuardType
      /\ instant < DayLength => guard[r].day = 0 /\ guard[r].today = guard[r].cumulative
  BY DEF Booked, WindowsHold
<1>1. /\ h \in GuardType /\ h.cumulative = guard[r].cumulative + a /\ h.cumulative <= h.peak
      /\ h.day = instant \div DayLength
      /\ h.today = (IF h.day # guard[r].day THEN 0 ELSE guard[r].today) + a
  BY <1>0, RealizedRecorded
<1>2. /\ h.today \in Int /\ h.cumulative \in Int /\ h.peak \in Nat
      /\ MaxLoss \in Nat /\ MaxDrawdown \in Nat
  BY <1>1, RuntimeAssumption DEF GuardType
<1>3. instant < DayLength => h.day = 0 /\ h.today = h.cumulative
  BY <1>0, <1>1, InstantIsNatural
<1>4. h.cumulative < -MaxDrawdown => h.peak - h.cumulative > MaxDrawdown
  BY <1>2
<1> QED
  BY <1>1, <1>2, <1>3, <1>4 DEF Lossy, TripsRealized

LEMMA BooksStep ==
    ASSUME QueuesInOrder, WindowsHold, BooksBalance, [RuntimeNext]_runtimeVars
    PROVE  BooksBalance'
<1>0. /\ pc \in [Records -> Awaits] /\ guard \in [Records -> GuardType] /\ BooksTyped
      /\ \A x \in Records : Booked(x) /\ (Alone(x)' <=> Alone(x)) /\ Wallet[x] \in Wallets
      /\ \A x \in Records : quarantined[x] \in BOOLEAN /\ own[x] \in Int /\ before[x] \in Int
                            /\ realized[Wallet[x]] \in Int /\ guard[x].cumulative \in Int
      /\ faults \in Nat
  BY DEF QueuesInOrder, WindowsHold, BooksBalance, BooksTyped, Alone, Wallets, GuardType
<1>1. ASSUME UNCHANGED <<instant, guard, own, before, realized, pc, quarantined, resumed, faults>>
      PROVE  BooksBalance'
  BY <1>1 DEF BooksBalance, BooksTyped, Booked, Alone
<1>2. CASE UNCHANGED runtimeVars
  BY <1>1, <1>2 DEF runtimeVars, recordVars, historyVars, countVars
<1>3. CASE Start \/ Stop \/ DispatchSignal \/ DispatchTick
  BY <1>1, <1>3 DEF Start, Stop, DispatchSignal, DispatchTick, recordVars, historyVars, countVars
<1>4. CASE \E d \in Deregs : DeregisterStep(d) \/ \E r \in Records : Deregister(d, r)
  BY <1>1, <1>4 DEF Deregister, DeregisterStep, DeregisterShutdown, DeregisterRemove, recordVars,
                    historyVars, countVars
<1>5. CASE \E r \in Records : TripShutdownEnds(r)
  BY <1>1, <1>5 DEF TripShutdownEnds, historyVars, countVars
<1>6. CASE TimePasses
  <2>1. /\ instant' = instant + 1
        /\ UNCHANGED <<guard, own, before, realized, pc, quarantined, resumed, faults>>
    BY <1>6 DEF TimePasses, recordVars, historyVars, countVars
  <2>2. instant + 1 < DayLength => instant < DayLength
    BY InstantIsNatural, RuntimeAssumption
  <2> QED
    BY <1>0, <2>1, <2>2 DEF BooksBalance, BooksTyped, Booked, Lossy, Alone
<1>7. ASSUME NEW r \in Records, Pause(r) PROVE BooksBalance'
  <2>1. /\ quarantined' = [quarantined EXCEPT ![r] = TRUE]
        /\ UNCHANGED <<instant, guard, own, before, realized, pc, resumed, faults>>
    BY <1>7 DEF Pause, historyVars
  <2>2. \A x \in Records : Booked(x)'
    BY <1>0, <2>1, BookStays DEF BooksTyped
  <2> QED
    BY <1>0, <2>1, <2>2 DEF BooksBalance, BooksTyped
<1>8. ASSUME NEW r \in Records, Resume(r) PROVE BooksBalance'
  <2>1. /\ quarantined' = [quarantined EXCEPT ![r] = FALSE] /\ resumed' = resumed \union {r}
        /\ UNCHANGED <<instant, guard, own, before, realized, pc, faults>>
    BY <1>8 DEF Resume
  <2>2. \A x \in Records : Booked(x)'
    BY <1>0, <2>1, BookStays DEF BooksTyped
  <2> QED
    BY <1>0, <2>1, <2>2 DEF BooksBalance, BooksTyped
<1>9. ASSUME NEW r \in Records, Register(r) PROVE BooksBalance'
  <2>1. /\ guard' = [guard EXCEPT ![r].day = instant \div DayLength]
        /\ UNCHANGED <<instant, own, before, realized, pc, quarantined, resumed, faults>>
    BY <1>9 DEF Register, historyVars, countVars
  <2>2. ASSUME NEW x \in Records, x # r PROVE Booked(x)'
    BY <1>0, <2>1, <2>2, BookStays
  <2>3. /\ guard'[r].cumulative = guard[r].cumulative /\ guard'[r].peak = guard[r].peak
        /\ guard'[r].today = guard[r].today /\ guard'[r].day = instant \div DayLength
    BY <1>0, <2>1 DEF GuardType
  <2>4. Booked(r)'
    BY <1>0, <2>1, <2>3, InstantIsNatural DEF Booked, Lossy
  <2> QED
    BY <1>0, <2>1, <2>2, <2>4 DEF BooksBalance, BooksTyped
<1>10. ASSUME NEW r \in Records, BeginTask(r) \/ HookEnds(r) \/ AddressResolves(r)
       PROVE  BooksBalance'
  <2>1. PICK a \in Flat : pc' = [pc EXCEPT ![r] = a]
    BY <1>10 DEF BeginTask, HookEnds, AddressResolves, EndTask, Flat
  <2>2. /\ pc[r] \in Flat
        /\ UNCHANGED <<guard, own, before, realized, instant, resumed, faults, quarantined>>
    BY <1>10 DEF BeginTask, HookEnds, AddressResolves, Flat, historyVars, countVars
  <2> QED
    BY <1>0, <2>1, <2>2, BooksAfterMove
<1>11. ASSUME NEW r \in Records, \/ \E landed \in BOOLEAN : SubmitResolves(r, landed)
                                 \/ \E n \in 0..MaxTrades : Adapt(r, n)
       PROVE  BooksBalance'
  <2>1. PICK a \in Flat : pc' = [pc EXCEPT ![r] = a]
    BY <1>11 DEF SubmitResolves, Adapt, EndTask, Flat
  <2>2. /\ pc[r] \in Flat
        /\ UNCHANGED <<guard, own, before, realized, instant, resumed, faults, quarantined>>
    BY <1>11 DEF SubmitResolves, Adapt, Flat, historyVars, countVars
  <2> QED
    BY <1>0, <2>1, <2>2, BooksAfterMove
<1>12. ASSUME NEW r \in Records, NEW n \in {0, MaxOpen + 1}, CheckPositions(r, n) PROVE BooksBalance'
  <2>1. /\ pc' = [pc EXCEPT ![r] = "idle"] /\ pc[r] \in Flat /\ "idle" \in Flat
        /\ UNCHANGED <<guard, own, before, realized, instant, resumed, faults>>
    BY <1>12 DEF CheckPositions, EndTask, Flat, countVars
  <2>2. quarantined' = quarantined \/ quarantined' = [quarantined EXCEPT ![r] = TRUE]
    BY <1>12 DEF CheckPositions, tripGuard, NoTrip
  <2> QED
    BY <1>0, <2>1, <2>2, BooksAfterMove
<1>13. ASSUME NEW r \in Records, HookThrows(r) PROVE BooksBalance'
  <2> DEFINE g == recordError(guard[r])
  <2>1. /\ guard' = [guard EXCEPT ![r] = g] /\ pc' = [pc EXCEPT ![r] = "idle"] /\ pc[r] = "hook"
        /\ UNCHANGED <<own, before, realized, instant, resumed>> /\ faults' = faults + 1
    BY <1>13 DEF HookThrows, EndTask
  <2>2. quarantined' = quarantined \/ quarantined' = [quarantined EXCEPT ![r] = TRUE]
    BY <1>13 DEF HookThrows, tripGuard, NoTrip
  <2>3. /\ g.cumulative = guard[r].cumulative /\ g.peak = guard[r].peak
        /\ g.day = guard[r].day /\ g.today = guard[r].today
    BY <1>0, ErrorRecorded DEF GuardType
  <2> HIDE DEF g
  <2>4. \A x \in Records : Booked(x)'
    BY <1>0, <2>1, <2>2, <2>3, BookStays DEF BooksTyped, Flat
  <2>6. faults' \in Nat
    BY <1>0, <2>1
  <2>7. quarantined \in [Records -> BOOLEAN]
    BY <1>0 DEF BooksTyped
  <2>5. faults' \in Nat /\ quarantined' \in [Records -> BOOLEAN]
    BY <2>2, <2>6, <2>7
  <2> QED
    BY <1>0, <2>1, <2>4, <2>5 DEF BooksBalance, BooksTyped
<1>14. ASSUME NEW r \in Records, HookDecides(r) PROVE BooksBalance'
  <2> DEFINE g == recordDecision(guard[r])
  <2>1. /\ guard' = [guard EXCEPT ![r] = g] /\ pc[r] = "hook"
        /\ UNCHANGED <<own, before, realized, instant, resumed, faults>>
    BY <1>14 DEF HookDecides, countVars
  <2>2. quarantined' = quarantined \/ quarantined' = [quarantined EXCEPT ![r] = TRUE]
    BY <1>14 DEF HookDecides, tripGuard, NoTrip
  <2>3. PICK a \in Flat : pc' = [pc EXCEPT ![r] = a]
    BY <1>14 DEF HookDecides, EndTask, Flat
  <2>4. /\ g.cumulative = guard[r].cumulative /\ g.peak = guard[r].peak
        /\ g.day = guard[r].day /\ g.today = guard[r].today
    BY <1>0, DecisionKept DEF GuardType
  <2> HIDE DEF g
  <2>5. \A x \in Records : Booked(x)'
    BY <1>0, <2>1, <2>2, <2>3, <2>4, BookStays DEF BooksTyped, Flat
  <2> QED
    BY <1>0, <2>1, <2>2, <2>5 DEF BooksBalance, BooksTyped
<1>15. ASSUME NEW r \in Records, ReadBefore(r) PROVE BooksBalance'
  <2>1. /\ before' = [before EXCEPT ![r] = realized[Wallet[r]]] /\ pc[r] = "before"
        /\ pc' = [pc EXCEPT ![r] = "apply"]
        /\ UNCHANGED <<guard, own, realized, instant, resumed, faults, quarantined>>
    BY <1>15 DEF ReadBefore, historyVars, countVars
  <2>2. \A x \in Records \ {r} : Booked(x)'
    BY <1>0, <2>1, BookStays DEF BooksTyped
  <2>3. Booked(r)'
    BY <1>0, <2>1 DEF Booked, BooksTyped
  <2> QED
    BY <1>0, <2>1, <2>2, <2>3 DEF BooksBalance, BooksTyped
<1>16. ASSUME NEW r \in Records, NEW amount \in Pnl, NEW moved \in BOOLEAN, Apply(r, amount, moved)
       PROVE  BooksBalance'
  <2>0. amount \in Int
    BY RuntimeAssumption
  <2>1. /\ realized' = [realized EXCEPT ![Wallet[r]] = @ + amount]
        /\ own' = [own EXCEPT ![r] = @ + amount] /\ pc[r] = "apply"
        /\ pc' = [pc EXCEPT ![r] = "after"]
        /\ UNCHANGED <<guard, before, instant, resumed, faults, quarantined>>
    BY <1>16 DEF Apply, countVars
  <2>2. ASSUME NEW x \in Records \ {r}, Alone(x) PROVE Booked(x)'
    <3>1. Wallet[x] # Wallet[r]
      BY <2>2 DEF Alone
    <3> QED
      BY <1>0, <2>1, <2>2, <3>1, BookStays DEF BooksTyped
  <2>3. ASSUME NEW x \in Records \ {r}, ~Alone(x) PROVE Booked(x)'
    BY <1>0, <2>1, <2>3 DEF Booked, Lossy, BooksTyped
  <2>4. Booked(r)'
    <3>1. /\ realized'[Wallet[r]] = realized[Wallet[r]] + amount /\ own'[r] = own[r] + amount
          /\ before'[r] = before[r] /\ guard'[r] = guard[r] /\ pc'[r] = "after"
      BY <1>0, <2>1 DEF BooksTyped
    <3>2. faults = 0 /\ Alone(r) =>
             realized[Wallet[r]] = before[r] /\ guard[r].cumulative = own[r]
      BY <1>0, <2>1 DEF Booked
    <3> DEFINE x == realized[Wallet[r]]  y == own[r]
    <3>3. \A c \in Int : x = before[r] /\ c = y => (x + amount) - before[r] = (y + amount) - c
      BY <1>0, <2>0
    <3>4. faults = 0 /\ Alone(r) =>
             realized'[Wallet[r]] - before'[r] = own'[r] - guard'[r].cumulative
      BY <1>0, <3>1, <3>2, <3>3
    <3> HIDE DEF x, y
    <3>5. /\ guard[r].cumulative <= guard[r].peak
          /\ instant < DayLength => guard[r].day = 0 /\ guard[r].today = guard[r].cumulative
          /\ r \notin resumed /\ Lossy(guard[r], instant) => quarantined[r]
      BY <1>0 DEF Booked
    <3> QED
      BY <1>0, <2>1, <3>1, <3>4, <3>5 DEF Booked
  <2>5. own' \in [Records -> Int] /\ realized' \in [Wallets -> Int]
    BY <1>0, <2>0, <2>1 DEF BooksTyped
  <2> QED
    BY <1>0, <2>1, <2>2, <2>3, <2>4, <2>5 DEF BooksBalance, BooksTyped
<1>17. ASSUME NEW r \in Records, ReadAfter(r) PROVE BooksBalance'
  <2> DEFINE a == realized[Wallet[r]] - before[r]
             h == recordRealized(guard[r], a)
  <2>0. a \in Int
    BY <1>0
  <2>1. /\ guard' = [guard EXCEPT ![r] = h] /\ pc[r] = "after"
        /\ UNCHANGED <<own, before, realized, instant, resumed, faults>>
    BY <1>17 DEF ReadAfter, countVars
  <2>2. quarantined' = IF TripsRealized(h) THEN [quarantined EXCEPT ![r] = TRUE] ELSE quarantined
    <3>1. guard'[r] = h
      BY <1>0, <2>1
    <3> HIDE DEF h
    <3> QED
      BY <1>17, <3>1 DEF ReadAfter, tripGuard, NoTrip
  <2>3. PICK p \in Flat : pc' = [pc EXCEPT ![r] = p]
    BY <1>17 DEF ReadAfter, EndTask, Flat
  <2>4. /\ h.cumulative <= h.peak
        /\ instant < DayLength => h.day = 0 /\ h.today = h.cumulative
        /\ Lossy(h, instant) => TripsRealized(h)
    BY <1>0, <2>0, LossTrips
  <2>5. h.cumulative = guard[r].cumulative + a
    BY <1>0, <2>0, RealizedRecorded DEF Booked
  <2>6. faults = 0 /\ Alone(r) => a = own[r] - guard[r].cumulative
    BY <1>0, <2>1 DEF Booked
  <2> HIDE DEF a, h
  <2>7. faults = 0 /\ Alone(r) => h.cumulative = own[r]
    BY <1>0, <2>0, <2>5, <2>6
  <2>8. \A x \in Records \ {r} : Booked(x)'
    BY <1>0, <2>1, <2>2, <2>3, BookStays DEF BooksTyped
  <2>9. Booked(r)'
    <3>1. guard'[r] = h /\ pc'[r] = p /\ p # "after" /\ p # "apply"
          /\ (TripsRealized(h) => quarantined'[r])
      BY <1>0, <2>1, <2>2, <2>3 DEF Flat, BooksTyped
    <3> QED
      BY <1>0, <2>1, <2>4, <2>7, <3>1 DEF Booked
  <2> QED
    BY <1>0, <2>1, <2>2, <2>8, <2>9 DEF BooksBalance, BooksTyped
<1>18. ASSUME NEW r \in Records, TaskThrows(r) PROVE BooksBalance'
  <2>1. PICK amount \in Pnl \union {0} :
           /\ realized' = [realized EXCEPT ![Wallet[r]] = @ + amount]
           /\ own' = [own EXCEPT ![r] = @ + amount]
    BY <1>18 DEF TaskThrows
  <2>2. faults' = faults + 1 /\ UNCHANGED <<guard, before, instant, resumed, quarantined>>
    BY <1>18 DEF TaskThrows
  <2>3. faults' \in Nat /\ faults' # 0
    BY <1>0, <2>2
  <2>4. \A x \in Records : Booked(x)'
    BY <1>0, <2>2, <2>3 DEF Booked
  <2>7. Pnl \subseteq Int
    BY RuntimeAssumption, Zenon
  <2>6. amount \in Int
    BY <2>7
  <2>5. own' \in [Records -> Int] /\ realized' \in [Wallets -> Int]
    BY <1>0, <2>1, <2>6 DEF BooksTyped
  <2> QED
    BY <1>0, <2>2, <2>3, <2>4, <2>5 DEF BooksBalance, BooksTyped
<1> QED
  BY <1>2, <1>3, <1>4, <1>5, <1>6, <1>7, <1>8, <1>9, <1>10, <1>11, <1>12, <1>13, <1>14, <1>15, <1>16,
     <1>17, <1>18 DEF RuntimeNext, QueueStep

-----------------------------------------------------------------------------
(* The wiring keeps its types.                                             *)
LEMMA WiringStep ==
    ASSUME QueuesInOrder, WiringTyped, [RuntimeNext]_runtimeVars
    PROVE  WiringTyped'
<1>0. pc \in [Records -> Awaits] /\ MaxTrades \in Nat
  BY RuntimeAssumption DEF QueuesInOrder
<1> DEFINE Rest == <<address, subscribed, tickTimer, timers, listeners, ticks, starts, pauses>>
           Map == <<instances, created>>
           Applying(p, t) == \A r \in Records : p[r] \in {"before", "apply"} => t[r] > 0
<1>1. ASSUME UNCHANGED <<pc, trades, tripping>>, UNCHANGED Map, UNCHANGED Rest PROVE WiringTyped'
  BY <1>1 DEF WiringTyped
<1>2. CASE UNCHANGED runtimeVars
  BY <1>2 DEF WiringTyped, runtimeVars, recordVars, wiringVars, countVars
<1>3. CASE TimePasses \/ DispatchSignal
  BY <1>1, <1>3 DEF TimePasses, DispatchSignal, recordVars, wiringVars, countVars
<1>4. ASSUME NEW d \in Deregs, DeregisterShutdown(d) \/ \E r \in Records : Deregister(d, r)
      PROVE  WiringTyped'
  BY <1>1, <1>4 DEF Deregister, DeregisterShutdown, wiringVars, countVars
<1>5. CASE Start
  <2>1. /\ starts' = starts + 1 /\ subscribed' = TRUE /\ listeners' = listeners + 1
        /\ timers' = timers + 1 /\ tickTimer' = TRUE
        /\ UNCHANGED <<instances, created, pc, trades, address, tripping, ticks, pauses>>
    BY <1>5 DEF Start, recordVars
  <2> QED
    BY <2>1 DEF WiringTyped
<1>6. CASE Stop
  <2>1. /\ subscribed' = FALSE /\ tickTimer' = FALSE
        /\ timers' = IF tickTimer THEN timers - 1 ELSE timers
        /\ UNCHANGED <<instances, created, pc, trades, address, tripping, ticks, pauses, starts, listeners>>
    BY <1>6 DEF Stop, recordVars, countVars
  <2>2. timers' \in Nat
    <3>1. timers \in Nat /\ (tickTimer => timers > 0)
      BY DEF WiringTyped
    <3>2. CASE tickTimer
      BY <2>1, <3>1, <3>2
    <3>3. CASE ~tickTimer
      BY <2>1, <3>1, <3>3
    <3> QED
      BY <3>2, <3>3
  <2> QED
    BY <2>1, <2>2 DEF WiringTyped
<1>7. CASE DispatchTick
  <2>1. /\ ticks' = ticks + 1
        /\ UNCHANGED <<instances, created, pc, trades, address, tripping, subscribed, tickTimer, timers,
                       listeners, starts, pauses>>
    BY <1>7 DEF DispatchTick, wiringVars
  <2> QED
    BY <2>1 DEF WiringTyped
<1>8. ASSUME NEW d \in Deregs, DeregisterRemove(d) PROVE WiringTyped'
  <2>1. /\ instances' = [instances EXCEPT ![Id[dereg[d].rec]] = NoRecord]
        /\ UNCHANGED <<created, pc, trades, tripping>> /\ UNCHANGED Rest
    BY <1>8 DEF DeregisterRemove, recordVars, wiringVars, countVars
  <2> QED
    BY <2>1 DEF WiringTyped
<1>9. ASSUME NEW r \in Records, Register(r) PROVE WiringTyped'
  <2>1. /\ instances' = [instances EXCEPT ![Id[r]] = r] /\ created' = created \union {r}
        /\ UNCHANGED <<pc, trades, tripping>> /\ UNCHANGED Rest
    BY <1>9 DEF Register, wiringVars, countVars
  <2> QED
    BY <2>1 DEF WiringTyped
<1>10. ASSUME NEW r \in Records, Pause(r) \/ Resume(r) PROVE WiringTyped'
  <2>1. /\ pauses' = pauses + 1 /\ UNCHANGED <<pc, trades, tripping>> /\ UNCHANGED Map
        /\ UNCHANGED <<address, subscribed, tickTimer, timers, listeners, ticks, starts>>
    BY <1>10 DEF Pause, Resume, wiringVars
  <2> QED
    BY <2>1 DEF WiringTyped
<1>11. ASSUME UNCHANGED Map, tripping' \subseteq Records, address' \subseteq Records,
              UNCHANGED <<subscribed, tickTimer, timers, listeners, ticks, starts, pauses>>,
              trades' \in [Records -> 0..MaxTrades], Applying(pc', trades')
       PROVE  WiringTyped'
  BY <1>11 DEF WiringTyped
<1>12. /\ trades \in [Records -> 0..MaxTrades] /\ Applying(pc, trades)
       /\ \A r \in Records : trades[r] \in Int
       /\ tripping \subseteq Records /\ address \subseteq Records
  <2>1. trades \in [Records -> 0..MaxTrades]
    BY DEF WiringTyped
  <2>2. \A r \in Records : trades[r] \in 0..MaxTrades
    BY <2>1
  <2> QED
    BY <2>1, <2>2 DEF WiringTyped
<1>13. ASSUME NEW r \in Records, TripShutdownEnds(r) PROVE WiringTyped'
  BY <1>11, <1>12, <1>13 DEF TripShutdownEnds, wiringVars, countVars
<1>14. ASSUME NEW r \in Records, tripGuard(r) \/ NoTrip PROVE tripping' \subseteq Records
  BY <1>12, <1>14 DEF tripGuard, NoTrip
<1>15. ASSUME NEW r \in Records, NEW a, pc' = [pc EXCEPT ![r] = a], a \notin {"before", "apply"},
              trades' = trades
       PROVE  trades' \in [Records -> 0..MaxTrades] /\ Applying(pc', trades')
  BY <1>0, <1>12, <1>15
<1>16. ASSUME NEW r \in Records, BeginTask(r) \/ HookEnds(r) \/ AddressResolves(r) PROVE WiringTyped'
  <2>1. PICK a \in {"hook", "idle", "submit"} : pc' = [pc EXCEPT ![r] = a] /\ trades' = trades
    BY <1>16 DEF BeginTask, HookEnds, AddressResolves, EndTask
  <2>2. UNCHANGED Map /\ address' \subseteq Records /\ tripping' = tripping
        /\ UNCHANGED <<subscribed, tickTimer, timers, listeners, ticks, starts, pauses>>
    BY <1>12, <1>16 DEF BeginTask, HookEnds, AddressResolves, EndTask, wiringVars, countVars
  <2> QED
    BY <1>11, <1>12, <1>15, <2>1, <2>2
<1>17. ASSUME NEW r \in Records, \/ HookThrows(r) \/ HookDecides(r)
                                 \/ \E n \in {0, MaxOpen + 1} : CheckPositions(r, n)
       PROVE  WiringTyped'
  <2>1. PICK a \in {"idle", "submit", "address"} : pc' = [pc EXCEPT ![r] = a] /\ trades' = trades
    BY <1>17 DEF HookThrows, HookDecides, CheckPositions, EndTask
  <2>2. UNCHANGED Map /\ UNCHANGED Rest /\ (tripGuard(r) \/ NoTrip)
    BY <1>17 DEF HookThrows, HookDecides, CheckPositions, wiringVars, countVars
  <2> QED
    BY <1>11, <1>12, <1>14, <1>15, <2>1, <2>2
<1>18. ASSUME NEW r \in Records, NEW landed \in BOOLEAN, SubmitResolves(r, landed) PROVE WiringTyped'
  <2>1. PICK a \in {"idle", "adapt"} : pc' = [pc EXCEPT ![r] = a] /\ trades' = trades
    BY <1>18 DEF SubmitResolves, EndTask
  <2>2. UNCHANGED Map /\ UNCHANGED Rest /\ tripping' = tripping
    BY <1>18 DEF SubmitResolves, wiringVars, countVars
  <2> QED
    BY <1>11, <1>12, <1>15, <2>1, <2>2
<1>19. ASSUME NEW r \in Records, NEW n \in 0..MaxTrades, Adapt(r, n) PROVE WiringTyped'
  <2>1. /\ trades' = [trades EXCEPT ![r] = n]
        /\ pc' = [pc EXCEPT ![r] = IF n = 0 THEN "idle" ELSE "before"]
    BY <1>19 DEF Adapt, EndTask
  <2>2. UNCHANGED Map /\ UNCHANGED Rest /\ tripping' = tripping
    BY <1>19 DEF Adapt, wiringVars, countVars
  <2>3. trades' \in [Records -> 0..MaxTrades] /\ Applying(pc', trades')
    BY <1>0, <1>12, <2>1
  <2> QED
    BY <1>11, <1>12, <2>2, <2>3
<1>20. ASSUME NEW r \in Records, ReadBefore(r) PROVE WiringTyped'
  <2>1. pc[r] = "before" /\ pc' = [pc EXCEPT ![r] = "apply"] /\ trades' = trades
    BY <1>20 DEF ReadBefore
  <2>2. UNCHANGED Map /\ UNCHANGED Rest /\ tripping' = tripping
    BY <1>20 DEF ReadBefore, wiringVars, countVars
  <2>3. Applying(pc', trades')
    BY <1>0, <1>12, <2>1
  <2> QED
    BY <1>11, <1>12, <2>1, <2>2, <2>3
<1>21. ASSUME NEW r \in Records, NEW amount \in Pnl, NEW moved \in BOOLEAN, Apply(r, amount, moved)
       PROVE  WiringTyped'
  <2>1. /\ pc[r] = "apply" /\ pc' = [pc EXCEPT ![r] = "after"]
        /\ trades' = [trades EXCEPT ![r] = trades[r] - 1]
    BY <1>21 DEF Apply
  <2>2. UNCHANGED Map /\ UNCHANGED Rest /\ tripping' = tripping
    BY <1>21 DEF Apply, wiringVars, countVars
  <2>3. trades[r] > 0 /\ trades[r] \in 0..MaxTrades
    BY <1>12, <2>1
  <2>4. trades[r] - 1 \in 0..MaxTrades
    BY <1>0, <2>3
  <2>5. trades' \in [Records -> 0..MaxTrades] /\ Applying(pc', trades')
    BY <1>0, <1>12, <2>1, <2>4
  <2> QED
    BY <1>11, <1>12, <2>2, <2>5
<1>22. ASSUME NEW r \in Records, ReadAfter(r) PROVE WiringTyped'
  <2>1. UNCHANGED Map /\ UNCHANGED Rest /\ (tripGuard(r) \/ NoTrip)
    BY <1>22 DEF ReadAfter, wiringVars, countVars
  <2>2. CASE TripsRealized(guard'[r])
    <3>1. trades' = [trades EXCEPT ![r] = 0] /\ pc' = [pc EXCEPT ![r] = "idle"]
      BY <1>22, <2>2 DEF ReadAfter, EndTask
    <3>2. trades' \in [Records -> 0..MaxTrades] /\ Applying(pc', trades')
      BY <1>0, <1>12, <3>1
    <3> QED
      BY <1>11, <1>12, <1>14, <2>1, <3>2
  <2>3. CASE ~TripsRealized(guard'[r])
    <3>1. trades' = trades /\ pc' = [pc EXCEPT ![r] = IF trades[r] > 0 THEN "before" ELSE "positions"]
      BY <1>22, <2>3 DEF ReadAfter
    <3>2. trades' \in [Records -> 0..MaxTrades] /\ Applying(pc', trades')
      BY <1>0, <1>12, <3>1
    <3> QED
      BY <1>11, <1>12, <1>14, <2>1, <3>2
  <2> QED
    BY <2>2, <2>3
<1>23. ASSUME NEW r \in Records, TaskThrows(r) PROVE WiringTyped'
  <2>1. trades' = [trades EXCEPT ![r] = 0] /\ pc' = [pc EXCEPT ![r] = "idle"]
    BY <1>23 DEF TaskThrows, EndTask
  <2>2. UNCHANGED Map /\ UNCHANGED Rest /\ tripping' = tripping
    BY <1>23 DEF TaskThrows, wiringVars
  <2>3. trades' \in [Records -> 0..MaxTrades] /\ Applying(pc', trades')
    BY <1>0, <1>12, <2>1
  <2> QED
    BY <1>11, <1>12, <2>2, <2>3
<1> QED
  BY <1>2, <1>3, <1>4, <1>5, <1>6, <1>7, <1>8, <1>9, <1>10, <1>13, <1>16, <1>17, <1>18, <1>19, <1>20,
     <1>21, <1>22, <1>23 DEF RuntimeNext, QueueStep, DeregisterStep

-----------------------------------------------------------------------------
(* The invariant of the runtime.                                           *)
LEMMA RuntimeInitially == RuntimeInit => RuntimeInv
<1> SUFFICES ASSUME RuntimeInit PROVE RuntimeInv
  OBVIOUS
<1>0. /\ instant = 0 /\ signals = 0 /\ faults = 0 /\ MaxInstant \in Nat /\ MaxSignals \in Nat
      /\ MaxTrades \in Nat /\ MaxLoss \in Nat /\ MaxDrawdown \in Nat
      /\ \A r \in Records : /\ queue[r] = <<>> /\ pc[r] = "idle" /\ submitted[r] = <<>>
                            /\ accepted[r] = <<>> /\ guard[r] = NoGuard /\ own[r] = 0
                            /\ quarantined[r] = FALSE
  BY RuntimeAssumption DEF RuntimeInit
<1>1. QueuesInOrder
  <2>1. "idle" \in Awaits
    BY DEF Awaits
  <2>2. Ordered(<<>>, "idle", <<>>, 0)
    BY <2>1 DEF Ordered
  <2> QED
    BY <1>0, <2>1, <2>2 DEF RuntimeInit, QueuesInOrder
<1>2. WindowsHold
  <2>1. InOrder(<<>>, 0) /\ Remembered(<<>>, <<>>, 0) /\ Spaced(<<>>)
    BY DEF InOrder, Remembered, Spaced
  <2>2. NoGuard \in GuardType /\ NoGuard.decisions = <<>> /\ NoGuard.errors = <<>>
    BY DEF NoGuard, GuardType
  <2> QED
    BY <1>0, <2>1, <2>2 DEF RuntimeInit, WindowsHold
<1>3. BooksBalance
  <2>1. /\ NoGuard.cumulative = 0 /\ NoGuard.peak = 0 /\ NoGuard.day = 0 /\ NoGuard.today = 0
    BY DEF NoGuard
  <2>2. \A r \in Records : Booked(r)
    BY <1>0, <2>1 DEF Booked, Lossy
  <2> QED
    BY <2>2 DEF RuntimeInit, BooksBalance, BooksTyped
<1>4. WiringTyped
  <2>1. trades \in [Records -> 0..MaxTrades] /\ \A r \in Records : pc[r] \notin {"before", "apply"}
    BY <1>0 DEF RuntimeInit
  <2>2. instances \in [Ids -> Records \union {NoRecord}]
    BY DEF RuntimeInit
  <2> QED
    BY <2>1, <2>2 DEF RuntimeInit, WiringTyped
<1> QED
  BY <1>1, <1>2, <1>3, <1>4 DEF RuntimeInv

LEMMA RuntimeSteps == RuntimeInv /\ [RuntimeNext]_runtimeVars => RuntimeInv'
<1> SUFFICES ASSUME RuntimeInv, [RuntimeNext]_runtimeVars PROVE RuntimeInv'
  OBVIOUS
<1>1. QueuesInOrder /\ WindowsHold /\ BooksBalance /\ WiringTyped
  BY DEF RuntimeInv
<1>2. QueuesInOrder'
  BY <1>1, QueuesStep DEF WiringTyped
<1>3. WindowsHold' /\ BooksBalance' /\ WiringTyped'
  BY <1>1, WindowsStep, BooksStep, WiringStep
<1> QED
  BY <1>2, <1>3 DEF RuntimeInv

LEMMA RuntimeImplies == RuntimeInv => RuntimeSafe /\ GuardsAreTrue
<1> SUFFICES ASSUME RuntimeInv PROVE RuntimeSafe /\ GuardsAreTrue
  OBVIOUS
<1>0. QueuesInOrder /\ WindowsHold /\ BooksBalance /\ WiringTyped
  BY DEF RuntimeInv
<1>1. RuntimeTypeOK
  <2>1. \A r \in Records :
          /\ queue[r] \in Seq(TaskType)
          /\ pc[r] # "idle" => queue[r] # <<>>
          /\ pc[r] \notin {"idle", "hook"} => IsSignal(queue[r][1])
    BY <1>0 DEF QueuesInOrder, Ordered
  <2>2. \A r \in Records :
          /\ pc[r] # "idle" => queue[r] # <<>>
          /\ pc[r] \notin {"idle", "hook"} => Head(queue[r]).hook = "onSignal"
    BY <2>1 DEF IsSignal
  <2>3. /\ instant \in 0..MaxInstant /\ guard \in [Records -> GuardType]
        /\ accepted \in [Records -> Seq(0..MaxInstant)]
    BY <1>0 DEF WindowsHold
  <2> QED
    BY <1>0, <2>2, <2>3 DEF RuntimeTypeOK, QueuesInOrder, BooksBalance, BooksTyped, WiringTyped
<1>2. SubmitsInOrder
  BY <1>0 DEF SubmitsInOrder, QueuesInOrder, Ordered
<1>3. DecisionRate
  BY <1>0 DEF DecisionRate, WindowsHold, Spaced
<1>4. GuardSeesOwnTrades
  BY <1>0 DEF GuardSeesOwnTrades, BooksBalance, Booked
<1>5. LossQuarantines
  <2> SUFFICES ASSUME NEW r \in Records \ resumed,
                      (own[r] < -MaxLoss /\ instant < DayLength) \/ own[r] < -MaxDrawdown,
                      faults = 0 /\ pc[r] # "after" /\ Alone(r)
               PROVE  quarantined[r]
    BY DEF LossQuarantines
  <2>1. guard[r].cumulative = own[r] /\ (Lossy(guard[r], instant) => quarantined[r])
    BY <1>0 DEF BooksBalance, Booked
  <2> QED
    BY <2>1 DEF Lossy
<1> QED
  BY <1>1, <1>2, <1>3, <1>4, <1>5 DEF RuntimeSafe, GuardsAreTrue

(* What the queues (instance-queue.ts), the guards (guards.ts) and the      *)
(* runtime's flags have in common after any number of steps.               *)
THEOREM RuntimeIsInvariant == RuntimeSpec => []RuntimeInv
  BY RuntimeInitially, RuntimeSteps, PTL DEF RuntimeSpec

(* Whatever is queued, thrown, tripped, paused or removed meanwhile, an     *)
(* instance submits in the order dispatchSignal() queued its signals and   *)
(* once for each (runtime.ts, instance-queue.ts); no window holds more     *)
(* decisions than recordDecision() allows; and what recordRealized() was   *)
(* told of a loss past the limits has quarantined the instance (guards.ts).*)
THEOREM RuntimeIsSafe == RuntimeSpec => []RuntimeSafe
<1>1. RuntimeInv => RuntimeSafe
  BY RuntimeImplies
<1> QED
  BY <1>1, RuntimeIsInvariant, PTL

(* The difference that runtime.ts reads around applyLandedTrade() is what   *)
(* the trade realised: between trades the guard of an instance with a      *)
(* wallet of its own knows all it won and lost.                            *)
THEOREM GuardsKnowTheirTrades == RuntimeSpec => []GuardsAreTrue
<1>1. RuntimeInv => GuardsAreTrue
  BY RuntimeImplies
<1> QED
  BY <1>1, RuntimeIsInvariant, PTL
=============================================================================
