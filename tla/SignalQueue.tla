---------------------------- MODULE SignalQueue ----------------------------
(***************************************************************************)
(* The signal queue of solana-signals (signal-queue.ts): a bounded buffer  *)
(* with deduplication in front of a set of subscribers, emptied by one     *)
(* dispatch loop that awaits every handler.                                *)
(*                                                                         *)
(* Between two awaits of the loop anything may be pushed, subscribed or    *)
(* unsubscribed.  The loop walks a Map: names added while it walks are     *)
(* still visited, names removed are not.                                   *)
(***************************************************************************)
EXTENDS Integers, Sequences, SequencesExt

CONSTANTS
    Signals,        \* signalIds
    Names,          \* subscriber names
    Capacity, DedupWindow, DedupTtl,        \* SignalQueueOpts
    None,
    MaxTime, MaxPushes, MaxSubscribes, MaxDrains    \* bounds

ASSUME QueueAssumption ==
    /\ None \notin Names
    /\ \A n \in {Capacity, DedupWindow} : n \in Nat \ {0}
    /\ \A n \in {DedupTtl, MaxTime, MaxPushes, MaxSubscribes, MaxDrains} : n \in Nat

VARIABLES
    now,
    buffer,         \* accepted signals not dispatched yet
    dedup,          \* the Map id -> expiresAt, in insertion order
    subscribers,    \* names in insertion order
    current,        \* the signal being dispatched, or <<>> when nobody dispatches
    handling,       \* the subscriber whose handler the loop awaits, or None
    rest,           \* subscribers the loop has yet to visit
    draining,       \* calls of drain() that have not resolved
    pushes, subscribes, drains,     \* how often each was called to an effect
    received,       \* history: name -> signals handed to it, in order
    dropped,        \* history: push numbers lost to overflow
    joined,         \* history: name -> number of the last push before its first signal
    left            \* history: names that ever unsubscribed

dispatchVars == <<current, handling, rest, received>>
vars == <<now, buffer, dedup, subscribers, dispatchVars, draining, pushes, subscribes, drains,
          dropped, joined, left>>

-----------------------------------------------------------------------------
(* The dispatch loop, from the head of its while to the next await: take   *)
(* the first signal of b and call the first handler of names; without      *)
(* either the loop ends and clears dispatching, with no await in between.  *)
Loop(b, names) ==
    IF b # <<>> /\ names # <<>>
      THEN /\ buffer' = Tail(b)
           /\ current' = Head(b)
           /\ handling' = Head(names)
           /\ rest' = Tail(names)
           /\ received' = [received EXCEPT ![Head(names)] = Append(@, Head(b))]
      ELSE /\ buffer' = b
           /\ current' = <<>> /\ handling' = None /\ rest' = <<>>
           /\ UNCHANGED received

(* dispatch(): only one loop at a time.                                    *)
dispatch(b, names) ==
    IF current # <<>>
      THEN buffer' = b /\ UNCHANGED dispatchVars
      ELSE Loop(b, names)

(* evictExpiredDedup(): the map without the expired entries at its front.  *)
evictExpiredDedup ==
    LET k == SelectInSeq(dedup, LAMBDA e : e.expires > now)
    IN  IF k = 0 THEN <<>> ELSE SubSeq(dedup, k, Len(dedup))

Known(s) == \E k \in DOMAIN evictExpiredDedup : evictExpiredDedup[k].id = s

(* The oldest entry goes when the map has outgrown the window.             *)
Trim(d) == IF Len(d) > DedupWindow THEN Tail(d) ELSE d

(* push() of a signal whose id is remembered.                              *)
PushDuplicate(s) ==
    /\ Known(s)
    /\ dedup' = evictExpiredDedup
    /\ UNCHANGED <<now, buffer, subscribers, dispatchVars, draining, pushes, subscribes, drains,
                   dropped, joined, left>>

Full == Len(buffer) >= Capacity

(* push() of a new signal: remember it within the window, make room in the *)
(* buffer, append and dispatch.                                            *)
Push(s) ==
    LET signal == [id |-> s, push |-> pushes + 1, at |-> now]
    IN  /\ pushes < MaxPushes
        /\ ~Known(s)
        /\ pushes' = pushes + 1
        /\ dedup' = Trim(Append(evictExpiredDedup, [id |-> s, expires |-> now + DedupTtl]))
        /\ dropped' = IF Full THEN dropped \union {Head(buffer).push} ELSE dropped
        /\ dispatch(Append(IF Full THEN Tail(buffer) ELSE buffer, signal), subscribers)
        /\ UNCHANGED <<now, subscribers, draining, subscribes, drains, joined, left>>

(* The pushes a subscriber that joins now is too late for.                 *)
Missed == IF current # <<>> THEN current.push - 1 ELSE pushes - Len(buffer)

(* subscribe() of a new name: last in the Map, so a walk under way still   *)
(* reaches it.  Subscribing a known name again only replaces its handler.  *)
Subscribe(n) ==
    /\ subscribes < MaxSubscribes
    /\ n \notin ToSet(subscribers)
    /\ subscribes' = subscribes + 1
    /\ subscribers' = Append(subscribers, n)
    /\ joined' = [joined EXCEPT ![n] = Missed]
    /\ IF current # <<>>
         THEN rest' = Append(rest, n) /\ UNCHANGED <<buffer, current, handling, received>>
         ELSE Loop(buffer, Append(subscribers, n))
    /\ UNCHANGED <<now, dedup, draining, pushes, drains, dropped, left>>

(* unsubscribe(): the handler being awaited still finishes.                *)
Unsubscribe(n) ==
    /\ n \in ToSet(subscribers)
    /\ subscribers' = RemoveFirst(subscribers, n)
    /\ rest' = RemoveFirst(rest, n)
    /\ left' = left \union {n}
    /\ UNCHANGED <<now, buffer, dedup, current, handling, received, draining, pushes, subscribes,
                   drains, dropped, joined>>

(* Mutant: a handler that throws ends the walk over the subscribers.       *)
HandlerEndsForAll ==
    /\ current # <<>>
    /\ Loop(buffer, subscribers)
    /\ UNCHANGED <<now, dedup, subscribers, draining, pushes, subscribes, drains, dropped, joined,
                   left>>

(* The awaited handler resolves, or rejects and is reported: the next      *)
(* subscriber, the next signal, or the end of the loop.                    *)
HandlerEnds ==
    /\ current # <<>>
    /\ IF rest # <<>>
         THEN /\ handling' = Head(rest)
              /\ rest' = Tail(rest)
              /\ received' = [received EXCEPT ![Head(rest)] = Append(@, current)]
              /\ UNCHANGED <<buffer, current>>
         ELSE Loop(buffer, subscribers)
    /\ UNCHANGED <<now, dedup, subscribers, draining, pushes, subscribes, drains, dropped, joined,
                   left>>

(* drain() begins to wait if there is something to wait for.               *)
Drain ==
    /\ drains < MaxDrains
    /\ drains' = drains + 1
    /\ draining' = IF buffer # <<>> /\ subscribers # <<>> THEN draining + 1 ELSE draining
    /\ UNCHANGED <<now, buffer, dedup, subscribers, dispatchVars, pushes, subscribes, dropped,
                   joined, left>>

(* After an immediate, drain() dispatches and looks again.  (It would also *)
(* wait for a loop it started itself, but NoLostWakeup says that it never  *)
(* finds one to start.)                                                    *)
DrainLooks ==
    /\ draining > 0
    /\ dispatch(buffer, subscribers)
    /\ draining' = IF buffer' # <<>> /\ subscribers # <<>> THEN draining ELSE draining - 1
    /\ UNCHANGED <<now, dedup, subscribers, pushes, subscribes, drains, dropped, joined, left>>

Tick ==
    /\ now < MaxTime
    /\ now' = now + 1
    /\ UNCHANGED <<buffer, dedup, subscribers, dispatchVars, draining, pushes, subscribes, drains,
                   dropped, joined, left>>

Init ==
    /\ now = 0
    /\ buffer = <<>> /\ dedup = <<>> /\ subscribers = <<>>
    /\ current = <<>> /\ handling = None /\ rest = <<>>
    /\ draining = 0 /\ pushes = 0 /\ subscribes = 0 /\ drains = 0
    /\ received = [n \in Names |-> <<>>]
    /\ dropped = {}
    /\ joined = [n \in Names |-> 0]
    /\ left = {}

Next ==
    \/ \E s \in Signals : PushDuplicate(s) \/ Push(s)
    \/ \E n \in Names : Subscribe(n) \/ Unsubscribe(n)
    \/ HandlerEnds \/ Drain \/ DrainLooks \/ Tick

Spec == Init /\ [][Next]_vars

(* Handlers settle and immediates fire.                                    *)
Fairness == WF_vars(HandlerEnds) /\ WF_vars(DrainLooks)
FairSpec == Spec /\ Fairness

-----------------------------------------------------------------------------
Signal == [id : Signals, push : 1..MaxPushes, at : 0..MaxTime]

(* Types.  The buffer never outgrows its capacity nor the dedup map its    *)
(* window, whatever is pushed while a handler is slow.                     *)
TypeOK ==
    /\ now \in 0..MaxTime
    /\ buffer \in Seq(Signal) /\ Len(buffer) <= Capacity
    /\ dedup \in Seq([id : Signals, expires : Nat]) /\ Len(dedup) <= DedupWindow
    /\ subscribers \in Seq(Names) /\ rest \in Seq(Names)
    /\ current \in Signal \union {<<>>}
    /\ handling \in Names \union {None}
    /\ draining \in 0..drains
    /\ pushes \in 0..MaxPushes /\ subscribes \in 0..MaxSubscribes /\ drains \in 0..MaxDrains
    /\ received \in [Names -> Seq(Signal)]
    /\ dropped \subseteq 1..MaxPushes
    /\ joined \in [Names -> Nat]
    /\ left \subseteq Names

(* A subscriber that stays gets every accepted signal but those lost to an *)
(* overflow: each is with it, buffered, or in the walk that still comes to *)
(* it.  Handlers that throw, and others that come and go, change nothing.  *)
NothingLost ==
    \A n \in ToSet(subscribers) \ left : \A k \in (joined[n] + 1)..pushes :
        \/ k \in dropped
        \/ \E i \in DOMAIN received[n] : received[n][i].push = k
        \/ \E i \in DOMAIN buffer : buffer[i].push = k
        \/ current # <<>> /\ current.push = k /\ n \in ToSet(rest)

(* Such a subscriber gets them once each and in the order of their pushes. *)
ReceivedInOrder ==
    \A n \in Names \ left : \A i, j \in DOMAIN received[n] :
        i < j => received[n][i].push < received[n][j].push

(* Two pushes of one signalId both reach a handler only if the first was   *)
(* out of the dedup map by then: its time to live had passed or a window   *)
(* of other signals had come since.                                        *)
DedupHolds ==
    \A n \in Names : \A i, j \in DOMAIN received[n] :
        LET a == received[n][i]
            b == received[n][j]
        IN  a.id = b.id /\ a.push < b.push
                => b.at - a.at >= DedupTtl \/ b.push - a.push > DedupWindow

(* A buffered signal never waits for a dispatch nobody will make: push()   *)
(* and subscribe() may return early only because a loop will look again.   *)
NoLostWakeup == current = <<>> => buffer = <<>> \/ subscribers = <<>>

(* drain() resolves.                                                       *)
DrainResolves == draining > 0 ~> draining = 0

(* The safety of the queue (signal-queue.ts): what a subscriber that stays *)
(* gets, in which order and how often, and that nothing waits for a loop   *)
(* that will not run.                                                      *)
QueueSafe ==
    /\ TypeOK
    /\ NothingLost
    /\ ReceivedInOrder
    /\ DedupHolds
    /\ NoLostWakeup
=============================================================================
