----------------------------- MODULE SignalBus -----------------------------
(***************************************************************************)
(* MemorySignalBus (bus.ts) with producers made by wrapSource              *)
(* (producer.ts).  Emissions are fire-and-forget, so several of them walk  *)
(* the Map of consumers at once, each awaiting one handler at a time;      *)
(* consumers added during a walk are visited, removed ones are not.        *)
(* Producers start in a microtask, looked up by id, not by object.         *)
(***************************************************************************)
EXTENDS Integers, Sequences, SequencesExt, FiniteSets

CONSTANTS
    Producers,      \* producer objects
    Consumers,      \* consumer ids, in one registration order
    BusSignals,     \* signalIds
    IdOf,           \* producer -> its id
    Accepts,        \* consumer -> producers whose type and version it takes
    BusDedupWindow, BusDedupTtl,    \* SignalBusOpts
    Absent,
    MaxBusTime, MaxEmits, MaxRegisters    \* bounds

ASSUME BusAssumption ==
    /\ Accepts \in [Consumers -> SUBSET Producers]
    /\ BusDedupWindow \in Nat \ {0}
    /\ \A n \in {BusDedupTtl, MaxBusTime, MaxEmits, MaxRegisters} : n \in Nat
    /\ Absent \notin Producers

VARIABLES
    producers,      \* Map id -> producer, or Absent
    consumers,      \* Map of consumers, in insertion order
    wrapped,        \* producer -> its state: started, stopped, starting (microtasks queued)
    walks,          \* emissions dispatching: emission number -> [id, by, at, rest]
    busDedup,       \* Map signalId -> expiry, in insertion order
    bus,            \* "open", "closing" or "closed"
    busTime, registers,
    log,            \* history: the emissions that passed dedup: [id, at, due]
    handled,        \* history: <<consumer, emission>> -> handler calls
    joins,          \* history: consumer -> registrations
    disowned,       \* history: producers that were disposed
    usurped         \* history: those whose id was taken before their start ran

walkVars == <<walks, handled>>
ownerVars == <<producers, wrapped, disowned, usurped>>
busVars == <<ownerVars, consumers, walkVars, busDedup, bus, busTime, registers, log, joins>>

Ids == {IdOf[p] : p \in Producers}

BusTypeOK ==
    /\ producers \in [Ids -> Producers \cup {Absent}]
    /\ \A i \in Ids : producers[i] # Absent => IdOf[producers[i]] = i
    /\ ToSet(consumers) \subseteq Consumers /\ IsInjective(consumers)
    /\ wrapped \in [Producers -> [started : BOOLEAN, stopped : BOOLEAN, starting : Nat]]
    /\ \A e \in DOMAIN walks : walks[e].at \in Consumers /\ IsInjective(walks[e].rest)
    /\ Len(busDedup) <= BusDedupWindow
    /\ bus \in {"open", "closing", "closed"}

BusInit ==
    /\ producers = [i \in Ids |-> Absent]
    /\ consumers = <<>>
    /\ wrapped = [p \in Producers |-> [started |-> FALSE, stopped |-> FALSE, starting |-> 0]]
    /\ walks = <<>> /\ busDedup = <<>> /\ bus = "open"
    /\ busTime = 0 /\ registers = 0
    /\ log = <<>>
    /\ handled = [k \in Consumers \X (1..MaxEmits) |-> 0]
    /\ joins = [c \in Consumers |-> 0]
    /\ disowned = {} /\ usurped = {}

-----------------------------------------------------------------------------
(* The dispatch of one signal.                                             *)

Without(f, e) == [x \in DOMAIN f \ {e} |-> f[x]]
With(f, e, v) == [x \in DOMAIN f \cup {e} |-> IF x = e THEN v ELSE f[x]]

\* Mutant: a walk by index, which a removal shifts by one.
WalkByIndex(e, s, p, names) ==
    LET k == SelectInSeq(names, LAMBDA c : p \in Accepts[c])
    IN  IF k = 0
        THEN walks' = Without(walks, e) /\ UNCHANGED handled
        ELSE /\ walks' = With(walks, e, [id |-> s, by |-> p, at |-> names[k],
                                         rest |-> SubSeq(names, k + 2, Len(names))])
             /\ handled' = [handled EXCEPT ![<<names[k], e>>] = @ + 1]

(* Emission e of signal s, from the loop's next iteration to its next      *)
(* await: the first of names that takes producer p's signals is called;    *)
(* when there is none the emission is over.                                *)
Walk(e, s, p, names) ==
    LET k == SelectInSeq(names, LAMBDA c : p \in Accepts[c])
    IN  IF k = 0
        THEN walks' = Without(walks, e) /\ UNCHANGED handled
        ELSE /\ walks' = With(walks, e, [id |-> s, by |-> p, at |-> names[k],
                                         rest |-> SubSeq(names, k + 1, Len(names))])
             /\ handled' = [handled EXCEPT ![<<names[k], e>>] = @ + 1]

\* The window without its expired prefix.
liveDedup ==
    LET k == SelectInSeq(busDedup, LAMBDA d : d.expires > busTime)
    IN  IF k = 0 THEN <<>> ELSE SubSeq(busDedup, k, Len(busDedup))

Remembered(s) == \E k \in DOMAIN liveDedup : liveDedup[k].id = s

trimmed(d) == IF Len(d) > BusDedupWindow THEN Tail(d) ELSE d

\* The listener wrapSource puts on the source forwards a signal.
Emitting(p) == wrapped[p].started /\ ~wrapped[p].stopped

\* The emissions so far and one of s by p, with the consumers it is due.
Logged(p, s) == Append(log, [id |-> s, at |-> busTime,
                             due |-> {c \in ToSet(consumers) : p \in Accepts[c]}])

(* A new signal is remembered and dispatched to the consumers.             *)
Emit(p, s) ==
    /\ Len(log) < MaxEmits /\ Emitting(p) /\ bus = "open" /\ ~Remembered(s)
    /\ busDedup' = trimmed(Append(liveDedup, [id |-> s, expires |-> busTime + BusDedupTtl]))
    /\ log' = Logged(p, s)
    /\ Walk(Len(log'), s, p, consumers)
    /\ UNCHANGED <<ownerVars, consumers, bus, busTime, registers, joins>>

(* A remembered signal is dropped; the expired prefix goes.                *)
EmitDuplicate(p, s) ==
    /\ Emitting(p) /\ bus = "open" /\ Remembered(s)
    /\ busDedup' = liveDedup
    /\ UNCHANGED <<ownerVars, consumers, walkVars, bus, busTime, registers, log, joins>>

\* Mutant: an emission under way when the bus closes is left hanging.
HandlerSettlesOpen(e) ==
    /\ e \in DOMAIN walks /\ bus = "open"
    /\ Walk(e, walks[e].id, walks[e].by, walks[e].rest)
    /\ UNCHANGED <<ownerVars, consumers, busDedup, bus, busTime, registers, log, joins>>

(* The awaited handler settles, by returning or by a handler-error.        *)
HandlerSettles(e) ==
    /\ e \in DOMAIN walks
    /\ Walk(e, walks[e].id, walks[e].by, walks[e].rest)
    /\ UNCHANGED <<ownerVars, consumers, busDedup, bus, busTime, registers, log, joins>>

-----------------------------------------------------------------------------
(* Consumers.                                                              *)

InAllWalks(Op(_)) == [e \in DOMAIN walks |-> [walks[e] EXCEPT !.rest = Op(@)]]

RegisterConsumer(c) ==
    /\ bus = "open" /\ c \notin ToSet(consumers) /\ registers < MaxRegisters
    /\ registers' = registers + 1
    /\ consumers' = Append(consumers, c)
    /\ walks' = InAllWalks(LAMBDA names : Append(names, c))
    /\ joins' = [joins EXCEPT ![c] = @ + 1]
    /\ UNCHANGED <<ownerVars, handled, busDedup, bus, busTime, log>>

DisposeConsumer(c) ==
    /\ c \in ToSet(consumers)
    /\ consumers' = RemoveFirst(consumers, c)
    /\ walks' = InAllWalks(LAMBDA names : RemoveFirst(names, c))
    /\ log' = [e \in DOMAIN log |-> [log[e] EXCEPT !.due = @ \ {c}]]
    /\ UNCHANGED <<ownerVars, handled, busDedup, bus, busTime, registers, joins>>

-----------------------------------------------------------------------------
(* Producers.                                                              *)

RegisterProducer(p) ==
    /\ bus = "open" /\ producers[IdOf[p]] = Absent /\ registers < MaxRegisters
    /\ registers' = registers + 1
    /\ producers' = [producers EXCEPT ![IdOf[p]] = p]
    /\ wrapped' = [wrapped EXCEPT ![p].starting = @ + 1]
    /\ disowned' = disowned \ {p}
    /\ usurped' = (usurped \ {p}) \cup
                  {q \in disowned \ {p} : IdOf[q] = IdOf[p] /\ wrapped[q].starting > 0}
    /\ UNCHANGED <<consumers, walkVars, busDedup, bus, busTime, log, joins>>

\* The microtask finds the bus open and a producer of this id registered.
Starts(p) == wrapped[p].starting > 0 /\ bus = "open" /\ producers[IdOf[p]] # Absent

\* start(emit) of the wrapper: only the first call does anything.
StartProducer(p) ==
    /\ Starts(p)
    /\ wrapped' = [wrapped EXCEPT ![p] = [started |-> TRUE, starting |-> @.starting - 1,
                                          stopped |-> @.started /\ @.stopped]]
    /\ UNCHANGED <<producers, disowned, usurped, consumers, walkVars, busDedup, bus, busTime,
                   registers, log, joins>>

SkipStart(p) ==
    /\ wrapped[p].starting > 0 /\ ~Starts(p)
    /\ wrapped' = [wrapped EXCEPT ![p].starting = @ - 1]
    /\ UNCHANGED <<producers, disowned, usurped, consumers, walkVars, busDedup, bus, busTime,
                   registers, log, joins>>

\* dispose() of a registration: whoever holds the id is removed and stopped.
DisposeProducer(i) ==
    /\ producers[i] # Absent
    /\ producers' = [producers EXCEPT ![i] = Absent]
    /\ wrapped' = [wrapped EXCEPT ![producers[i]].stopped = TRUE]
    /\ disowned' = disowned \cup {producers[i]}
    /\ UNCHANGED <<usurped, consumers, walkVars, busDedup, bus, busTime, registers, log, joins>>

-----------------------------------------------------------------------------
(* close() stops every producer and, once the stops have settled, clears   *)
(* the maps; a walk under way goes on in between.                          *)

CloseBus ==
    /\ bus = "open"
    /\ bus' = "closing"
    /\ wrapped' = [p \in Producers |->
                     [wrapped[p] EXCEPT !.stopped = @ \/ producers[IdOf[p]] = p]]
    /\ UNCHANGED <<producers, disowned, usurped, consumers, walkVars, busDedup, busTime,
                   registers, log, joins>>

\* Mutant: the consumers of a closed bus are not cleared.
ClearedWalksKept == walks

ClearedWalks == InAllWalks(LAMBDA names : <<>>)

StopsSettle ==
    /\ bus = "closing"
    /\ bus' = "closed"
    /\ producers' = [i \in Ids |-> Absent]
    /\ consumers' = <<>> /\ busDedup' = <<>>
    /\ walks' = ClearedWalks
    /\ log' = [e \in DOMAIN log |-> [log[e] EXCEPT !.due = {}]]
    /\ UNCHANGED <<wrapped, disowned, usurped, handled, busTime, registers, joins>>

BusTick ==
    /\ busTime < MaxBusTime
    /\ busTime' = busTime + 1
    /\ UNCHANGED <<ownerVars, consumers, walkVars, busDedup, bus, registers, log, joins>>

BusNext ==
    \/ \E p \in Producers :
        \/ \E s \in BusSignals : Emit(p, s) \/ EmitDuplicate(p, s)
        \/ RegisterProducer(p) \/ StartProducer(p) \/ SkipStart(p)
    \/ \E i \in Ids : DisposeProducer(i)
    \/ \E c \in Consumers : RegisterConsumer(c) \/ DisposeConsumer(c)
    \/ \E e \in 1..MaxEmits : HandlerSettles(e)
    \/ CloseBus \/ StopsSettle \/ BusTick

\* Handlers and stop() calls settle, and microtasks run.
BusFairness ==
    /\ \A e \in 1..MaxEmits : WF_busVars(HandlerSettles(e))
    /\ \A p \in Producers : WF_busVars(StartProducer(p)) /\ WF_busVars(SkipStart(p))
    /\ WF_busVars(StopsSettle)

BusSpec == BusInit /\ [][BusNext]_busVars /\ BusFairness

-----------------------------------------------------------------------------
(* Properties.                                                             *)

(* One emission calls a consumer once, or once more for every time the    *)
(* consumer was registered again, when the walk finds it a second time at  *)
(* the end of the map (bus.ts dispatch loop).                              *)
RepeatsHaveACause ==
    \A c \in Consumers, e \in 1..MaxEmits :
        handled[<<c, e>>] > 1 => handled[<<c, e>>] <= joins[c]

(* Two emissions of one signal, by whatever producers, are dispatched only *)
(* when the first had expired or the window had been filled with others    *)
(* since (bus.ts emit shim, evictExpiredDedup).                            *)
NoEarlyRepeat ==
    \A i, j \in DOMAIN log :
        i < j /\ log[i].id = log[j].id
        => log[j].at - log[i].at >= BusDedupTtl \/ j - i > BusDedupWindow

(* A consumer that takes a signal, was registered when the signal was      *)
(* accepted and stays registered has handled it when the emission is over, *)
(* however many emissions, arrivals and departures the walk met.           *)
DueIsHandled ==
    \A e \in DOMAIN log :
        e \notin DOMAIN walks => \A c \in log[e].due : handled[<<c, e>>] > 0

(* After close() has resolved no handler is called any more, though        *)
(* emissions that were waiting for one go on (bus.ts close).               *)
ClosedIsQuiet ==
    [][bus = "closed" => UNCHANGED handled]_busVars

(* A producer that was disposed emits only if another producer took its id *)
(* before its start microtask ran (bus.ts:133): the microtask looks up the *)
(* id and starts the producer that is gone.                                *)
DisownedIsQuiet ==
    \A p \in disowned : Emitting(p) => p \in usurped

(* Every emission ends, whatever handlers are added, removed or fail.      *)
EmissionsEnd ==
    \A e \in 1..MaxEmits : e \in DOMAIN walks ~> e \notin DOMAIN walks

(* The safety of the bus (bus.ts): who is called for an emission, how      *)
(* often, and who may emit.                                                *)
BusSafe ==
    /\ BusTypeOK
    /\ RepeatsHaveACause
    /\ NoEarlyRepeat
    /\ DueIsHandled
    /\ DisownedIsQuiet
=============================================================================
