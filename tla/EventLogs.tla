------------------------------ MODULE EventLogs ------------------------------
(***************************************************************************)
(* The transaction-log parser and the event registry                       *)
(* (packages/solana-events: parse-logs.ts, registry.ts, cpi-decoder.ts and *)
(* the IDL event decoder of packages/pumpfun-events, program-decoder.ts).  *)
(*                                                                         *)
(* The Solana runtime (external) invokes programs, which invoke others, and*)
(* writes a line for what happens; once the log is full it writes          *)
(* "Log truncated" and any later line may be missing.  The parser rebuilds *)
(* the tree of invocations from the lines alone, and the registry turns    *)
(* the tree into a stream of events.  The runtime's own tree is kept in    *)
(* `real`, so that what the parser says can be compared with what happened.*)
(*                                                                         *)
(* Left out: rawLines (a debugging copy of the lines) and the texts of log *)
(* lines and reasons; a payload is its serial number and the class the IDL *)
(* decoder puts it in.                                                     *)
(***************************************************************************)
EXTENDS Naturals, Sequences, SequencesExt

CONSTANTS
    DecoderOf,       \* the registered decoder of each program: "all", "first", "throws", "none"
    MaxInvocations,  \* bound: invocations in a transaction
    MaxWrites,       \* bound: lines that neither start nor end an invocation
    MaxLate          \* bound: lines that still fit after "Log truncated"

\* "event": a whole event of the IDL; "malformed": the payload ends inside a
\* field, or misses a required one; "stranger": a discriminator the IDL has not.
Classes == {"event", "malformed", "stranger"}
LogPrograms == DOMAIN DecoderOf

VARIABLES
    real,        \* what the runtime executed: invocations in order of their start
    running,     \* the runtime's stack, indices into real
    writes,      \* lines written that neither start nor end an invocation
    odd,         \* lines written that carry nothing the parser can use
    full,        \* the runtime wrote "Log truncated"
    late,        \* lines that still fitted after that
    sealed,      \* invocations that ended while the log was still whole
    parser,      \* parseLogs(): the chunks, roots, stack, errors and flag
    parsed       \* parseLogs() has returned

logVars == <<real, running, writes, odd, full, late, sealed, parser, parsed>>

\* Both sides describe an invocation by the same record.
Chunk(p, d) == [programId |-> p, depth |-> d, success |-> FALSE,
                data |-> <<>>, returnData |-> 0, children |-> <<>>]

LogInit ==
    /\ real = <<>>
    /\ running = <<>>
    /\ writes = 0
    /\ odd = 0
    /\ full = FALSE
    /\ late = 0
    /\ sealed = {}
    /\ parser = [chunks |-> <<>>, roots |-> <<>>, stack |-> <<>>, errors |-> 0,
                 logTruncated |-> FALSE]
    /\ parsed = FALSE

-----------------------------------------------------------------------------
(* parseLogs(), one line at a time *)

\* Adds chunk number n under the chunk on top of the stack, if there is one.
Adopt(chunks, stack, n) ==
    IF stack = <<>> THEN chunks ELSE [chunks EXCEPT ![Last(stack)].children = Append(@, n)]

invokeLine(st, line) ==
    LET n == Len(st.chunks) + 1 IN
    [st EXCEPT !.chunks = Append(Adopt(@, st.stack, n), Chunk(line.programId, line.depth)),
               !.roots = IF st.stack = <<>> THEN Append(@, n) ELSE @,
               !.stack = Append(@, n)]

\* A terminator closes the chunk on top, also when it names another program.
endLine(st, line) ==
    IF st.stack = <<>>
      THEN [st EXCEPT !.errors = @ + 1]
      ELSE [st EXCEPT !.errors = IF st.chunks[Last(st.stack)].programId # line.programId
                                   THEN @ + 1 ELSE @,
                      !.chunks[Last(st.stack)].success = line.success,
                      !.stack = Front(@)]

dataLine(st, line) ==
    IF st.stack = <<>>
      THEN [st EXCEPT !.errors = @ + 1]
      ELSE [st EXCEPT !.chunks[Last(st.stack)].data = Append(@, line.payload)]

\* Return data is believed only when the line names the program on top.
returnLine(st, line) ==
    IF st.stack # <<>> /\ st.chunks[Last(st.stack)].programId = line.programId
      THEN [st EXCEPT !.chunks[Last(st.stack)].returnData = line.value]
      ELSE [st EXCEPT !.errors = @ + 1]

\* A payload that is not base64, or a line of no known pattern.
oddLine(st) == [st EXCEPT !.errors = @ + 1]

parseLine(st, line) ==
    CASE line.kind = "invoke" -> invokeLine(st, line)
      [] line.kind = "end" -> endLine(st, line)
      [] line.kind = "data" -> dataLine(st, line)
      [] line.kind = "return" -> returnLine(st, line)
      [] line.kind = "odd" -> oddLine(st)
      [] line.kind = "truncated" -> [st EXCEPT !.logTruncated = TRUE]

-----------------------------------------------------------------------------
(* The runtime: every step is also a line, unless the log is full *)

Logged(line) ==
    \/ /\ full => late < MaxLate
       /\ late' = IF full THEN late + 1 ELSE late
       /\ parser' = parseLine(parser, line)
    \/ full /\ UNCHANGED <<late, parser>>

Invoke(p) ==
    LET n == Len(real) + 1 IN
    /\ ~parsed
    /\ n <= MaxInvocations
    /\ real' = Append(Adopt(real, running, n), Chunk(p, Len(running) + 1))
    /\ running' = Append(running, n)
    /\ Logged([kind |-> "invoke", programId |-> p, depth |-> Len(running) + 1])
    /\ UNCHANGED <<writes, odd, full, sealed, parsed>>

Ends(success) ==
    /\ running # <<>>
    /\ LET n == Last(running) IN
        /\ real' = [real EXCEPT ![n].success = success]
        /\ running' = Front(running)
        /\ sealed' = IF full THEN sealed ELSE sealed \union {n}
        /\ Logged([kind |-> "end", programId |-> real[n].programId, success |-> success])
    /\ UNCHANGED <<writes, odd, full, parsed>>

Logs(class) ==
    LET payload == [id |-> writes + 1, class |-> class] IN
    /\ running # <<>>
    /\ writes < MaxWrites
    /\ writes' = writes + 1
    /\ real' = [real EXCEPT ![Last(running)].data = Append(@, payload)]
    /\ Logged([kind |-> "data", payload |-> payload])
    /\ UNCHANGED <<running, odd, full, sealed, parsed>>

ProgramReturns ==
    /\ running # <<>>
    /\ writes < MaxWrites
    /\ writes' = writes + 1
    /\ real' = [real EXCEPT ![Last(running)].returnData = writes + 1]
    /\ Logged([kind |-> "return", programId |-> real[Last(running)].programId,
               value |-> writes + 1])
    /\ UNCHANGED <<running, odd, full, sealed, parsed>>

OddLine ==
    /\ ~parsed
    /\ writes < MaxWrites
    /\ writes' = writes + 1
    /\ odd' = odd + 1
    /\ Logged([kind |-> "odd"])
    /\ UNCHANGED <<real, running, full, sealed, parsed>>

Truncates ==
    /\ running # <<>>
    /\ ~full
    /\ full' = TRUE
    /\ parser' = parseLine(parser, [kind |-> "truncated"])
    /\ UNCHANGED <<real, running, writes, odd, late, sealed, parsed>>

\* The transaction is over: every chunk still open becomes a failed one.
Closed(st) ==
    [st EXCEPT !.chunks = [n \in DOMAIN st.chunks |->
                             IF Contains(st.stack, n)
                               THEN [st.chunks[n] EXCEPT !.success = FALSE]
                               ELSE st.chunks[n]],
               !.stack = <<>>]

Parsed ==
    /\ running = <<>>
    /\ real # <<>>
    /\ ~parsed
    /\ parsed' = TRUE
    /\ parser' = Closed(parser)
    /\ UNCHANGED <<real, running, writes, odd, full, late, sealed>>

LogNext ==
    \/ \E p \in LogPrograms : Invoke(p)
    \/ \E success \in BOOLEAN : Ends(success)
    \/ \E class \in Classes : Logs(class)
    \/ ProgramReturns
    \/ OddLine
    \/ Truncates
    \/ Parsed

LogSpec == LogInit /\ [][LogNext]_logVars

-----------------------------------------------------------------------------
(* EventDecoderRegistry.decode() over a parsed log *)

Event(n, kind, id) == [chunk |-> n, kind |-> kind, payload |-> id]

\* decodePayload(), then unrecognised() for what it does not know.
decodePayload(n, d) == Event(n, IF d.class = "event" THEN "decoded" ELSE "unknown", d.id)

\* makeIdlDecoder().decodeAll: an event a payload, or one that says there is none.
decodeAll(n, data) ==
    IF data = <<>> THEN <<Event(n, "unknown", 0)>>
    ELSE [k \in DOMAIN data |-> decodePayload(n, data[k])]

\* makeIdlDecoder().decode: the first payload the IDL knows, else the first.
decodeFirst(n, data) ==
    LET known == {k \in DOMAIN data : data[k].class # "stranger"} IN
    IF data = <<>> THEN <<Event(n, "unknown", 0)>>
    ELSE IF known = {} THEN <<decodePayload(n, data[1])>>
    ELSE <<decodePayload(n, data[CHOOSE k \in known : \A j \in known : k <= j])>>

ownEvents(chunks, n) ==
    LET decoder == DecoderOf[chunks[n].programId] IN
    CASE decoder = "all" -> decodeAll(n, chunks[n].data)
      [] decoder = "first" -> decodeFirst(n, chunks[n].data)
      [] decoder \in {"throws", "none"} -> <<Event(n, "unknown", 0)>>

\* walk(): a chunk's own events, then those of its children in order.
walk(chunks) ==
    LET W[n \in DOMAIN chunks] ==
          LET Children[k \in 0..Len(chunks[n].children)] ==
                IF k = 0 THEN ownEvents(chunks, n)
                ELSE Children[k - 1] \o W[chunks[n].children[k]]
          IN Children[Len(chunks[n].children)]
    IN W

Events(st) ==
    LET W == walk(st.chunks)
        Roots[k \in 0..Len(st.roots)] == IF k = 0 THEN <<>> ELSE Roots[k - 1] \o W[st.roots[k]]
    IN Roots[Len(st.roots)]

-----------------------------------------------------------------------------
(* Properties *)

\* The parser's state is well formed: the stack is a path of the tree
\* it built, and nothing on it is a success yet.
LogTypeOK ==
    /\ parser.errors \in Nat
    /\ parser.logTruncated = full
    /\ \A k \in DOMAIN parser.stack :
         IF k = 1 THEN Contains(parser.roots, parser.stack[1])
         ELSE Contains(parser.chunks[parser.stack[k - 1]].children, parser.stack[k])
    /\ \A n \in DOMAIN parser.chunks :
         /\ parser.chunks[n].programId \in LogPrograms
         /\ Contains(parser.stack, n) => ~parser.chunks[n].success

\* A log that was not cut short gives back exactly the invocations the runtime
\* made: the nesting, the outcome, the payloads and the return data of each,
\* and an error only for the lines that carry nothing (parse-logs.ts).
AttributedWhenWhole ==
    ~full => /\ parser.chunks = real
             /\ parser.stack = running
             /\ parser.errors = odd

\* What had ended before the log was cut stays as it was read then, whatever
\* the lines that follow look like: only open invocations can be misjudged.
SealedStayExact ==
    \A n \in sealed : n \in DOMAIN parser.chunks /\ parser.chunks[n] = real[n]

\* The event stream of a whole log follows the order of invocation; every
\* invocation speaks at least once, and every payload of a program whose
\* decoder reads them all has exactly one event, in the order of writing.
EventsInOrder ==
    (parsed /\ ~full) =>
      LET es == Events(parser) IN
      /\ \A i \in 1..Len(es) - 1 : es[i].chunk <= es[i + 1].chunk
      /\ \A n \in DOMAIN real :
           LET mine == SelectSeq(es, LAMBDA e : e.chunk = n) IN
           /\ mine # <<>>
           /\ DecoderOf[real[n].programId] = "all" =>
                SelectSeq([k \in DOMAIN mine |-> mine[k].payload], LAMBDA id : id # 0)
                  = [k \in DOMAIN real[n].data |-> real[n].data[k].id]

(* The safety of parse-logs.ts and the decoder registry.                   *)
LogSafe ==
    /\ LogTypeOK
    /\ SealedStayExact
    /\ AttributedWhenWhole
    /\ EventsInOrder
=============================================================================
