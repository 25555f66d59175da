----------------------------- MODULE IdlDecoding -----------------------------
(***************************************************************************)
(* decodeIdlEvent() and decodeIdlAccount() (packages/pumpfun-events/       *)
(* idl-decoder.ts) against a program that is upgraded while its accounts   *)
(* stay: fields are appended, or put where reserved bytes were; an old     *)
(* account keeps its padding until the program writes it again; a reader   *)
(* may have asked for a slice.                                             *)
(*                                                                         *)
(* A byte is a cell of base Radix, a length or a discriminator is one cell.*)
(* A value is the sequence of numbers it is made of.                       *)
(***************************************************************************)
EXTENDS Integers, Sequences, SequencesExt, FiniteSets, FiniteSetsExt

CONSTANTS
    Radix,      \* values of a cell
    Layouts,    \* accounts of the schema: [fields, legacy, previous, padded]
    EventFields \* fields of the event

ASSUME IdlAssumption ==
    /\ Radix \in Nat \ {0, 1}
    /\ \A l \in Layouts : l.previous \in 0..Len(l.fields)

\* A field is [name, type]; a type names its kind, and the types and sizes in it.
Number(size, signed) == [kind |-> "int", size |-> size, signed |-> signed]
Bool == [kind |-> "bool"]
Vec(type) == [kind |-> "vec", of |-> type]
Option(type) == [kind |-> "option", of |-> type]
Array(type, n) == [kind |-> "array", of |-> type, n |-> n]
Enum(variants) == [kind |-> "enum", variants |-> variants]
Field(name, type) == [name |-> name, type |-> type]

VARIABLES
    release,    \* version of the program: "old" or "new"
    stored,     \* <<>>, or the account or event under study: layout, version, values
    bytes,      \* its data as a reader gets it
    answer      \* <<>>, or what the reader was told last

idlVars == <<release, stored, bytes, answer>>

IdlInit == release = "old" /\ stored = <<>> /\ bytes = <<>> /\ answer = <<>>

-----------------------------------------------------------------------------
(* The decoder.  A cursor is [at, ok, value]; ~ok: decodeValue() threw.     *)

Thrown == [at |-> 1, ok |-> FALSE, value |-> <<>>]

\* Cursor.take(): a RangeError when fewer than n cells are left.
take(cells, at, n) ==
    IF at + n - 1 > Len(cells) THEN Thrown
    ELSE [at |-> at + n, ok |-> TRUE, value |-> SubSeq(cells, at, at + n - 1)]

uintLE(cells) == FoldRight(LAMBDA cell, v : v * Radix + cell, cells, 0)
intLE(cells) ==
    LET all == Radix ^ Len(cells)
        u == uintLE(cells)
    IN  IF 2 * u >= all THEN u - all ELSE u

RECURSIVE decodeValue(_, _, _)
\* n values of one type, one after the other.
decodeMany(cells, at, types) ==
    FoldLeft(LAMBDA c, type :
        IF ~c.ok THEN c
        ELSE LET d == decodeValue(cells, c.at, type)
             IN  IF d.ok THEN [d EXCEPT !.value = c.value \o @] ELSE d,
        [at |-> at, ok |-> TRUE, value |-> <<>>], types)

decodeValue(cells, at, type) ==
    LET head == take(cells, at, IF type.kind = "int" THEN type.size
                               ELSE IF type.kind = "array" THEN 0 ELSE 1)
        \* The value that follows a tag or a length, which is kept before it.
        tagged(types) ==
            LET d == decodeMany(cells, head.at, types)
            IN  [d EXCEPT !.value = IF d.ok THEN head.value \o @ ELSE @]
    IN  IF ~head.ok THEN Thrown
        ELSE CASE type.kind = "int" ->
                    [head EXCEPT !.value =
                        <<IF type.signed THEN intLE(@) ELSE uintLE(@)>>]
               [] type.kind = "bool" -> [head EXCEPT !.value = <<IF @[1] # 0 THEN 1 ELSE 0>>]
               [] type.kind = "vec" -> tagged([i \in 1..head.value[1] |-> type.of])
               [] type.kind = "option" ->
                    IF head.value[1] = 0 THEN head
                    ELSE [tagged(<<type.of>>) EXCEPT !.value =
                            IF @ = <<>> THEN @ ELSE <<1>> \o Tail(@)]
               [] type.kind = "array" -> decodeMany(cells, at, [i \in 1..type.n |-> type.of])
               [] type.kind = "enum" ->
                    IF head.value[1] >= Len(type.variants) THEN Thrown
                    ELSE tagged(type.variants[head.value[1] + 1])

\* The loop both decoders have: it ends at the end of the data if that is the end
\* of a field, and throws if it is not.
decodeFields(cells, fields) ==
    FoldLeft(LAMBDA c, f :
        CASE ~c.ok \/ ~c.complete -> c
          [] c.ok /\ c.complete /\ c.at > Len(cells) -> [c EXCEPT !.complete = FALSE]
          [] OTHER ->
             LET d == decodeValue(cells, c.at, f.type)
             IN  [at |-> d.at, ok |-> d.ok, complete |-> TRUE,
                  fields |-> Append(c.fields, [name |-> f.name, value |-> d.value])],
        [at |-> 2, ok |-> TRUE, complete |-> TRUE, fields |-> <<>>], fields)

Answer(read, fields, layoutVersion, asked) ==
    [threw |-> ~read.ok, fields |-> IF read.ok THEN ToSet(fields) ELSE {},
     complete |-> read.complete, layoutVersion |-> layoutVersion, asked |-> asked]

NoAnswer(asked) ==
    [threw |-> TRUE, fields |-> {}, complete |-> FALSE, layoutVersion |-> "", asked |-> asked]

decodeIdlEvent(cells) ==
    LET read == decodeFields(cells, EventFields) IN Answer(read, read.fields, "", "")

Named(fields) == {fields[k].name : k \in DOMAIN fields}

\* The fields to read: without an asked-for version the layout that was replaced,
\* or, for a length that an old account may have, the fields both versions begin with.
selected(layout, asked, padded) ==
    IF layout.legacy # <<>> /\ asked # "new" THEN layout.legacy
    ELSE IF layout.previous # 0 /\ (asked = "old" \/ padded)
         THEN SubSeq(layout.fields, 1, layout.previous) ELSE layout.fields

\* paddedAmbiguity.
ambiguous(layout, asked, cells) == asked = "" /\ Len(cells) \in layout.padded

\* What both layouts have at one place, when one took the place of the other.
common(layout) == Named(layout.fields) \ {"_reserved"}

\* Mutant: only a layout that was replaced makes the version unknown.
unsureReplaced(layout, asked, cells) == layout.legacy # <<>> /\ asked = ""

unsure(layout, asked, cells) ==
    (layout.legacy # <<>> /\ asked = "") \/ ambiguous(layout, asked, cells)

decodeIdlAccount(layout, cells, asked) ==
    LET read == decodeFields(cells, selected(layout, asked, ambiguous(layout, asked, cells)))
    IN  IF /\ asked \notin {"", "old", "new"}
           /\ layout.legacy # <<>> \/ layout.previous # 0
        THEN NoAnswer(asked)
        ELSE Answer(read,
                IF layout.legacy # <<>> /\ asked = ""
                THEN SelectSeq(read.fields, LAMBDA f : f.name \in common(layout))
                ELSE read.fields,
                IF unsure(layout, asked, cells) THEN "unknown" ELSE "", asked)

-----------------------------------------------------------------------------
(* The program, and the reader.                                            *)

\* Cells of each value a type has, at most one element to a vector.
RECURSIVE Encodings(_)
Encodings(type) ==
    LET join(A, B) == {a \o b : a \in A, b \in B}
        many[n \in Nat] == IF n = 0 THEN {<<>>} ELSE join(Encodings(type.of), many[n - 1])
        row(types) == FoldLeft(LAMBDA A, t : join(A, Encodings(t)), {<<>>}, types)
    IN  CASE type.kind = "int" -> [1..type.size -> {0, Radix - 1}]
          [] type.kind = "bool" -> {<<0>>, <<1>>}
          [] type.kind = "vec" -> {<<0>>} \union join({<<1>>}, many[1])
          [] type.kind = "option" -> {<<0>>} \union join({<<1>>}, many[1])
          [] type.kind = "array" -> many[type.n]
          [] type.kind = "enum" ->
               UNION {join({<<k - 1>>}, row(type.variants[k])) : k \in DOMAIN type.variants}

FieldsOf(layout, version) ==
    CASE version = "new" -> layout.fields
      [] version = "old" /\ layout.legacy # <<>> -> layout.legacy
      [] OTHER -> SubSeq(layout.fields, 1, layout.previous)

FieldCells(fields) ==
    FoldLeft(LAMBDA A, f : {Append(a, c) : a \in A, c \in Encodings(f.type)}, {<<>>}, fields)

Values(fields, cells) ==
    {[name |-> fields[k].name, value |-> decodeValue(cells[k], 1, fields[k].type).value] :
        k \in DOMAIN fields}

\* The program writes an account of its version, into the allocation it has: an
\* old one may be longer than its fields, by zeros.
WriteRow(layout, cells, size) ==
    LET fields == FieldsOf(layout, release)
        data == <<1>> \o FlattenSeq(cells)
    IN  /\ stored = <<>>
        /\ \/ size = Len(data)
           \/ size > Len(data) /\ size \in layout.padded /\ release = "old"
        /\ stored' = <<[kind |-> "account", layout |-> layout, by |-> release,
                        values |-> Values(fields, cells), whole |-> TRUE, padded |-> size > Len(data)]>>
        /\ bytes' = data \o [i \in 1..(size - Len(data)) |-> 0]
        /\ answer' = <<>> /\ UNCHANGED release

\* An event as one of the program's versions emits it: with the first n fields.
EmitRow(n, cells) ==
    LET fields == SubSeq(EventFields, 1, n)
    IN  /\ stored = <<>>
        /\ stored' = <<[kind |-> "event", values |-> Values(fields, cells), whole |-> TRUE, padded |-> FALSE,
                        by |-> IF n = Len(EventFields) THEN "new" ELSE "old"]>>
        /\ bytes' = <<1>> \o FlattenSeq(cells)
        /\ answer' = <<>> /\ UNCHANGED release

Upgrade ==
    /\ release = "old" /\ release' = "new"
    /\ answer' = <<>> /\ UNCHANGED <<stored, bytes>>

\* A slice of the data.
Slice(n) ==
    /\ stored # <<>> /\ stored[1].whole /\ n \in 1..(Len(bytes) - 1)
    /\ bytes' = SubSeq(bytes, 1, n) /\ stored' = [stored EXCEPT ![1].whole = FALSE]
    /\ answer' = <<>> /\ UNCHANGED release

ReadAccount(asked) ==
    /\ stored # <<>> /\ stored[1].kind = "account" /\ answer = <<>>
    /\ answer' = <<decodeIdlAccount(stored[1].layout, bytes, asked)>>
    /\ UNCHANGED <<release, stored, bytes>>

ReadEvent ==
    /\ stored # <<>> /\ stored[1].kind = "event" /\ answer = <<>>
    /\ answer' = <<decodeIdlEvent(bytes)>>
    /\ UNCHANGED <<release, stored, bytes>>

IdlNext ==
    \/ \E l \in Layouts : \E cells \in FieldCells(FieldsOf(l, release)) :
         \E size \in l.padded \union {1 + Len(FlattenSeq(cells))} : WriteRow(l, cells, size)
    \/ \E n \in 1..Len(EventFields) : \E cells \in FieldCells(SubSeq(EventFields, 1, n)) :
         EmitRow(n, cells)
    \/ Upgrade
    \/ \E n \in 1..Len(bytes) : Slice(n)
    \/ \E asked \in {"", "old", "new", "guessed"} : ReadAccount(asked)
    \/ ReadEvent

IdlSpec == IdlInit /\ [][IdlNext]_idlVars

-----------------------------------------------------------------------------
(* Properties.                                                              *)

IdlTypeOK ==
    /\ release \in {"old", "new"}
    /\ Len(stored) <= 1 /\ Len(answer) <= 1
    /\ answer # <<>> => (answer[1].threw => answer[1].fields = {})
    /\ \A k \in DOMAIN bytes : bytes[k] \in 0..(Radix - 1)

Told == answer # <<>> /\ ~answer[1].threw
What == stored[1]

\* Neither decoder invents a field: whatever it returns without having been told a
\* newer version than the account's has the value the program wrote for that name.
\* So zeros of a retained allocation are never a fee, and reserved bytes never an
\* administrator.  A slice that ends in the padding is the exception: its length is
\* not one the decoder knows.
NothingIsInvented ==
    (Told /\ ~(answer[1].asked = "new" /\ What.by = "old") /\ (What.padded => What.whole)) =>
        \/ answer[1].fields \subseteq What.values
        \* Told an older layout than the one a field was put into.
        \/ answer[1].asked = "old" /\ What.by = "new" /\ What.layout.legacy # <<>>

\* Nothing is left out in silence: from an account or an event that was read whole,
\* with no version or with its own, every field comes back, unless the answer says
\* that the version is unknown.
NothingIsHidden ==
    (Told /\ What.whole /\ answer[1].asked \in {"", What.by}) =>
        What.values \subseteq answer[1].fields \/ answer[1].layoutVersion = "unknown"

\* A reader that names the version an account was written in gets exactly its fields.
VersionSettlesIt ==
    (answer # <<>> /\ What.kind = "account" /\ What.whole /\ answer[1].asked = What.by) =>
        ~answer[1].threw /\ answer[1].fields = What.values

\* An event is called complete when it has every field of today's layout, and a
\* slice that ends inside of a field is refused.
IncompleteIsTold ==
    (answer # <<>> /\ What.kind = "event") =>
        /\ Told => (answer[1].complete <=> Named(EventFields) = {f.name : f \in answer[1].fields})
        /\ What.whole => Told
        /\ ~What.whole /\ Told => ~answer[1].complete

\* Refuted.  "Throws when [...] the data is shorter than the layout"
\* (idl-decoder.ts:141): a slice that ends where a field does is read as an older
\* layout would be, without the fields behind it.
ShorterThrows ==
    (answer # <<>> /\ What.kind = "account" /\ ~What.whole /\ ~What.padded
        /\ answer[1].asked = What.by) => answer[1].threw

(* The safety of idl-decoder.ts across versions of the program.            *)
IdlSafe ==
    /\ IdlTypeOK
    /\ VersionSettlesIt
    /\ NothingIsInvented
    /\ NothingIsHidden
    /\ IncompleteIsTold
=============================================================================
