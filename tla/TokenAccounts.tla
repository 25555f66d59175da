--------------------------- MODULE TokenAccounts ---------------------------
(***************************************************************************)
(* The account decoders: SPL mints and token accounts, the extensions that *)
(* follow them under Token-2022, Metaplex metadata records, and the holder *)
(* queries.  An account is a sequence of cells, one for each scalar of its *)
(* layout (an integer, a key, a tag or a length, whatever its width); it   *)
(* is written whole, and then reaches the decoder as it was written, cut   *)
(* short or with one cell changed.                                         *)
(***************************************************************************)
EXTENDS Integers, Sequences, FiniteSets, SequencesExt, FiniteSetsExt

CONSTANTS
    Scalars,        \* values of a cell; 0 is the all-zero key too
    Noise,          \* those a damaged cell takes
    Extensions,     \* [type, data] an account may carry
    Names,          \* strings of a metadata record, as cells
    TokenHolders,       \* token accounts of the holders' mint
    FastLimit       \* the 20 entries getTokenLargestAccounts is capped at

ASSUME TokenAssumption == 0 \in Scalars /\ Scalars \subseteq Nat /\ Noise \subseteq Scalars /\ FastLimit \in Nat

VARIABLES
    layout,     \* what was asked for: "none", "mint", "account", "metadata" or "holders"
    program,    \* the owner: "spl-v1" or "token-2022"
    written,    \* the fields of the base, each a sequence of cells; <<>> is null
    carried,    \* the extensions after it
    data,       \* the cells
    damage,     \* "none", "cut" or "changed"
    hurt,       \* the first cell that is not as written
    ledger,     \* ledger[a]: the amount and the program of a at the last holders()
    found       \* its result: [limit, seq]

tokenVars == <<layout, program, written, carried, data, damage, hurt, ledger, found>>

---------------------------------------------------------------------------
(* borsh.Reader.  A read gives the value, the cursor after it and an error:*)
(* "eof", "tag" (an option's tag) or "bad" (another invalid value).        *)
Legal == [u |-> Scalars, bool |-> {0, 1}, state |-> 0..2, standard |-> 0..4, method |-> 0..2,
          variant |-> {0}]

sub(d, from, to) == [k \in 1..((IF to < Len(d) THEN to ELSE Len(d)) - from + 1) |-> d[from + k - 1]]

readScalars(d, at, kinds) ==
    LET end == at + Len(kinds)
        bad == {k \in DOMAIN kinds : at + k - 1 <= Len(d) /\ d[at + k - 1] \notin Legal[kinds[k]]}
    IN [at |-> end, value |-> IF end <= Len(d) + 1 THEN SubSeq(d, at, end - 1) ELSE <<>>,
        err |-> IF bad # {} THEN "bad" ELSE IF end > Len(d) + 1 THEN "eof" ELSE "ok"]

Repeat(s, n) == FlattenSeq([k \in 1..n |-> s])

(* readVec() and readString(): a count and that many items. *)
readVec(d, at, item) ==
    LET n == readScalars(d, at, <<"u">>)
        s == readScalars(d, n.at, IF n.err = "ok" THEN Repeat(item, n.value[1]) ELSE <<>>)
    IN IF n.err # "ok" THEN n ELSE [s EXCEPT !.value = n.value \o @]

(* readMetaplexCOption(): a tag, and the item after it only if it is there. *)
readMetaplexCOption(d, at, item) ==
    LET tag == readScalars(d, at, <<"u">>)
    IN CASE tag.err # "ok"    -> tag
         [] tag.value = <<0>> -> [tag EXCEPT !.value = <<>>]
         [] tag.value = <<1>> -> item
         [] OTHER             -> [tag EXCEPT !.err = "tag"]

(* readCOptionPubkey(), readCOptionU64(): the value is read whatever the tag. *)
readCOption(d, at) ==
    LET r == readScalars(d, at, <<"u", "u">>)
    IN CASE r.err # "ok"     -> r
         [] r.value[1] = 0   -> [r EXCEPT !.value = <<>>]
         [] r.value[1] = 1   -> [r EXCEPT !.value = <<@[2]>>]
         [] OTHER            -> [r EXCEPT !.err = "bad"]

(* stripNulPadding(). *)
stripNulPadding(s) ==
    LET last == Max({0} \cup {k \in DOMAIN s : s[k] # 0}) IN SubSeq(s, 1, last)

Creator == <<"u", "bool", "u">>
Block == [nonce |-> <<"u">>, tokenStandard |-> <<"standard">>, collection |-> <<"bool", "u">>,
          uses |-> <<"method", "u", "u">>, details |-> <<"variant", "u">>]

readField(kind, d, at) ==
    CASE kind \in DOMAIN Legal -> readScalars(d, at, <<kind>>)
      [] kind = "spl"      -> readCOption(d, at)
      [] kind = "string"   -> LET r == readVec(d, at, <<"u">>)
                              IN IF r.err = "ok" THEN [r EXCEPT !.value = stripNulPadding(Tail(@))] ELSE r
      [] kind = "creators" -> readMetaplexCOption(d, at, readVec(d, at + 1, Creator))
      [] kind \in DOMAIN Block ->
             readMetaplexCOption(d, at, readScalars(d, at + 1, Block[kind]))

(* One field after the other, up to the first error. *)
withField(p, f) == [at |-> f.at, err |-> f.err, value |-> Append(p.value, f.value)]
fieldAfter(p, d, kind) ==
    IF p.err # "ok" THEN p ELSE withField(p, readField(kind, d, p.at))

readFields(d, at, kinds) ==
    LET r[k \in 0..Len(kinds)] ==
            IF k = 0 THEN [at |-> at, err |-> "ok", value |-> <<>>]
            ELSE fieldAfter(r[k - 1], d, kinds[k])
    IN r[Len(kinds)]

(* borsh.Writer, and the same fields as the programs write them. *)
writeField(kind, v) ==
    CASE kind = "spl"      -> IF v = <<>> THEN <<0, 0>> ELSE <<1>> \o v
      [] kind = "string"   -> <<Len(v)>> \o v
      [] kind \in {"creators"} \cup DOMAIN Block -> IF v = <<>> THEN <<0>> ELSE <<1>> \o v
      [] OTHER             -> v
writeFields(kinds, vs) == FlattenSeq([k \in DOMAIN vs |-> writeField(kinds[k], vs[k])])

---------------------------------------------------------------------------
(* SPL. *)
MintFields == <<"spl", "u", "u", "bool", "spl">>
AccountFields == <<"u", "u", "u", "spl", "state", "spl", "u", "spl">>
MINT_ACCOUNT_SIZE == 7
TOKEN_ACCOUNT_SIZE == 11
TypeCell == [mint |-> 1, account |-> 2]
Decoded == [mint |-> {1, 3, 6}, account |-> {}]     \* the extension types decoded

(* readTlvEntries(): up to a type of 0 or less than a whole header. *)
readTlvEntries(d, from) ==
    LET r[at \in from..(Len(d) + 1)] ==
            IF at + 1 > Len(d) \/ d[at] = 0 THEN [ok |-> TRUE, entries |-> <<>>]
            ELSE LET end == at + 2 + d[at + 1]
                     rest == r[end]
                 IN IF end > Len(d) + 1 THEN [ok |-> FALSE, entries |-> <<>>]
                    ELSE [ok |-> rest.ok,
                          entries |-> <<[type |-> d[at], size |-> d[at + 1], data |-> sub(d, at + 2, end - 1)]>>
                                      \o rest.entries]
    IN r[from]

nullIfZero(key) == IF key = 0 THEN <<>> ELSE <<key>>
decodeTransferFee(s) == SubSeq(s, 1, 3)

(* The structured payloads; one that is too short throws, a longer one is  *)
(* read as far as its layout goes.                                         *)
decodeExtension(type, s) ==
    CASE type = 3 /\ Len(s) >= 1 -> [ok |-> TRUE, value |-> <<nullIfZero(s[1])>>]
      [] type = 1 /\ Len(s) >= 9 ->
             [ok |-> TRUE, value |-> <<nullIfZero(s[1]), nullIfZero(s[2]), <<s[3]>>,
                                       decodeTransferFee(SubSeq(s, 4, 6)), decodeTransferFee(SubSeq(s, 7, 9))>>]
      [] type = 6 /\ Len(s) >= 1 -> [ok |-> s[1] \in Legal.state, value |-> << <<s[1]>> >>]
      [] OTHER -> [ok |-> FALSE, value |-> <<>>]

knownFor(kind) == Decoded[kind]

(* decodeExtensions(): known types by name, the last of each, and every    *)
(* other entry in order.                                                   *)
NoExtensions == [ok |-> TRUE, known |-> {}, unknown |-> <<>>, entries |-> <<>>]
sortEntries(ok, es, kind) ==
    LET known == {k \in DOMAIN es : es[k].type \in knownFor(kind)}
        last == {k \in known : \A j \in known : es[j].type = es[k].type => j <= k}
    IN [ok |-> ok /\ \A k \in known : decodeExtension(es[k].type, es[k].data).ok,
        known |-> {[type |-> es[k].type, value |-> decodeExtension(es[k].type, es[k].data).value]
                      : k \in IF kind = "mint" THEN last ELSE {}},
        unknown |-> SelectSeq(es, LAMBDA e : e.type \notin knownFor(kind)),
        entries |-> es]

decodeExtensions(d, kind) ==
    IF Len(d) <= TOKEN_ACCOUNT_SIZE \/ d[TOKEN_ACCOUNT_SIZE + 1] = 0 THEN NoExtensions
    ELSE LET tlv == readTlvEntries(d, TOKEN_ACCOUNT_SIZE + 2)
         IN sortEntries(tlv.ok, tlv.entries, kind)

fieldsOf(r) == [ok |-> r.err = "ok", fields |-> r.value]
decodeBase(d, kinds, size) ==
    IF Len(d) < size THEN [ok |-> FALSE, fields |-> <<>>]
    ELSE fieldsOf(readFields(SubSeq(d, 1, size), 1, kinds))

(* decodeMint(), decodeTokenAccount(). *)
account(base, ext) == [ok |-> base.ok /\ ext.ok, fields |-> base.fields, ext |-> ext]
decodeAfter(base, d, kind, owner) ==
    account(base, IF owner = "token-2022" /\ base.ok THEN decodeExtensions(d, kind) ELSE NoExtensions)
decode(d, kind, owner) ==
    decodeAfter(IF kind = "mint" THEN decodeBase(d, MintFields, MINT_ACCOUNT_SIZE)
                ELSE decodeBase(d, AccountFields, TOKEN_ACCOUNT_SIZE), d, kind, owner)

---------------------------------------------------------------------------
(* Metaplex.  A block of optional fields is read while cells remain; one   *)
(* that cannot be read is rolled back, with those after it.                *)
MetadataFields == <<"u", "u", "u", "string", "string", "string", "u", "creators", "bool", "bool">>
Blocks == << <<"nonce">>, <<"tokenStandard", "collection", "uses">>, <<"details">> >>
Tolerated == << {"eof"}, {"eof", "tag"}, {"eof", "tag"} >>
Version == <<"v1", "v1.3", "current">>
Nulls(b) == [k \in DOMAIN Blocks[b] |-> <<>>]

keptBlock(b, r) == IF r.err = "ok" THEN r.value ELSE Nulls(b)

withBlock(p, b, f) ==
    [at |-> f.at, stop |-> f.err # "ok",
     err |-> IF f.err = "ok" \/ f.err \in Tolerated[b] THEN "ok" ELSE f.err,
     version |-> IF f.err = "ok" THEN Version[b] ELSE p.version,
     blocks |-> Append(p.blocks, keptBlock(b, f))]
blockAfter(p, b, d) ==
    IF p.err # "ok" \/ p.stop \/ p.at > Len(d) THEN [p EXCEPT !.blocks = Append(@, Nulls(b))]
    ELSE withBlock(p, b, readFields(d, p.at, Blocks[b]))

recordOf(base, r) == [ok |-> r.err = "ok", fields |-> base.value, version |-> r.version, blocks |-> r.blocks]
blocksAfter(base, d) ==
    LET r[b \in 0..3] ==
            IF b = 0 THEN [at |-> base.at, err |-> base.err, stop |-> FALSE, version |-> "v1", blocks |-> <<>>]
            ELSE blockAfter(r[b - 1], b, d)
    IN recordOf(base, r[3])

decodeMetadata(d) == blocksAfter(readFields(d, 1, MetadataFields), d)

---------------------------------------------------------------------------
(* holders(): up to FastLimit from the validator's index, which is sorted;  *)
(* beyond it a scan of the classic program's accounts of one size, sorted   *)
(* here.  order is the order the RPC node has the accounts in.             *)
largestFirst(s) ==
    LET by == SetToSortSeq(DOMAIN s, LAMBDA i, j :
                  \/ ledger'[s[i]].amount > ledger'[s[j]].amount
                  \/ ledger'[s[i]].amount = ledger'[s[j]].amount /\ i < j)
    IN [k \in DOMAIN s |-> s[by[k]]]
sorted(s) == largestFirst(s)
firstOf(n, s) == SubSeq(s, 1, IF n < Len(s) THEN n ELSE Len(s))

getTokenLargestAccounts(order) == firstOf(FastLimit, largestFirst(order))
getTokenAccountsByMint(order) == SelectSeq(order, LAMBDA a : ledger'[a].program = "spl-v1")

Holders(balances, owner, order, limit) ==
    /\ layout = "none" /\ layout' = "holders"
    /\ ledger' = [a \in TokenHolders |-> [amount |-> balances[a], program |-> owner]]
    /\ found' = [limit |-> limit,
                 seq |-> firstOf(limit, IF limit <= FastLimit THEN getTokenLargestAccounts(order)
                                        ELSE sorted(getTokenAccountsByMint(order)))]
    /\ UNCHANGED <<program, written, carried, data, damage, hurt>>

---------------------------------------------------------------------------
(* What the programs write. *)
Opt(S) == {<<>>} \cup S
MintAccounts == {<<a, <<3>>, <<1>>, <<1>>, f>> : a \in Opt({<<2>>}), f \in Opt({<<1>>})}
TokenAccounts == {<< <<1>>, <<2>>, <<3>>, d, <<1>>, n, <<0>>, c>> :
                     d \in Opt({<<2>>}), n \in Opt({<<1>>}), c \in Opt({<<3>>})}
MetadataRecords == {<< <<4>>, <<1>>, <<2>>, name, <<>>, <<>>, <<3>>, c, <<0>>, <<1>>, e>> \o middle \o <<z>> :
               name \in Names, c \in Opt({<<0>>, <<1, 2, 1, 3>>}), e \in Opt({<<3>>}),
               middle \in {Nulls(2), << <<2>>, <<>>, <<0, 1, 2>> >>, << <<>>, <<1, 2>>, <<>> >>},
               z \in Opt({<<0, 5>>})}

writeTlv(es) == FlattenSeq([k \in DOMAIN es |-> <<es[k].type, Len(es[k].data)>> \o es[k].data])
writeExtended(base, kind, es) ==
    IF es = <<>> THEN base
    ELSE base \o Repeat(<<0>>, TOKEN_ACCOUNT_SIZE - Len(base)) \o <<TypeCell[kind]>> \o writeTlv(es)

Lists == {<<>>} \cup {<<e>> : e \in Extensions}
            \cup {l \in Extensions \X Extensions : l[1].type # l[2].type}

Written(l, p, fs, c, d) ==
    /\ layout = "none"
    /\ layout' = l /\ program' = p /\ written' = fs /\ carried' = c /\ data' = d
    /\ hurt' = Len(d) + 1
    /\ UNCHANGED <<damage, ledger, found>>

WriteMint(p, fs, es) ==
    /\ p = "spl-v1" => es = <<>>
    /\ Written("mint", p, fs, es, writeExtended(writeFields(MintFields, fs), "mint", es))
WriteAccount(p, fs, es) ==
    /\ p = "spl-v1" => es = <<>>
    /\ Written("account", p, fs, es, writeExtended(writeFields(AccountFields, fs), "account", es))

(* A record of a version of the Metaplex program that knew n blocks; one    *)
(* written into an account of fixed size is followed by zeros, which reads  *)
(* as every later field being null.                                        *)
FieldsBefore(n) == <<10, 11, 14, 15>>[n + 1]
RecordKinds == MetadataFields \o FlattenSeq(Blocks)
WriteMetadata(fs, n, zeros) ==
    LET known == SubSeq(fs, 1, FieldsBefore(n)) \o Repeat(<< <<>> >>, IF zeros THEN 15 - FieldsBefore(n) ELSE 0)
    IN Written("metadata", "metaplex", known, <<>>,
               writeFields(RecordKinds, known) \o (IF zeros THEN <<0>> ELSE <<>>))

Cut(n) ==
    /\ layout # "none" /\ damage = "none" /\ n < Len(data)
    /\ damage' = "cut" /\ data' = SubSeq(data, 1, n) /\ hurt' = n + 1
    /\ UNCHANGED <<layout, program, written, carried, ledger, found>>

Change(k, v) ==
    /\ layout # "none" /\ damage = "none" /\ k \in DOMAIN data /\ data[k] # v
    /\ damage' = "changed" /\ data' = [data EXCEPT ![k] = v] /\ hurt' = k
    /\ UNCHANGED <<layout, program, written, carried, ledger, found>>

TokenInit ==
    /\ layout = "none" /\ program = "none" /\ written = <<>> /\ carried = <<>> /\ data = <<>>
    /\ damage = "none" /\ hurt = 1
    /\ ledger = [a \in TokenHolders |-> [amount |-> 0, program |-> "spl-v1"]]
    /\ found = [limit |-> 0, seq |-> <<>>]

\* The chain writes one account, or a ledger, and it reaches the decoder as it may.
Write ==
    \/ \E p \in {"spl-v1", "token-2022"}, es \in Lists :
          \/ \E fs \in MintAccounts : WriteMint(p, fs, es)
          \/ \E fs \in TokenAccounts : WriteAccount(p, fs, es)
    \/ \E fs \in MetadataRecords, n \in 0..3, zeros \in BOOLEAN : WriteMetadata(fs, n, zeros)
    \/ \E balances \in [TokenHolders -> 0..2], owner \in {"spl-v1", "token-2022"}, limit \in 0..(FastLimit + 2),
          order \in SetToSeqs(TokenHolders) : Holders(balances, owner, order, limit)

TokenNext ==
    \/ layout = "none" /\ Write
    \/ \E n \in 0..Len(data) : Cut(n)
    \/ \E k \in DOMAIN data, v \in Noise : Change(k, v)

TokenSpec == TokenInit /\ [][TokenNext]_tokenVars

---------------------------------------------------------------------------
TokenTypeOK ==
    /\ layout \in {"none", "mint", "account", "metadata", "holders"}
    /\ data \in Seq(Scalars)
    /\ hurt \in 1..(Len(data) + 1)
    /\ layout \in DOMAIN TypeCell =>
          \A k \in DOMAIN decode(data, layout, program).ext.entries :
              LET e == decode(data, layout, program).ext.entries[k] IN Len(e.data) = e.size

(* The extension a decoded one was read from. *)
Rewritten(value) == FlattenSeq([k \in DOMAIN value |-> IF value[k] = <<>> THEN <<0>> ELSE value[k]])
Entry(e) == [type |-> e.type, size |-> Len(e.data), data |-> e.data]

(* An account as the chain wrote it reads back field by field, an absent    *)
(* option taking the room of a present one, and every extension it carries *)
(* is either decoded or handed over as it is, in order ("unknown variants   *)
(* emit typed records").                                                   *)
ReadsWhole(r) ==
    LET other == SelectSeq(carried, LAMBDA e : e.type \notin {x.type : x \in r.ext.known})
    IN /\ r.ok /\ r.fields = written
       /\ r.ext.unknown = [k \in DOMAIN other |-> Entry(other[k])]
       /\ {[type |-> x.type, data |-> Rewritten(x.value)] : x \in r.ext.known}
             = {e \in ToSet(carried) : layout = "mint" /\ e.type \in {1, 3, 6}}
NothingIsLost ==
    damage = "none" /\ layout \in DOMAIN TypeCell => ReadsWhole(decode(data, layout, program))

Kinds == CASE layout = "mint" -> MintFields [] layout = "account" -> AccountFields [] OTHER -> RecordKinds
FieldEnd(k) == Len(writeFields(Kinds, SubSeq(written, 1, k)))
EntryEnd(j) == TOKEN_ACCOUNT_SIZE + 1 + Len(writeTlv(SubSeq(carried, 1, j)))
AsRead(k) == IF RecordKinds[k] = "string" THEN stripNulPadding(written[k]) ELSE written[k]
WholeBlock(b) == Len(written) >= FieldsBefore(b) /\ FieldEnd(FieldsBefore(b)) < hurt
WrittenBlock(b) == [k \in DOMAIN Blocks[b] |-> AsRead(FieldsBefore(b - 1) + k)]

(* An account that was cut short or has a wrong cell is refused, or reads   *)
(* as written in every field the damage is not in: the fields of a mint or *)
(* a token account do not move, and extensions and metadata fields before  *)
(* the damage are exact.  A cut is accepted only between two extensions or  *)
(* inside the header of one.                                               *)
RestIsWhole(r) ==
    LET whole == {j \in DOMAIN carried : EntryEnd(j) < hurt}
    IN r.ok =>
         /\ \A k \in DOMAIN written :
               FieldEnd(k) < hurt \/ FieldEnd(k - 1) >= hurt => r.fields[k] = written[k]
         /\ hurt > TOKEN_ACCOUNT_SIZE + 1 => \A j \in whole : r.ext.entries[j] = Entry(carried[j])
         /\ damage = "cut" /\ hurt > TOKEN_ACCOUNT_SIZE + 1 =>
               /\ Len(r.ext.entries) = Cardinality(whole)
               /\ hurt <= EntryEnd(Cardinality(whole)) + 2
RecordIsWhole(r) ==
    r.ok => /\ \A k \in 1..10 : FieldEnd(k) < hurt => r.fields[k] = AsRead(k)
            /\ \A b \in 1..3 : WholeBlock(b) => r.blocks[b] = WrittenBlock(b)
DamageIsContained ==
    /\ damage # "none" /\ layout \in DOMAIN TypeCell => RestIsWhole(decode(data, layout, program))
    /\ damage = "changed" /\ layout = "metadata" => RecordIsWhole(decodeMetadata(data))

(* A metadata record cut anywhere after its base decodes, and each block of *)
(* optional fields is there whole or not at all; the version is the last    *)
(* block read ("the highest tier whose trailing optional block we          *)
(* successfully consumed").                                                *)
TiersAreTrue(r) ==
    LET read == {b \in 1..3 : WholeBlock(b)}
    IN /\ r.ok = (FieldEnd(10) < hurt)
       /\ r.ok => /\ \A k \in 1..10 : r.fields[k] = AsRead(k)
                  /\ \A b \in 1..3 : r.blocks[b] = IF b \in read THEN WrittenBlock(b) ELSE Nulls(b)
                  /\ r.version = IF read = {} THEN "v1" ELSE Version[Max(read)]
BlocksAreWhole ==
    layout = "metadata" /\ damage # "changed" => TiersAreTrue(decodeMetadata(data))

(* holders() returns the largest accounts of a classic mint, as many as     *)
(* there are up to the limit, largest first, on either path; of a           *)
(* Token-2022 mint it finds none beyond the index, which the scan never    *)
(* asks the Token-2022 program for.                                        *)
HoldersAreTheLargest ==
    LET s == found.seq
        n == IF found.limit < Cardinality(TokenHolders) THEN found.limit ELSE Cardinality(TokenHolders)
        classic == \A a \in TokenHolders : ledger[a].program = "spl-v1"
    IN /\ Len(s) = IF classic \/ found.limit <= FastLimit THEN n ELSE 0
       /\ \A i, j \in DOMAIN s : i < j => s[i] # s[j] /\ ledger[s[i]].amount >= ledger[s[j]].amount
       /\ s # <<>> => \A a \in TokenHolders \ ToSet(s) : ledger[a].amount <= ledger[Last(s)].amount

(* The safety of the decoders and of the holder query.                     *)
TokenSafe ==
    /\ TokenTypeOK
    /\ NothingIsLost
    /\ DamageIsContained
    /\ BlocksAreWhole
    /\ HoldersAreTheLargest
=============================================================================
