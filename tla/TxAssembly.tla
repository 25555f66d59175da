----------------------------- MODULE TxAssembly -----------------------------
(***************************************************************************)
(* Assembling, signing and reading back a v0 transaction                   *)
(* (transaction-assembler.ts and transaction-codec.ts of solana-tx).  A    *)
(* message is kept as its parts, with the lengths its header counts; bytes *)
(* are left out.  Tables are the address lookup tables passed in, in their *)
(* order.                                                                  *)
(***************************************************************************)
EXTENDS Integers, Sequences, SequencesExt

CONSTANTS
    Keys,           \* account keys an instruction may name
    Programs,       \* the programs it may invoke; some of them are Keys
    Payer,          \* the fee payer
    TableSet,       \* the contents a lookup table may have
    MaxMentions,    \* bound on the accounts all instructions name
    MaxInstructions

ASSUME AssemblyAssumption ==
    /\ Payer \in Keys
    /\ TableSet \subseteq Seq(Keys)
    /\ MaxMentions \in Nat /\ MaxInstructions \in Nat

VARIABLES
    instructions,   \* Seq of [program, keys]
    tables,         \* the lookup tables passed in
    signers,        \* the addresses of the Signers passed in
    apc,            \* "build", "sign", "done", "rejected"
    msg,            \* the compiled message, <<>> before compile()
    signatures      \* the signatures collected, each with its signer

assemblyVars == <<instructions, tables, signers, apc, msg, signatures>>

AccountMeta == [key : Keys, isSigner : BOOLEAN, isWritable : BOOLEAN]

-----------------------------------------------------------------------------
(* compileAccounts().                                                      *)

\* Every mention in order: the payer, then each program and its accounts.
Mentions(ixs) ==
    <<[key |-> Payer, isSigner |-> TRUE, isWritable |-> TRUE]>>
        \o FlattenSeq([n \in DOMAIN ixs |->
               <<[key |-> ixs[n].program, isSigner |-> FALSE, isWritable |-> FALSE]>> \o ixs[n].keys])

\* The flags of a key are escalated over its mentions.
upsert(accounts, m) ==
    IF \E k \in DOMAIN accounts : accounts[k].key = m.key
    THEN [k \in DOMAIN accounts |->
            IF accounts[k].key # m.key THEN accounts[k]
            ELSE [accounts[k] EXCEPT !.isSigner = @ \/ m.isSigner,
                                     !.isWritable = @ \/ m.isWritable]]
    ELSE Append(accounts, m)

Accounts(ixs) ==
    LET mentions == Mentions(ixs)
        byKey[n \in 0..Len(mentions)] == IF n = 0 THEN <<>> ELSE upsert(byKey[n - 1], mentions[n])
    IN  byKey[Len(mentions)]

Invoked(ixs) == {ixs[n].program : n \in DOMAIN ixs}

(* The table an account is looked up in, the first that has it; 0 for none *)
(* and for signers and invoked programs.                                   *)
altOf(ixs, acc) ==
    LET found == {t \in DOMAIN tables : acc.key \in Range(tables[t])}
    IN  IF acc.isSigner \/ acc.key \in Invoked(ixs) \/ found = {} THEN 0
        ELSE CHOOSE t \in found : \A u \in found : t <= u

altIndex(acc, t) == CHOOSE i \in DOMAIN tables[t] :
                        tables[t][i] = acc.key /\ \A j \in 1..(i - 1) : tables[t][j] # acc.key

\* One addressTableLookup per table, in the order the accounts name them.
buildAddressTableLookups(ixs, writable, readonly) ==
    LET named == [k \in DOMAIN (writable \o readonly) |-> altOf(ixs, (writable \o readonly)[k])]
        order == SelectSeq([k \in DOMAIN named |-> <<k, named[k]>>],
                           LAMBDA e : \A j \in 1..(e[1] - 1) : named[j] # e[2])
        of(accounts, t) == SelectSeq(accounts, LAMBDA a : altOf(ixs, a) = t)
        indexes(accounts, t) == [k \in DOMAIN of(accounts, t) |-> altIndex(of(accounts, t)[k], t)]
    IN  [k \in DOMAIN order |-> [table |-> order[k][2],
                                 writable |-> indexes(writable, order[k][2]),
                                 readonly |-> indexes(readonly, order[k][2])]]

numRequiredSignatures(ws, rs) == Len(ws) + Len(rs)

\* The six classes; the payer, mentioned first, is the first of the first.
compileAccounts(ixs) ==
    LET class(s, w, looked) ==
            SelectSeq(Accounts(ixs), LAMBDA a : a.isSigner = s /\ a.isWritable = w
                                                /\ ((altOf(ixs, a) # 0) <=> looked))
    IN  [ws |-> class(TRUE, TRUE, FALSE), rs |-> class(TRUE, FALSE, FALSE),
         wn |-> class(FALSE, TRUE, FALSE), rn |-> class(FALSE, FALSE, FALSE),
         wa |-> class(FALSE, TRUE, TRUE), ra |-> class(FALSE, FALSE, TRUE)]

\* The header, the static keys, the instructions by index, and the lookups.
serializeMessage(ixs, c) ==
    LET static == c.ws \o c.rs \o c.wn \o c.rn
        resolved == static \o c.wa \o c.ra
        index(key) == CHOOSE i \in DOMAIN resolved : resolved[i].key = key
    IN  [required |-> numRequiredSignatures(c.ws, c.rs), readonlySigned |-> Len(c.rs),
         readonlyUnsigned |-> Len(c.rn), static |-> [i \in DOMAIN static |-> static[i].key],
         instructions |->
            [n \in DOMAIN ixs |->
                [program |-> index(ixs[n].program),
                 accounts |-> [k \in DOMAIN ixs[n].keys |-> index(ixs[n].keys[k].key)]]],
         lookups |-> buildAddressTableLookups(ixs, c.wa, c.ra)]

compile(ixs) == serializeMessage(ixs, compileAccounts(ixs))

-----------------------------------------------------------------------------
(* decompileMessage(): the reading that the runtime makes too.             *)

lookedUp(m, field) ==
    FlattenSeq([k \in DOMAIN m.lookups |->
        [i \in DOMAIN m.lookups[k][field] |-> tables[m.lookups[k].table][m.lookups[k][field][i]]]])

decompileMessage(m) ==
    LET writable == lookedUp(m, "writable")
        resolved == m.static \o writable \o lookedUp(m, "readonly")
        nKeys == Len(m.static)
        isWritable(i) == IF i <= m.required THEN i <= m.required - m.readonlySigned
                         ELSE IF i <= nKeys THEN i <= nKeys - m.readonlyUnsigned
                         ELSE i <= nKeys + Len(writable)
        meta(i) == [key |-> resolved[i], isSigner |-> i <= m.required, isWritable |-> isWritable(i)]
    IN  [n \in DOMAIN m.instructions |->
            [program |-> m.static[m.instructions[n].program],
             keys |-> [k \in DOMAIN m.instructions[n].accounts |->
                            meta(m.instructions[n].accounts[k])]]]

messageSigners(m) == SubSeq(m.static, 1, m.required)

\* verifyTransactionSignatures(): each slot is signed by its account.
verifies(m, sigs) ==
    /\ Len(sigs) = m.required
    /\ \A i \in DOMAIN sigs : sigs[i].by = m.static[i] /\ sigs[i].valid

-----------------------------------------------------------------------------
(* Actions.                                                                *)

AssemblyTypeOK ==
    /\ \A n \in DOMAIN instructions : /\ instructions[n].program \in Programs
                                      /\ instructions[n].keys \in Seq(AccountMeta)
    /\ apc \in {"build", "sign", "done", "rejected"}
    /\ apc = "sign" => Len(signatures) < msg.required
    /\ msg # <<>> => Range(messageSigners(msg)) \subseteq signers
    /\ apc = "done" => msg # <<>> /\ Len(signatures) = msg.required

AssemblyInit ==
    /\ instructions = <<>> /\ signatures = <<>>
    /\ tables \in {<<s, t>> : s, t \in TableSet}
    /\ signers = {} /\ apc = "build" /\ msg = <<>>

\* The caller adds an instruction, or an account to its last one.
AddInstruction ==
    /\ apc = "build" /\ Len(instructions) < MaxInstructions
    /\ \E p \in Programs : instructions' = Append(instructions, [program |-> p, keys |-> <<>>])
    /\ UNCHANGED <<tables, signers, apc, msg, signatures>>

AddAccount ==
    /\ apc = "build" /\ instructions # <<>>
    /\ Len(Mentions(instructions)) - Len(instructions) - 1 < MaxMentions
    /\ \E m \in AccountMeta :
        instructions' = [instructions EXCEPT ![Len(instructions)].keys = Append(@, m)]
    /\ UNCHANGED <<tables, signers, apc, msg, signatures>>

missingSigner(m, given) == Payer \notin given \/ ~(Range(messageSigners(m)) \subseteq given)

(* assemble() up to the first await: the payer must be a signer, the       *)
(* blockhash well formed, and every signer account must have a Signer;     *)
(* otherwise it throws.                                                    *)
Assembles ==
    /\ apc = "build" /\ instructions # <<>>
    /\ \E given \in {Keys, Keys \ {Payer}, {Payer}} : signers' = given
    /\ LET m == compile(instructions)
       IN  \E blockhash \in {"valid", "malformed"} :
           IF blockhash = "malformed" \/ missingSigner(m, signers') THEN apc' = "rejected" /\ msg' = <<>>
           ELSE apc' = "sign" /\ msg' = m
    /\ UNCHANGED <<instructions, tables, signatures>>

NextSigner(m, n) == {m.static[n]}

(* One signer.sign() of the loop.  A signature of the wrong length throws; *)
(* one that is not valid is not noticed.                                   *)
Signs ==
    /\ apc = "sign" /\ Len(signatures) < msg.required
    /\ \E who \in NextSigner(msg, Len(signatures) + 1), ok \in {"valid", "invalid", "short"} :
        IF ok = "short" THEN apc' = "rejected" /\ UNCHANGED signatures
        ELSE /\ signatures' = Append(signatures, [by |-> who, valid |-> ok = "valid"])
             /\ apc' = IF Len(signatures') = msg.required THEN "done" ELSE apc
    /\ UNCHANGED <<instructions, tables, signers, msg>>

AssemblyNext == AddInstruction \/ AddAccount \/ Assembles \/ Signs

AssemblySpec == AssemblyInit /\ [][AssemblyNext]_assemblyVars

-----------------------------------------------------------------------------
(* Properties.                                                             *)

\* What the instructions ask for, with the flags escalated over all mentions.
Needs(ixs, key) ==
    LET of == {m \in Range(Mentions(ixs)) : m.key = key}
    IN  [key |-> key, isSigner |-> \E m \in of : m.isSigner, isWritable |-> \E m \in of : m.isWritable]

Requested(ixs) ==
    [n \in DOMAIN ixs |-> [program |-> ixs[n].program,
                           keys |-> [k \in DOMAIN ixs[n].keys |-> Needs(ixs, ixs[n].keys[k].key)]]]

(* Read back, the message names the accounts the instructions named, each  *)
(* with the flags it was given anywhere, when the accounts looked up come  *)
(* from one table (transaction-assembler.ts:376-405 against                *)
(* transaction-codec.ts:185-201).                                          *)
ReadsBack ==
    msg # <<>> /\ Len(msg.lookups) <= 1 => decompileMessage(msg) = Requested(instructions)

(* "All writable ALT keys first (in the order their ALTs were passed;      *)
(* within each ALT, writable keys appear in `writableIndexes` order)"      *)
(* (transaction-assembler.ts:63): with any number of tables the message    *)
(* reads back as the instructions.                                         *)
LookupsReadBack ==
    msg # <<>> => decompileMessage(msg) = Requested(instructions)

(* Whatever the tables, the payer is the first account, no invoked program *)
(* is looked up, and the header gives every static key its flags           *)
(* (transaction-assembler.ts:320-338, :402-404).                           *)
HeaderIsExact ==
    msg # <<>> =>
        LET has(i, s, w) == Needs(instructions, msg.static[i])
                                = [key |-> msg.static[i], isSigner |-> s, isWritable |-> w]
            n == Len(msg.static)
        IN  /\ msg.static[1] = Payer
            /\ Invoked(instructions) \subseteq Range(msg.static)
            /\ \A i \in 1..n :
                has(i, i <= msg.required,
                    IF i <= msg.required THEN i <= msg.required - msg.readonlySigned
                    ELSE i <= n - msg.readonlyUnsigned)

(* Refuted.  "Program IDs can resolve through ALTs"                        *)
(* (transaction-assembler.ts:72): an invoked program that a table holds    *)
(* and nobody signs for would be looked up.  compileAccounts() keeps every *)
(* invoked program static.                                                 *)
ProgramsAreLookedUp ==
    msg # <<>> =>
        \A p \in Invoked(instructions) :
            (\E t \in DOMAIN tables : p \in Range(tables[t])) /\ ~Needs(instructions, p).isSigner
            => p \notin Range(msg.static)

(* A finished transaction carries every required signature in its slot: it *)
(* verifies unless a Signer returned a signature that is not its own       *)
(* (transaction-assembler.ts:672-684).                                     *)
SignedInOrder ==
    apc = "done" =>
        \/ verifies(msg, signatures)
        \/ \E i \in DOMAIN signatures : ~signatures[i].valid

(* The safety of compile() and assemble() with at most one table that holds*)
(* what is looked up.                                                      *)
AssemblySafe ==
    /\ AssemblyTypeOK
    /\ HeaderIsExact
    /\ ReadsBack
    /\ SignedInOrder
=============================================================================
