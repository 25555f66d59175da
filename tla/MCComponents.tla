---------------------------- MODULE MCComponents ----------------------------
(* The sequential components, and those that share nothing with another    *)
(* one, for TLC.  A behaviour is one of one component: focus says which.   *)
EXTENDS Vault, PostgresOutbox, Lots, PaperBook, SignalsDb, PumpMarket, TxAssembly,
        EventLogs, TokenAccounts, IdlDecoding, PriorityFee, MetadataCache, HeliusDriver

-----------------------------------------------------------------------------
(* Values of the constants.                                                *)

TwoPrograms == <<"curve", "pool">>

LookupTables == {<<>>, <<"b", "a", "p">>}
\* Each table holds a key of its own; the first also one the other lacks.
CrossedTables == {<<"a", "c">>, <<"b">>}

Decoders == [A |-> "all", B |-> "first"]

TokenExtensions ==
    {[type |-> 3, data |-> <<0>>], [type |-> 3, data |-> <<2>>], [type |-> 6, data |-> <<2>>],
     [type |-> 5, data |-> <<>>], [type |-> 4, data |-> <<0, 3>>],
     [type |-> 1, data |-> <<0, 1, 3, 1, 2, 0, 2, 3, 5>>]}
TokenNames == {<<>>, <<2>>, <<2, 0>>}

Byte == Number(1, FALSE)
\* A layout grown by fields at its end, and one that put a field where reserved bytes were.
IdlLayouts ==
    {[fields |-> <<Field("reserves", Number(2, FALSE)), Field("done", Bool),
                   Field("depth", Byte), Field("fee", Option(Byte))>>,
      legacy |-> <<>>, previous |-> 2, padded |-> {6}],
     [fields |-> <<Field("admin", Byte), Field("reserves_admin", Byte),
                   Field("_reserved", Array(Byte, 1)), Field("mints", Vec(Byte))>>,
      legacy |-> <<Field("admin", Byte), Field("_reserved", Array(Byte, 2)),
                   Field("mints", Vec(Byte))>>,
      previous |-> 0, padded |-> {}]}
IdlEventFields ==
    <<Field("amount", Number(2, TRUE)), Field("side", Enum(<<<<>>, <<Bool>>>>)),
      Field("fees", Array(Byte, 2))>>

Rec(s, f, t, v) == [sig |-> s, failed |-> f, type |-> t, source |-> v]
HeliusBodies ==
    {<<Rec("a", FALSE, "SWAP", "PUMP"), Rec("", FALSE, "SWAP", "PUMP"), Rec("b", TRUE, "SWAP", "JUPITER")>>,
     <<Rec("a", FALSE, "TRANSFER", "RAYDIUM"), Rec("c", FALSE, "TOKEN_MINT", "RAYDIUM")>>,
     <<Rec("d", FALSE, "NFT_SALE", "OTHER"), Rec("d", FALSE, "SWAP", "OTHER")>>,
     <<>>}
AuthHeaders == {<<>>, <<1>>, <<1, 0>>, <<2>>}
AuthSecret == <<1>>

-----------------------------------------------------------------------------
CONSTANT Foci   \* the components a run is about
VARIABLE focus

\* The variables, in groups: a component in focus leaves the others' alone.
ledgerVars == <<vaultVars, pgVars, lotVars, paperVars, dbVars>>
wireVars == <<assemblyVars, logVars, tokenVars, idlVars>>
cacheAndFeedVars == <<pumpVars, feeVars, cacheVars, heliusVars>>
mcVars == <<focus, ledgerVars, wireVars, cacheAndFeedVars>>

\* Out of focus a component has one initial state.
MCInit ==
    /\ VaultInit /\ PgInit /\ LotsInit /\ PaperInit /\ DbInit /\ PumpInit /\ AssemblyInit
    /\ LogInit /\ TokenInit /\ IdlInit /\ FeeInit /\ CacheInit /\ HeliusInit
    /\ focus \in Foci
    /\ focus # "vault" => record = Nobody
    /\ focus # "lots" => method = "fifo"
    /\ focus # "pump" => ~curve.mayhem
    /\ focus # "assembly" => tables = <<<<>>, <<>>>>

Ledgers ==
    /\ UNCHANGED <<focus, wireVars, cacheAndFeedVars>>
    /\ \/ focus = "vault" /\ VaultNext /\ UNCHANGED <<pgVars, lotVars, paperVars, dbVars>>
       \/ focus = "postgres" /\ PgNext /\ UNCHANGED <<vaultVars, lotVars, paperVars, dbVars>>
       \/ focus = "lots" /\ LotsNext /\ UNCHANGED <<vaultVars, pgVars, paperVars, dbVars>>
       \/ focus = "paper" /\ PaperNext /\ UNCHANGED <<vaultVars, pgVars, lotVars, dbVars>>
       \/ focus = "signals db" /\ DbNext /\ UNCHANGED <<vaultVars, pgVars, lotVars, paperVars>>

Wire ==
    /\ UNCHANGED <<focus, ledgerVars, cacheAndFeedVars>>
    /\ \/ focus = "assembly" /\ AssemblyNext /\ UNCHANGED <<logVars, tokenVars, idlVars>>
       \/ focus = "logs" /\ LogNext /\ UNCHANGED <<assemblyVars, tokenVars, idlVars>>
       \/ focus = "tokens" /\ TokenNext /\ UNCHANGED <<assemblyVars, logVars, idlVars>>
       \/ focus = "idl" /\ IdlNext /\ UNCHANGED <<assemblyVars, logVars, tokenVars>>

CachesAndFeeds ==
    /\ UNCHANGED <<focus, ledgerVars, wireVars>>
    /\ \/ focus = "pump" /\ PumpNext /\ UNCHANGED <<feeVars, cacheVars, heliusVars>>
       \/ focus = "fees" /\ FeeNext /\ UNCHANGED <<pumpVars, cacheVars, heliusVars>>
       \/ focus = "metadata" /\ CacheNext /\ UNCHANGED <<pumpVars, feeVars, heliusVars>>
       \/ focus = "helius" /\ HeliusNext /\ UNCHANGED <<pumpVars, feeVars, cacheVars>>

MCNext == Ledgers \/ Wire \/ CachesAndFeeds

MCSpec == MCInit /\ [][MCNext]_mcVars

(* What is read is what is there: the trades that the paper backtester     *)
(* replays and the rows it reads, a transaction assembled, what the        *)
(* decoders of logs, accounts and events tell of the bytes, and what is    *)
(* read off the fees of recent slots.  Nothing is invented, hidden,        *)
(* dropped or attributed to another.  (Out of focus a component is in its  *)
(* initial state, and so need not be looked at again.)                     *)
ReadingsAreExact ==
    /\ focus = "paper" => PaperSafe
    /\ focus = "signals db" => DbSafe
    /\ focus = "assembly" => AssemblySafe
    /\ focus = "logs" => LogSafe
    /\ focus = "tokens" => TokenSafe
    /\ focus = "idl" => IdlSafe
    /\ focus = "fees" => FeeSafe
=============================================================================
