---------------------------- MODULE MetadataCache ----------------------------
(***************************************************************************)
(* The off-chain metadata resolver (packages/solana-metaplex/resolver.ts): *)
(* a memory LRU over an optional file cache over the network.  Several     *)
(* resolve() calls may be fetching, also for one URI; what a URI serves may*)
(* change between two fetches.                                             *)
(*                                                                         *)
(* A body is what extractShape() tells apart: "whole", "flawed" (a field   *)
(* is malformed), "shapeless" (nameless, not an object, or no JSON).       *)
(***************************************************************************)
EXTENDS Naturals, Sequences, SequencesExt, FiniteSets

CONSTANTS
    Uris,
    cap,            \* cacheSize
    fileCacheDir,   \* whether there is a file cache
    MaxFetches,     \* bound: fetches started
    MaxRestarts     \* bound: restarts of the process

ASSUME CacheAssumption == cap \in Nat /\ fileCacheDir \in BOOLEAN

Bodies == {"whole", "flawed", "shapeless"}

VARIABLES
    memory,         \* #memoryCache: a sequence of entries, most recent last
    files,          \* the cache directory: <<entry>>, or <<>> for no file or a torn one
    fetching,       \* fetches under way
    fetches,        \* fetches started
    restarts,
    served,         \* history: the answer given last
    fetched,        \* history: every result built from a response
    recent,         \* history: URIs answered since the memory was last emptied, in order
    unwritten       \* history: URIs whose last write failed or was cut off

cacheVars == <<memory, files, fetching, fetches, restarts, served, fetched, recent, unwritten>>

CacheInit ==
    /\ memory = <<>> /\ files = [u \in Uris |-> <<>>]
    /\ fetching = {} /\ fetches = 0 /\ restarts = 0
    /\ served = {} /\ fetched = {} /\ recent = <<>> /\ unwritten = {}

\* extractShape(), as #buildResult() keeps it: what was read and what was wrong.
\* A shapeless one gives errors and no shape.
buildResult(uri, at, body) ==
    [uri |-> uri, at |-> at,
     parsed |-> body \in {"whole", "flawed"},
     parseErrors |-> body # "whole"]

\* Map.delete(): the keys of a map are unique.
Without(seq, at) == IF at = {} THEN seq ELSE RemoveAt(seq, CHOOSE k \in at : TRUE)
Others(mem, uri) == Without(mem, {k \in DOMAIN mem : mem[k].uri = uri})
Newest(n, seq) == SubSeq(seq, IF Len(seq) > n THEN Len(seq) - n + 1 ELSE 1, Len(seq))

\* #putInMemory(): the newest cap entries stay.
putInMemory(mem, entry) == Newest(cap, Append(Others(mem, entry.uri), entry))

Touch(uri) == recent' = Append(Without(recent, {k \in DOMAIN recent : recent[k] = uri}), uri)

Serve(uri, entry) ==
    /\ served' = {[entry EXCEPT !.uri = uri]}
    /\ Touch(uri)

\* Mutant: a hit leaves the order of the entries alone.
MemoryHitInPlace(uri) ==
    /\ \E k \in DOMAIN memory : memory[k].uri = uri /\ Serve(uri, memory[k])
    /\ UNCHANGED <<memory, files, fetching, fetches, restarts, fetched, unwritten>>

MemoryHit(uri) ==
    /\ \E k \in DOMAIN memory :
         /\ memory[k].uri = uri
         /\ memory' = Append(Others(memory, uri), memory[k])
         /\ Serve(uri, memory[k])
    /\ UNCHANGED <<files, fetching, fetches, restarts, fetched, unwritten>>

InMemory(uri) == \E k \in DOMAIN memory : memory[k].uri = uri
Whole(uri) == files[uri] # <<>>

\* A torn file does not parse: it is a miss.
FileHit(uri) ==
    /\ ~InMemory(uri) /\ Whole(uri)
    /\ memory' = putInMemory(memory, files[uri][1])
    /\ Serve(uri, files[uri][1])
    /\ UNCHANGED <<files, fetching, fetches, restarts, fetched, unwritten>>

FetchUri(uri) ==
    /\ ~InMemory(uri) /\ ~Whole(uri)
    /\ fetches < MaxFetches
    /\ fetches' = fetches + 1
    /\ fetching' = fetching \union {[uri |-> uri, at |-> fetches + 1]}
    /\ UNCHANGED <<memory, files, restarts, served, fetched, recent, unwritten>>

writeToFileCache(uri, entry) == <<entry>>

\* The response is there: both caches are filled, the file if it can be written.
Fetched(f, body, writable) ==
    LET entry == buildResult(f.uri, f.at, body) IN
    /\ f \in fetching
    /\ fetching' = fetching \ {f}
    /\ fetched' = fetched \union {entry}
    /\ memory' = putInMemory(memory, entry)
    /\ files' = IF fileCacheDir /\ writable
                  THEN [files EXCEPT ![f.uri] = writeToFileCache(f.uri, entry)] ELSE files
    /\ unwritten' = IF writable THEN unwritten \ {f.uri} ELSE unwritten \union {f.uri}
    /\ Serve(f.uri, entry)
    /\ UNCHANGED <<fetches, restarts>>

\* The HTTP client gave up: resolve() throws, nothing is cached.
FetchFailed(f) ==
    /\ f \in fetching
    /\ fetching' = fetching \ {f}
    /\ UNCHANGED <<memory, files, fetches, restarts, served, fetched, recent, unwritten>>

ClearCache ==
    /\ memory # <<>>
    /\ memory' = <<>> /\ recent' = <<>>
    /\ UNCHANGED <<files, fetching, fetches, restarts, served, fetched, unwritten>>

\* The process dies, perhaps while it writes the file of a response that came.
Restart(torn) ==
    /\ restarts < MaxRestarts
    /\ restarts' = restarts + 1
    /\ torn \subseteq {f.uri : f \in fetching}
    /\ memory' = <<>> /\ recent' = <<>> /\ fetching' = {}
    /\ files' = [u \in Uris |-> IF fileCacheDir /\ u \in torn THEN <<>> ELSE files[u]]
    /\ unwritten' = unwritten \union torn
    /\ UNCHANGED <<fetches, served, fetched>>

CacheNext ==
    \/ \E uri \in Uris : MemoryHit(uri) \/ FileHit(uri) \/ FetchUri(uri)
    \/ \E f \in fetching, body \in Bodies, writable \in BOOLEAN : Fetched(f, body, writable)
    \/ \E f \in fetching : FetchFailed(f)
    \/ ClearCache
    \/ \E torn \in {{}} \union {{u} : u \in Uris} : Restart(torn)

CacheSpec == CacheInit /\ [][CacheNext]_cacheVars

-----------------------------------------------------------------------------
(* Properties *)

CacheTypeOK ==
    /\ Len(memory) <= cap
    /\ \A j, k \in DOMAIN memory : memory[j].uri = memory[k].uri => j = k
    /\ \A u \in Uris : Whole(u) => fileCacheDir

\* Whatever cache answers, a URI is only ever given something that was fetched
\* for it, with the shape and the errors of that response: through promotion,
\* eviction, a torn file and a restart.
ServedWasFetched ==
    /\ served \subseteq fetched
    /\ \A k \in DOMAIN memory : memory[k] \in fetched
    /\ \A u \in Uris : Whole(u) => files[u][1] \in fetched /\ files[u][1].uri = u

\* The memory holds the URIs that were answered last, as many as fit, the last
\* one at the end.
MemoryIsMostRecent == [k \in DOMAIN memory |-> memory[k].uri] = Newest(cap, recent)

\* After two fetches of one URI both caches hold the same of the two results,
\* unless the file could not be written.
CachesAgree ==
    \A k \in DOMAIN memory :
      LET u == memory[k].uri IN (Whole(u) /\ u \notin unwritten) => files[u] = <<memory[k]>>

(* The safety of the two caches (resolver.ts).                             *)
CacheSafe ==
    /\ CacheTypeOK
    /\ MemoryIsMostRecent
    /\ ServedWasFetched
    /\ CachesAgree
=============================================================================
