----------------------------- MODULE FileStore -----------------------------
(***************************************************************************)
(* The file-backed stores: FileCheckpointStore (solana-connectivity),      *)
(* FileSignalCheckpointStore (solana-signals) and FileStrategyStateStore   *)
(* (solana-strategy).  Each chains the saves of a key on a promise, and    *)
(* each save writes a temporary file and renames it over the final one.    *)
(*                                                                         *)
(* PathOf is pathFor: the two that replace characters of the key may give  *)
(* two keys one path, whose mutexes still differ; the promise below is for *)
(* keys that do not collide.                                               *)
(***************************************************************************)
EXTENDS Naturals, Sequences, SequencesExt

CONSTANTS
    Keys,
    Values,
    PathOf,       \* [Keys -> paths]
    MaxSaves,     \* bound on saves of a key waiting together
    MaxIoErrors,  \* bound on I/O errors and crashes
    Missing,      \* no file, or the deletion of one
    Torn          \* a file whose write has not finished

ASSUME FileStoreAssumption ==
    /\ MaxSaves \in Nat /\ MaxIoErrors \in Nat
    /\ Missing \notin Values /\ Torn \notin Values /\ Missing # Torn
    /\ \A k, l \in Keys : PathOf[k] = PathOf[l] => k = l

Paths == {PathOf[k] : k \in Keys}

VARIABLES
    disk,      \* the final file of each path
    tmp,       \* its temporary file
    saves,     \* the saves chained on each key's promise, oldest first
    saveAt,    \* where the head of each chain is
    ioErrors

fsVars == <<disk, tmp, saves, saveAt, ioErrors>>

FileStoreTypeOK ==
    /\ disk \in [Paths -> Values \cup {Missing}]
    /\ tmp \in [Paths -> Values \cup {Missing, Torn}]
    /\ saves \in [Keys -> BoundedSeq(Values \cup {Missing}, MaxSaves)]
    /\ saveAt \in [Keys -> {"begin", "writing", "written"}]
    /\ ioErrors \in 0..MaxIoErrors

FileStoreInit ==
    /\ disk = [p \in Paths |-> Missing]
    /\ tmp = [p \in Paths |-> Missing]
    /\ saves = [k \in Keys |-> <<>>]
    /\ saveAt = [k \in Keys |-> "begin"]
    /\ ioErrors = 0

\* Mutant: the newest save goes first.
chainedFirst(k, v) == [saves EXCEPT ![k] = <<v>> \o @]

\* The promise chain of a key with one more save at its end.
chained(k, v) == [saves EXCEPT ![k] = Append(@, v)]

\* save(key, value), set(key, value), or with Missing delete(key).
Save(k, v) ==
    /\ Len(saves[k]) < MaxSaves
    /\ saves' = chained(k, v)
    /\ UNCHANGED <<disk, tmp, saveAt, ioErrors>>

\* The chain goes on with the next save, after a failed one too.
Done(k) ==
    /\ saves' = [saves EXCEPT ![k] = Tail(@)]
    /\ saveAt' = [saveAt EXCEPT ![k] = "begin"]

\* writeFile opens (and truncates) the temporary file.
OpenTmp(k) ==
    /\ saves[k] # <<>> /\ Head(saves[k]) # Missing /\ saveAt[k] = "begin"
    /\ tmp' = [tmp EXCEPT ![PathOf[k]] = Torn]
    /\ saveAt' = [saveAt EXCEPT ![k] = "writing"]
    /\ UNCHANGED <<disk, saves, ioErrors>>

FinishTmp(k) ==
    /\ saveAt[k] = "writing"
    /\ tmp' = [tmp EXCEPT ![PathOf[k]] = Head(saves[k])]
    /\ saveAt' = [saveAt EXCEPT ![k] = "written"]
    /\ UNCHANGED <<disk, saves, ioErrors>>

\* rename(tmp, final), the atomic step; the chmod after it is best effort.
Rename(k) ==
    /\ saveAt[k] = "written"
    /\ disk' = [disk EXCEPT ![PathOf[k]] = tmp[PathOf[k]]]
    /\ tmp' = [tmp EXCEPT ![PathOf[k]] = Missing]
    /\ Done(k)
    /\ UNCHANGED ioErrors

\* delete(): unlink, a missing file being fine.
Unlink(k) ==
    /\ saves[k] # <<>> /\ Head(saves[k]) = Missing /\ saveAt[k] = "begin"
    /\ disk' = [disk EXCEPT ![PathOf[k]] = Missing]
    /\ Done(k)
    /\ UNCHANGED <<tmp, ioErrors>>

\* An I/O error at any point: the save rejects, the temporary file stays.
SaveFails(k) ==
    /\ saves[k] # <<>> /\ ioErrors < MaxIoErrors
    /\ ioErrors' = ioErrors + 1
    /\ Done(k)
    /\ UNCHANGED <<disk, tmp>>

\* The process dies between any two steps; only the files remain.
StoreCrash ==
    /\ ioErrors < MaxIoErrors /\ ioErrors' = ioErrors + 1
    /\ saves' = [k \in Keys |-> <<>>]
    /\ saveAt' = [k \in Keys |-> "begin"]
    /\ UNCHANGED <<disk, tmp>>

SaveStep(k) == OpenTmp(k) \/ FinishTmp(k) \/ Rename(k) \/ Unlink(k)

FileStoreNext ==
    \/ \E k \in Keys :
        \/ \E v \in Values \cup {Missing} : Save(k, v)
        \/ SaveStep(k) \/ SaveFails(k)
    \/ StoreCrash

\* File operations complete, with a result or an error.
FileStoreFairness == \A k \in Keys : WF_fsVars(SaveStep(k))

FileStoreSpec == FileStoreInit /\ [][FileStoreNext]_fsVars /\ FileStoreFairness

-----------------------------------------------------------------------------
(* The stores implement AtomicStore: a load, from this process or the next *)
(* one after a crash at any point, returns a value that was saved whole,   *)
(* and the saves of a key take effect in their order, I/O errors or not    *)
(* (checkpoint-store-file.ts save, doSave; state-store-file.ts withMutex). *)
Atomic == INSTANCE AtomicStore WITH
    AKeys <- Keys, AValues <- Values \cup {Missing},
    kv <- [k \in Keys |-> disk[PathOf[k]]], waiting <- saves

StoreIsAtomic == Atomic!ASpec

(* No save waits for ever: again and again the chain of a key is empty, or *)
(* one of its saves comes to an end, whatever happened to those before it. *)
SavesSettle ==
    \A k \in Keys :
        \/ []<>(saves[k] = <<>>)
        \/ []<><<Len(saves'[k]) < Len(saves[k])>>_saves
=============================================================================
