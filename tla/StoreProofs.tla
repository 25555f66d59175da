---------------------------- MODULE StoreProofs ----------------------------
(***************************************************************************)
(* The stores in files, the vault's one stored key, and the backtest       *)
(* harness with its in-memory portfolio.                                   *)
(*                                                                         *)
(* The file-backed stores implement AtomicStore: for any keys and values   *)
(* with a path each, any number of saves waiting and any I/O errors and    *)
(* crashes.  The abstract step of a save is its rename, or its unlink;     *)
(* every other step of it stutters.                                        *)
(*                                                                         *)
(* The portfolio store loses no update: for any mints, any operations and  *)
(* reconciliation passes under way together, any changes of the chain and  *)
(* any failed writes, failed audits and crashes.                           *)
(*                                                                         *)
(* The vault, for any number of concurrent calls on its stored key: at     *)
(* most one decrypted key is live and lock() reaches it, a passphrase      *)
(* change keeps the key, and the reserve is only ever spent by signatures  *)
(* that overlapped.                                                        *)
(*                                                                         *)
(* The harness, for any number of signals and any trades: what it reports  *)
(* is what the run did.  Its loops over lots and over the PnL series are   *)
(* recursive functions, of which SequenceLemmas says what they return.     *)
(***************************************************************************)
EXTENDS MCStores, Vault, SequenceLemmas, SequenceTheorems, TLAPS

-----------------------------------------------------------------------------
(* The file-backed stores.                                                 *)

SavedValues == Values \cup {Missing}

(* A save that has begun is of a value and is still the oldest of its key; *)
(* one that has written holds it whole in the temporary file.  The file    *)
(* may be torn, or left over from a failed save, at every other point.     *)
BegunIsWaiting ==
    \A k \in Keys : saveAt[k] # "begin" => saves[k] # <<>> /\ Head(saves[k]) # Missing
WrittenIsWhole ==
    \A k \in Keys : saveAt[k] = "written" => tmp[PathOf[k]] = Head(saves[k])

FileStoreInv == FileStoreTypeOK /\ BegunIsWaiting /\ WrittenIsWhole

(* The chains are sequences of at most MaxSaves values.                    *)
LEMMA ChainsAreSequences ==
    ASSUME NEW s
    PROVE  s \in BoundedSeq(SavedValues, MaxSaves)
             <=> s \in Seq(SavedValues) /\ Len(s) <= MaxSaves
<1>0. MaxSaves \in Nat
  BY FileStoreAssumption
<1>1. ASSUME s \in BoundedSeq(SavedValues, MaxSaves)
      PROVE  s \in Seq(SavedValues) /\ Len(s) <= MaxSaves
  <2>1. PICK m \in 0..MaxSaves : s \in [1..m -> SavedValues]
    BY <1>1 DEF BoundedSeq, SeqOf
  <2> QED
    BY <1>0, <2>1
<1>2. ASSUME s \in Seq(SavedValues), Len(s) <= MaxSaves
      PROVE  s \in BoundedSeq(SavedValues, MaxSaves)
  <2>1. s \in [1..Len(s) -> SavedValues] /\ Len(s) \in 0..MaxSaves
    BY <1>0, <1>2
  <2> QED
    BY <2>1 DEF BoundedSeq, SeqOf
<1> QED
  BY <1>1, <1>2

(* No save waiting is one of those chains.                                 *)
LEMMA EmptyChain == <<>> \in BoundedSeq(SavedValues, MaxSaves)
<1>1. <<>> \in Seq(SavedValues) /\ Len(<<>>) <= MaxSaves
  BY FileStoreAssumption
<1> QED
  BY <1>1, ChainsAreSequences

(* Two keys have two paths: a step on the files of one leaves the other's  *)
(* alone.                                                                  *)
LEMMA PathsDiffer ==
    \A k, l \in Keys : PathOf[k] \in Paths /\ (PathOf[k] = PathOf[l] => k = l)
  BY FileStoreAssumption DEF Paths

(* Every step of a save, every failure and every crash keeps the invariant.*)
LEMMA FileStoreStep == FileStoreInv /\ [FileStoreNext]_fsVars => FileStoreInv'
<1> SUFFICES ASSUME FileStoreInv, [FileStoreNext]_fsVars PROVE FileStoreInv'
  OBVIOUS
<1>0. FileStoreTypeOK /\ BegunIsWaiting /\ WrittenIsWhole
  BY DEF FileStoreInv
<1>a. \A k \in Keys : saves[k] \in Seq(SavedValues) /\ Len(saves[k]) <= MaxSaves
  BY <1>0, ChainsAreSequences DEF FileStoreTypeOK, SavedValues
<1>b. ASSUME NEW k \in Keys, saves[k] # <<>>
      PROVE  /\ Head(saves[k]) \in SavedValues
             /\ Tail(saves[k]) \in BoundedSeq(SavedValues, MaxSaves)
  <2>1. Head(saves[k]) \in SavedValues /\ Tail(saves[k]) \in Seq(SavedValues)
    BY <1>a, <1>b
  <2>2. Len(Tail(saves[k])) <= MaxSaves
    BY <1>a, <1>b, FileStoreAssumption
  <2> QED
    BY <2>1, <2>2, ChainsAreSequences
<1>1. ASSUME NEW k \in Keys, NEW v \in SavedValues, Save(k, v) PROVE FileStoreInv'
  <2>1. /\ Append(saves[k], v) \in BoundedSeq(SavedValues, MaxSaves)
        /\ saves[k] # <<>> => Append(saves[k], v) # <<>> /\ Head(Append(saves[k], v)) = Head(saves[k])
    <3>1. Append(saves[k], v) \in Seq(SavedValues) /\ Len(Append(saves[k], v)) <= MaxSaves
      BY <1>1, <1>a, FileStoreAssumption DEF Save
    <3>2. saves[k] # <<>> => Append(saves[k], v) # <<>> /\ Head(Append(saves[k], v)) = Head(saves[k])
      BY <1>a
    <3> QED
      BY <3>1, <3>2, ChainsAreSequences
  <2>2. saves' = [saves EXCEPT ![k] = Append(saves[k], v)] /\ UNCHANGED <<disk, tmp, saveAt, ioErrors>>
    BY <1>1 DEF Save, chained
  <2>3. FileStoreTypeOK'
    BY <1>0, <2>1, <2>2 DEF FileStoreTypeOK, SavedValues
  <2> QED
    BY <1>0, <2>1, <2>2, <2>3 DEF FileStoreInv, FileStoreTypeOK, BegunIsWaiting, WrittenIsWhole
<1>2. ASSUME NEW k \in Keys, Done(k), saves[k] # <<>>,
             tmp' = tmp \/ tmp' = [tmp EXCEPT ![PathOf[k]] = Missing],
             disk' \in [Paths -> SavedValues], ioErrors' \in 0..MaxIoErrors
      PROVE  FileStoreInv'
  <2>1. FileStoreTypeOK'
    <3>1. saves' \in [Keys -> BoundedSeq(SavedValues, MaxSaves)]
      BY <1>0, <1>2, <1>b DEF Done, FileStoreTypeOK, SavedValues
    <3> QED
      BY <1>0, <1>2, <3>1 DEF Done, FileStoreTypeOK, SavedValues
  <2> QED
    BY <1>0, <1>2, <2>1, PathsDiffer, ZenonT(30)
       DEF Done, FileStoreInv, FileStoreTypeOK, BegunIsWaiting, WrittenIsWhole
<1>3. ASSUME NEW k \in Keys, OpenTmp(k) PROVE FileStoreInv'
  BY <1>0, <1>3, PathsDiffer
     DEF OpenTmp, FileStoreInv, FileStoreTypeOK, BegunIsWaiting, WrittenIsWhole
<1>4. ASSUME NEW k \in Keys, FinishTmp(k) PROVE FileStoreInv'
  <2>1. Head(saves[k]) \in SavedValues
    BY <1>0, <1>4, <1>b DEF FinishTmp, BegunIsWaiting
  <2> QED
    BY <1>0, <1>4, <2>1, PathsDiffer
       DEF FinishTmp, FileStoreInv, FileStoreTypeOK, BegunIsWaiting, WrittenIsWhole, SavedValues
<1>5. ASSUME NEW k \in Keys, Rename(k) PROVE FileStoreInv'
  <2>1. saves[k] # <<>> /\ tmp[PathOf[k]] \in SavedValues
    BY <1>0, <1>5, <1>b DEF Rename, BegunIsWaiting, WrittenIsWhole
  <2>2. disk' \in [Paths -> SavedValues]
    BY <1>0, <1>5, <2>1 DEF Rename, FileStoreTypeOK, SavedValues
  <2> QED
    BY <1>0, <1>2, <1>5, <2>1, <2>2 DEF Rename, FileStoreTypeOK
<1>6. ASSUME NEW k \in Keys, Unlink(k) PROVE FileStoreInv'
  <2>1. disk' \in [Paths -> SavedValues]
    BY <1>0, <1>6 DEF Unlink, FileStoreTypeOK, SavedValues
  <2> QED
    BY <1>0, <1>2, <1>6, <2>1 DEF Unlink, FileStoreTypeOK
<1>7. ASSUME NEW k \in Keys, SaveFails(k) PROVE FileStoreInv'
  <2>1. ioErrors' \in 0..MaxIoErrors
    BY <1>0, <1>7, FileStoreAssumption DEF SaveFails, FileStoreTypeOK
  <2> QED
    BY <1>0, <1>2, <1>7, <2>1 DEF SaveFails, FileStoreTypeOK, SavedValues
<1>8. CASE StoreCrash
  <2>1. ioErrors' \in 0..MaxIoErrors
    BY <1>0, <1>8, FileStoreAssumption DEF StoreCrash, FileStoreTypeOK
  <2> QED
    BY <1>0, <1>8, <2>1, EmptyChain
       DEF StoreCrash, FileStoreInv, FileStoreTypeOK, BegunIsWaiting, WrittenIsWhole, SavedValues
<1>9. CASE UNCHANGED fsVars
  BY <1>0, <1>9 DEF fsVars, FileStoreInv, FileStoreTypeOK, BegunIsWaiting, WrittenIsWhole
<1> QED
  BY <1>1, <1>3, <1>4, <1>5, <1>6, <1>7, <1>8, <1>9 DEF FileStoreNext, SaveStep, SavedValues

(* The first state of the stores satisfies it.                             *)
LEMMA FileStoreInitInv == FileStoreInit => FileStoreInv
<1> SUFFICES ASSUME FileStoreInit PROVE FileStoreInv
  OBVIOUS
<1>1. <<>> \in BoundedSeq(SavedValues, MaxSaves) /\ 0 \in 0..MaxIoErrors
  BY EmptyChain, FileStoreAssumption
<1> QED
  BY <1>1 DEF FileStoreInit, FileStoreInv, FileStoreTypeOK, BegunIsWaiting, WrittenIsWhole, SavedValues

(* No final file is ever torn, whatever fails and whenever the process     *)
(* dies: a load never meets half a value (checkpoint-store-file.ts doSave).*)
THEOREM NoFileIsTorn == FileStoreSpec => []FileStoreTypeOK
<1>1. FileStoreInv => FileStoreTypeOK
  BY DEF FileStoreInv
<1> QED
  BY <1>1, FileStoreInitInv, FileStoreStep, PTL DEF FileStoreSpec

-----------------------------------------------------------------------------
(* Each step is a step of AtomicStore, or one it does not see.             *)
LEMMA StepIsAtomic ==
    FileStoreInv /\ [FileStoreNext]_fsVars => [Atomic!ANext]_(Atomic!aVars)
<1> DEFINE load == [k \in Keys |-> disk[PathOf[k]]]
<1> SUFFICES ASSUME FileStoreInv, [FileStoreNext]_fsVars
             PROVE  Atomic!ANext \/ (load' = load /\ saves' = saves)
  BY DEF Atomic!aVars
<1>0. FileStoreTypeOK /\ BegunIsWaiting /\ WrittenIsWhole
  BY DEF FileStoreInv
<1>a. ASSUME disk' = disk PROVE load' = load
  BY <1>a
<1>b. ASSUME NEW k \in Keys, NEW v, disk' = [disk EXCEPT ![PathOf[k]] = v]
      PROVE  load' = [load EXCEPT ![k] = v]
  BY <1>0, <1>b, PathsDiffer DEF FileStoreTypeOK
<1>1. ASSUME NEW k \in Keys, NEW v \in SavedValues, Save(k, v) PROVE Atomic!ANext
  <2>1. Atomic!Ask(k, v)
    BY <1>1, <1>a DEF Save, chained, Atomic!Ask
  <2> QED
    BY <2>1 DEF Atomic!ANext, SavedValues
<1>2. ASSUME NEW k \in Keys, OpenTmp(k) \/ FinishTmp(k) PROVE load' = load /\ saves' = saves
  BY <1>2, <1>a DEF OpenTmp, FinishTmp
<1>3. ASSUME NEW k \in Keys, Rename(k) PROVE Atomic!ANext
  <2>1. saves[k] # <<>> /\ disk' = [disk EXCEPT ![PathOf[k]] = Head(saves[k])]
    BY <1>0, <1>3 DEF Rename, BegunIsWaiting, WrittenIsWhole
  <2>2. Atomic!Commit(k)
    BY <1>3, <1>b, <2>1 DEF Rename, Done, Atomic!Commit
  <2> QED
    BY <2>2 DEF Atomic!ANext
<1>4. ASSUME NEW k \in Keys, Unlink(k) PROVE Atomic!ANext
  <2>1. Atomic!Commit(k)
    BY <1>4, <1>b DEF Unlink, Done, Atomic!Commit
  <2> QED
    BY <2>1 DEF Atomic!ANext
<1>5. ASSUME NEW k \in Keys, SaveFails(k) PROVE Atomic!ANext
  <2>1. Atomic!Abort(k)
    BY <1>5, <1>a DEF SaveFails, Done, Atomic!Abort
  <2> QED
    BY <2>1 DEF Atomic!ANext
<1>6. CASE StoreCrash
  <2>1. Atomic!Restart
    BY <1>6, <1>a DEF StoreCrash, Atomic!Restart
  <2> QED
    BY <2>1 DEF Atomic!ANext
<1>7. CASE UNCHANGED fsVars
  BY <1>7, <1>a DEF fsVars
<1> QED
  BY <1>1, <1>2, <1>3, <1>4, <1>5, <1>6, <1>7 DEF FileStoreNext, SaveStep, SavedValues

(* The stores are atomic: the saves of a key take effect whole, in the     *)
(* order they were asked for, or not at all, through I/O errors and a crash*)
(* between any two steps of a save (checkpoint-store-file.ts save, doSave; *)
(* state-store-file.ts withMutex).                                         *)
THEOREM StoresAreAtomic == FileStoreSpec => StoreIsAtomic
<1>1. FileStoreInit => Atomic!AInit
  BY PathsDiffer DEF FileStoreInit, Atomic!AInit
<1> QED
  BY <1>1, FileStoreInitInv, FileStoreStep, StepIsAtomic, PTL
     DEF FileStoreSpec, StoreIsAtomic, Atomic!ASpec

-----------------------------------------------------------------------------
(* The portfolio store.                                                    *)

Entries == [op : Operations, at : {"load", "write", "audit"}, snap : Files]

(* Only the head of the mutex has been past its load.                      *)
OneRuns == \A i \in DOMAIN mutex : i # 1 => mutex[i].at = "load"

(* What the head has read is still what the file holds when it writes, and *)
(* what it has written is there when it tells of it.                       *)
HeadKnowsTheFile ==
    mutex # <<>> =>
        /\ mutex[1].at = "write" => mutex[1].snap = file
        /\ mutex[1].at = "audit" =>
            /\ file.pos = Result(mutex[1].op, mutex[1].snap.pos)
            /\ faults = 0 => lastAfter = mutex[1].snap.pos

(* Until an operation has written, the events tell the file.               *)
ToldSoFar ==
    faults = 0 /\ (mutex = <<>> \/ mutex[1].at # "audit") => lastAfter = file.pos

PortfolioInv ==
    /\ PortfolioTypeOK
    /\ NoLostUpdate /\ PnlTellsTheFile
    /\ OneRuns /\ HeadKnowsTheFile /\ ToldSoFar

(* What an operation computes from positions that it may read is positions.*)
LEMMA ResultTyped ==
    ASSUME NEW r \in Operations, NEW pos \in Positions
    PROVE  /\ ~Impossible(r, pos) => Result(r, pos) \in Positions
           /\ Sold(r) \in Nat
           /\ Changes(r, pos) \subseteq Mints
<1>1. CASE r.kind = "apply"
  <2>1. r.trade \in Trades
    BY <1>1 DEF Operations
  <2>2. r.trade.mint \in Mints /\ Delta(r) \in Int
    BY <2>1 DEF Trades, Delta
  <2>3. Held(pos, r.trade.mint) \in Nat
    BY <2>2 DEF Held, Positions
  <2>4. Sold(r) \in Nat
    BY <2>2 DEF Sold, Sells
  <2>5. ASSUME ~Impossible(r, pos) PROVE Held(pos, r.trade.mint) + Delta(r) \in Nat
    BY <1>1, <2>2, <2>3, <2>5 DEF Impossible, Sells
  <2> QED
    BY <1>1, <2>2, <2>4, <2>5 DEF Result, Changes, Positions
<1>2. CASE r.kind = "rebuild"
  <2>1. r.mint \in Mints /\ r.observed \in Nat
    BY <1>2 DEF Operations
  <2> QED
    BY <1>2, <2>1 DEF Result, Changes, Positions, Sold, Sells
<1>3. CASE r.kind = "observe"
  <2>1. r.balances \in [Mints -> Nat]
    BY <1>3 DEF Operations
  <2> QED
    BY <1>3, <2>1 DEF Result, Changes, ColdStarts, Positions, Sold, Sells
<1>4. CASE r.kind = "correct"
  <2>1. r.mint \in Mints
    BY <1>4 DEF Operations
  <2> QED
    BY <1>4, <2>1 DEF Result, Changes, Sold, Sells
<1> QED
  BY <1>1, <1>2, <1>3, <1>4 DEF Operations

(* The events of an operation tell of every mint whose position it changes.*)
LEMMA ChangesAreTold ==
    ASSUME NEW r \in Operations, NEW pos \in Positions, NEW m \in Mints \ Changes(r, pos)
    PROVE  Result(r, pos)[m] = pos[m]
<1>1. CASE r.kind = "apply"
  BY <1>1 DEF Result, Changes, Positions
<1>2. CASE r.kind = "rebuild"
  BY <1>2 DEF Result, Changes, Positions
<1>3. CASE r.kind = "observe"
  BY <1>3 DEF Result, Changes
<1>4. CASE r.kind = "correct"
  BY <1>4 DEF Result
<1> QED
  BY <1>1, <1>2, <1>3, <1>4 DEF Operations

(* An operation is enqueued behind the others and has read nothing.        *)
LEMMA EnqueueKeeps ==
    ASSUME PortfolioInv, NEW r \in Operations, enqueueOp(r),
           UNCHANGED <<chain, landings, file, lastAfter, booked, applied, faults>>,
           landed' \subseteq landed, pass' \in [Passes -> PassStates]
    PROVE  PortfolioInv'
<1> DEFINE e == [op |-> r, at |-> "load", snap |-> NoFile]
<1>0. /\ PortfolioTypeOK /\ NoLostUpdate /\ PnlTellsTheFile
      /\ OneRuns /\ HeadKnowsTheFile /\ ToldSoFar
  BY DEF PortfolioInv
<1>1. e \in Entries
  BY DEF Entries, Files, NoFile, Positions
<1>2. mutex \in Seq(Entries) /\ Len(mutex) < MaxOps /\ mutex' = Append(mutex, e)
  BY <1>0 DEF PortfolioTypeOK, Entries, enqueueOp
<1>3. /\ mutex' \in Seq(Entries) /\ Len(mutex') = Len(mutex) + 1
      /\ \A i \in 1..Len(mutex) : mutex'[i] = mutex[i]
      /\ mutex'[Len(mutex) + 1] = e
  BY <1>1, <1>2, AppendProperties
<1>4. DOMAIN mutex = 1..Len(mutex) /\ DOMAIN mutex' = 1..Len(mutex') /\ Len(mutex) \in Nat
  BY <1>2, <1>3
<1>5. PortfolioTypeOK'
  BY <1>0, <1>2, <1>3, <1>4, PortfolioAssumption DEF PortfolioTypeOK, Entries
<1>6. OneRuns'
  BY <1>0, <1>3, <1>4 DEF OneRuns
<1>7. HeadKnowsTheFile' /\ ToldSoFar'
  <2>1. CASE mutex = <<>>
    <3>1. mutex'[1] = e
      BY <1>3, <2>1
    <3> QED
      BY <1>0, <2>1, <3>1 DEF HeadKnowsTheFile, ToldSoFar
  <2>2. CASE mutex # <<>>
    <3>1. mutex'[1] = mutex[1] /\ mutex' # <<>>
      BY <1>2, <1>3, <1>4, <2>2
    <3> QED
      BY <1>0, <2>2, <3>1 DEF HeadKnowsTheFile, ToldSoFar
  <2> QED
    BY <2>1, <2>2
<1> QED
  BY <1>0, <1>5, <1>6, <1>7 DEF PortfolioInv, NoLostUpdate, PnlTellsTheFile

(* The head leaves: what comes to the head has not begun.                  *)
LEMMA ReleaseFacts ==
    ASSUME PortfolioInv, NEW i \in DOMAIN mutex, HoldsMutex(i), Release(i)
    PROVE  /\ mutex' \in Seq(Entries) /\ Len(mutex') <= MaxOps
           /\ \A j \in DOMAIN mutex' : mutex'[j].at = "load"
<1>0. mutex \in Seq(Entries) /\ Len(mutex) <= MaxOps /\ OneRuns /\ i = 1
  BY DEF PortfolioInv, PortfolioTypeOK, Entries, HoldsMutex
<1>1. Len(mutex) \in Nat /\ 1 <= Len(mutex) /\ DOMAIN mutex = 1..Len(mutex)
  BY <1>0
<1>2. /\ SubSeq(mutex, 2, Len(mutex)) \in Seq(Entries)
      /\ Len(SubSeq(mutex, 2, Len(mutex))) = Len(mutex) - 1
      /\ \A j \in 1..Len(mutex) - 1 : SubSeq(mutex, 2, Len(mutex))[j] = mutex[j + 1]
  <2>1. \A j \in 2..Len(mutex) : mutex[j] \in Entries
    BY <1>0, <1>1
  <2>2. /\ SubSeq(mutex, 2, Len(mutex)) \in Seq(Entries)
        /\ Len(SubSeq(mutex, 2, Len(mutex))) = IF 2 <= Len(mutex) THEN Len(mutex) - 2 + 1 ELSE 0
        /\ \A j \in 1..Len(mutex) - 2 + 1 : SubSeq(mutex, 2, Len(mutex))[j] = mutex[2 + j - 1]
    BY <1>1, <2>1, SubSeqProperties
  <2> QED
    BY <1>1, <2>2
<1>3. mutex' = SubSeq(mutex, 2, Len(mutex))
  <2>1. SubSeq(mutex, 1, 0) = <<>>
    BY SubSeqEmpty
  <2>2. mutex' = SubSeq(mutex, 1, 0) \o SubSeq(mutex, 2, Len(mutex))
    BY <1>0 DEF Release, RemoveAt
  <2> QED
    BY <1>2, <2>1, <2>2, ConcatEmptySeq
<1>4. DOMAIN mutex' = 1..Len(mutex) - 1
  BY <1>2, <1>3
<1>5. ASSUME NEW j \in DOMAIN mutex' PROVE mutex'[j].at = "load"
  <2>1. mutex'[j] = mutex[j + 1] /\ j + 1 \in DOMAIN mutex /\ j + 1 # 1
    BY <1>1, <1>2, <1>3, <1>4, <1>5
  <2> QED
    BY <1>0, <2>1 DEF OneRuns
<1>6. Len(mutex') <= MaxOps
  BY <1>0, <1>1, <1>2, <1>3, PortfolioAssumption
<1> QED
  BY <1>2, <1>3, <1>5, <1>6

(* The head leaves with the file told, or after a fault.                   *)
LEMMA LeavingKeeps ==
    ASSUME PortfolioInv, NEW i \in DOMAIN mutex, HoldsMutex(i), Release(i),
           UNCHANGED <<env, file, applied>>, lastAfter' \in Positions,
           pass' \in [Passes -> PassStates], faults' \in 0..MaxFaults,
           booked' \in Nat, PnlTellsTheFile', faults' = 0 => lastAfter' = file.pos
    PROVE  PortfolioInv'
<1>0. PortfolioTypeOK /\ NoLostUpdate
  BY DEF PortfolioInv
<1>1. /\ mutex' \in Seq(Entries) /\ Len(mutex') <= MaxOps
      /\ \A j \in DOMAIN mutex' : mutex'[j].at = "load"
  BY ReleaseFacts
<1>2. PortfolioTypeOK'
  BY <1>0, <1>1 DEF PortfolioTypeOK, Entries, env
<1>3. NoLostUpdate' /\ OneRuns' /\ ToldSoFar'
  BY <1>0, <1>1 DEF NoLostUpdate, OneRuns, ToldSoFar
<1>4. HeadKnowsTheFile'
  <2>1. ASSUME mutex' # <<>> PROVE 1 \in DOMAIN mutex'
    BY <1>1, <2>1
  <2> QED
    BY <1>1, <2>1 DEF HeadKnowsTheFile
<1> QED
  BY <1>2, <1>3, <1>4 DEF PortfolioInv

(* An operation that throws takes its reconciliation pass with it.         *)
LEMMA ThrowsTyped ==
    ASSUME PortfolioInv, NEW i \in DOMAIN mutex, Throws(i)
    PROVE  Release(i) /\ pass' \in [Passes -> PassStates]
<1>0. pass \in [Passes -> PassStates] /\ mutex \in Seq(Entries)
  BY DEF PortfolioInv, PortfolioTypeOK, Entries
<1>1. mutex[i].op \in Operations
  <2>1. mutex[i] \in Entries
    BY <1>0
  <2> QED
    BY <2>1 DEF Entries
<1>2. mutex[i].op.kind = "rebuild" => mutex[i].op.by \in Passes
  BY <1>1 DEF Operations
<1>3. [at |-> "idle"] \in PassStates
  BY DEF PassStates
<1> QED
  BY <1>0, <1>1, <1>2, <1>3 DEF Throws

(* The steps of the operation at the head of the mutex.                    *)
LEMMA OpKeeps ==
    ASSUME PortfolioInv, NEW i \in DOMAIN mutex, OpStep(i) \/ WriteFails(i) \/ AuditFails(i)
    PROVE  PortfolioInv'
<1> DEFINE r == mutex[i].op
           snap == mutex[i].snap
<1>0. /\ PortfolioTypeOK /\ NoLostUpdate /\ PnlTellsTheFile
      /\ OneRuns /\ HeadKnowsTheFile /\ ToldSoFar
  BY DEF PortfolioInv
<1>1. i = 1 /\ HoldsMutex(i)
  BY DEF OpStep, Load, Write, WriteImpossible, WriteFails, Audit, AuditFails, HoldsMutex
<1>2. mutex[i] \in Entries /\ mutex \in Seq(Entries) /\ mutex # <<>>
  <2>1. mutex \in Seq(Entries)
    BY <1>0 DEF PortfolioTypeOK, Entries
  <2> QED
    BY <2>1
<1>3. /\ r \in Operations /\ snap \in Files /\ snap.pos \in Positions /\ snap.realized \in Nat
      /\ file \in Files /\ file.pos \in Positions /\ file.realized \in Nat
      /\ booked \in Nat /\ lastAfter \in Positions /\ faults \in 0..MaxFaults
      /\ pass \in [Passes -> PassStates]
  BY <1>0, <1>2 DEF PortfolioTypeOK, Entries, Files
<1>4. /\ ~Impossible(r, snap.pos) => Result(r, snap.pos) \in Positions
      /\ Sold(r) \in Nat /\ Changes(r, snap.pos) \subseteq Mints
  BY <1>3, ResultTyped
<1>5. \A told \in SUBSET Mints : Tell(r, snap.pos, told) /\ Result(r, snap.pos) \in Positions
                                    => lastAfter' \in Positions
  BY <1>3 DEF Tell, Positions
<1>6. CASE Load(i)
  <2>1. mutex' = [mutex EXCEPT ![1] = [op |-> mutex[1].op, at |-> "write", snap |-> file]]
    BY <1>1, <1>6 DEF Load
  <2>2. mutex' \in Seq(Entries) /\ Len(mutex') = Len(mutex)
    BY <1>1, <1>2, <1>3, <2>1 DEF Entries
  <2>3. mutex'[1] = [op |-> mutex[1].op, at |-> "write", snap |-> file]
    BY <1>1, <2>1
  <2>4. PortfolioTypeOK'
    BY <1>0, <1>6, <2>2 DEF Load, PortfolioTypeOK, Entries, env
  <2>5. OneRuns'
    BY <1>0, <2>1, <2>2 DEF OneRuns
  <2>6. HeadKnowsTheFile' /\ ToldSoFar'
    BY <1>0, <1>1, <1>2, <1>6, <2>3 DEF Load, HeadKnowsTheFile, ToldSoFar
  <2> QED
    BY <1>0, <1>6, <2>4, <2>5, <2>6 DEF Load, PortfolioInv, NoLostUpdate, PnlTellsTheFile
<1>7. CASE Write(i)
  <2>1. snap = file /\ ~Impossible(r, snap.pos)
    BY <1>0, <1>1, <1>2, <1>7 DEF Write, HeadKnowsTheFile
  <2>2. file' = [pos |-> Result(r, snap.pos), realized |-> snap.realized + Sold(r)]
    BY <1>7 DEF Write
  <2>3. file' \in Files /\ booked' \in Nat /\ booked' = booked + Sold(r)
    BY <1>3, <1>4, <1>7, <2>1, <2>2 DEF Write, Files
  <2>4. mutex' = [mutex EXCEPT ![1] = [op |-> mutex[1].op, at |-> "audit", snap |-> mutex[1].snap]]
    <3>1. mutex' = [mutex EXCEPT ![1] = [mutex[1] EXCEPT !.at = "audit"]]
      BY <1>1, <1>2, <1>7 DEF Write, AdvanceOp
    <3>2. [mutex[1] EXCEPT !.at = "audit"]
            = [op |-> mutex[1].op, at |-> "audit", snap |-> mutex[1].snap]
      BY <1>1, <1>2 DEF Entries
    <3> QED
      BY <3>1, <3>2
  <2>5. mutex' \in Seq(Entries) /\ Len(mutex') = Len(mutex)
    BY <1>1, <1>2, <1>3, <2>4 DEF Entries
  <2>6. mutex'[1] = [op |-> r, at |-> "audit", snap |-> snap]
    BY <1>1, <2>4
  <2>7. PortfolioTypeOK'
    BY <1>0, <1>7, <2>3, <2>5 DEF Write, PortfolioTypeOK, Entries, env
  <2>8. NoLostUpdate'
    BY <1>0, <1>7, <2>1, <2>2 DEF Write, NoLostUpdate
  <2>9. PnlTellsTheFile'
    BY <1>0, <1>3, <1>4, <1>7, <2>1, <2>2 DEF Write, PnlTellsTheFile
  <2>10. OneRuns'
    BY <1>0, <2>4, <2>5 DEF OneRuns
  <2>11. HeadKnowsTheFile' /\ ToldSoFar'
    <3>1. faults = 0 => lastAfter = file.pos
      BY <1>0, <1>1, <1>7 DEF Write, ToldSoFar
    <3>2. lastAfter' = lastAfter /\ faults' = faults
      BY <1>7 DEF Write
    <3>3. mutex'[1].op = r /\ mutex'[1].at = "audit" /\ mutex'[1].snap.pos = snap.pos
      BY <2>6
    <3>4. mutex' # <<>>
      BY <1>2, <2>5
    <3> QED
      BY <2>1, <2>2, <3>1, <3>2, <3>3, <3>4 DEF HeadKnowsTheFile, ToldSoFar
  <2> QED
    BY <2>7, <2>8, <2>9, <2>10, <2>11 DEF PortfolioInv
<1>8. CASE WriteImpossible(i)
  <2>1. Release(i) /\ pass' \in [Passes -> PassStates]
    BY <1>8, ThrowsTyped DEF WriteImpossible
  <2>2. UNCHANGED <<env, file, lastAfter, booked, applied, faults>>
    BY <1>8 DEF WriteImpossible
  <2>3. faults = 0 => lastAfter = file.pos
    BY <1>0, <1>1, <1>8 DEF WriteImpossible, ToldSoFar
  <2> QED
    BY <1>0, <1>1, <1>3, <2>1, <2>2, <2>3, LeavingKeeps DEF PnlTellsTheFile
<1>9. CASE WriteFails(i)
  <2>1. Release(i) /\ pass' \in [Passes -> PassStates]
    BY <1>9, ThrowsTyped DEF WriteFails
  <2>2. UNCHANGED <<env, file, lastAfter, applied>> /\ booked' = booked + Sold(r)
    BY <1>9 DEF WriteFails
  <2>3. faults' \in 0..MaxFaults /\ faults' # 0
    BY <1>3, <1>9, PortfolioAssumption DEF WriteFails
  <2>4. PnlTellsTheFile' /\ booked' \in Nat
    BY <1>0, <1>3, <1>4, <2>2, <2>3 DEF PnlTellsTheFile
  <2> QED
    BY <1>1, <1>3, <2>1, <2>2, <2>3, <2>4, LeavingKeeps
<1>10. ASSUME mutex[i].at = "audit"
       PROVE  /\ file.pos = Result(r, snap.pos)
              /\ faults = 0 => lastAfter = snap.pos
  BY <1>0, <1>1, <1>2, <1>10 DEF HeadKnowsTheFile
<1>11. CASE Audit(i)
  <2>1. /\ Release(i) /\ Tell(r, snap.pos, Changes(r, snap.pos))
        /\ UNCHANGED <<env, file, booked, applied, pass, faults>> /\ mutex[i].at = "audit"
    BY <1>11 DEF Audit
  <2>2. lastAfter' \in Positions
    BY <1>3, <1>4, <1>5, <1>10, <2>1
  <2>3. ASSUME faults = 0 PROVE lastAfter' = file.pos
    <3>1. \A m \in Mints : lastAfter'[m] = file.pos[m]
      BY <1>3, <1>10, <2>1, <2>3, ChangesAreTold DEF Tell
    <3> QED
      BY <1>3, <2>2, <3>1 DEF Positions
  <2> QED
    BY <1>0, <1>1, <1>3, <2>1, <2>2, <2>3, LeavingKeeps DEF PnlTellsTheFile
<1>12. CASE AuditFails(i)
  <2>1. PICK told \in SUBSET Changes(r, snap.pos) : Tell(r, snap.pos, told)
    BY <1>12 DEF AuditFails
  <2>2. /\ Throws(i) /\ UNCHANGED <<env, file, booked, applied>> /\ mutex[i].at = "audit"
        /\ faults < MaxFaults /\ faults' = faults + 1
    BY <1>12 DEF AuditFails
  <2>3. Release(i) /\ pass' \in [Passes -> PassStates]
    BY <2>2, ThrowsTyped
  <2>4. lastAfter' \in Positions
    BY <1>3, <1>4, <1>5, <1>10, <2>1, <2>2
  <2>5. faults' \in 0..MaxFaults /\ faults' # 0
    BY <1>3, <2>2, PortfolioAssumption
  <2> QED
    BY <1>0, <1>1, <1>3, <2>2, <2>3, <2>4, <2>5, LeavingKeeps DEF PnlTellsTheFile
<1> QED
  BY <1>6, <1>7, <1>8, <1>9, <1>11, <1>12 DEF OpStep

(* The steps of a reconciliation pass.                                     *)
LEMMA PassKeeps ==
    ASSUME PortfolioInv, NEW p \in Passes, PassStep(p) \/ PassFails(p)
    PROVE  PortfolioInv'
<1>0. PortfolioTypeOK
  BY DEF PortfolioInv
<1>1. /\ pass \in [Passes -> PassStates] /\ faults \in 0..MaxFaults
      /\ file.pos \in Positions /\ chain \in [Mints -> Nat]
  BY <1>0, PortfolioAssumption DEF PortfolioTypeOK, Files, Amounts
<1>2. ASSUME UNCHANGED <<env, store>>, pass' \in [Passes -> PassStates], faults' \in 0..MaxFaults,
             faults' = 0 => faults = 0
      PROVE  PortfolioInv'
  BY <1>2 DEF PortfolioInv, PortfolioTypeOK, NoLostUpdate, PnlTellsTheFile,
              OneRuns, HeadKnowsTheFile, ToldSoFar, env, store
<1>3. CASE PassReads(p)
  <2>1. [at |-> "fetch", pos |-> file.pos] \in PassStates
    BY <1>1 DEF PassStates
  <2> QED
    BY <1>1, <1>2, <1>3, <2>1 DEF PassReads
<1>4. CASE PassFetches(p)
  <2> DEFINE todo == [m \in Mints |->
                        IF m \in Drifts(pass[p].pos, chain) THEN chain[m] ELSE Absent]
  <2>1. [at |-> "rebuild", todo |-> todo] \in PassStates
    BY <1>1 DEF PassStates, Positions
  <2> QED
    BY <1>1, <1>2, <1>4, <2>1 DEF PassFetches
<1>5. CASE PassRebuilds(p)
  <2>1. PICK m \in Mints :
            /\ pass[p].todo[m] # Absent
            /\ enqueueOp([kind |-> "rebuild", mint |-> m, by |-> p, observed |-> pass[p].todo[m]])
            /\ pass' = [pass EXCEPT ![p] = [at |-> "rebuild",
                                            todo |-> [pass[p].todo EXCEPT ![m] = Absent]]]
    BY <1>5 DEF PassRebuilds
  <2>2. pass[p].todo \in Positions
    BY <1>1, <1>5 DEF PassRebuilds, PassStates
  <2>3. pass[p].todo[m] \in Nat /\ [pass[p].todo EXCEPT ![m] = Absent] \in Positions
    BY <2>1, <2>2 DEF Positions
  <2>4. [kind |-> "rebuild", mint |-> m, by |-> p, observed |-> pass[p].todo[m]] \in Operations
    BY <2>3 DEF Operations
  <2>5. pass' \in [Passes -> PassStates]
    BY <1>1, <2>1, <2>3 DEF PassStates
  <2>6. UNCHANGED <<chain, landed, landings, file, lastAfter, booked, applied, faults>>
    BY <1>5 DEF PassRebuilds, env
  <2> QED
    BY <2>1, <2>4, <2>5, <2>6, EnqueueKeeps
<1>6. [at |-> "idle"] \in PassStates
  BY DEF PassStates
<1>7. CASE PassEnds(p)
  BY <1>1, <1>2, <1>6, <1>7 DEF PassEnds
<1>8. CASE PassFails(p)
  <2>1. faults' \in 0..MaxFaults /\ faults' # 0
    BY <1>1, <1>8, PortfolioAssumption DEF PassFails
  <2> QED
    BY <1>1, <1>2, <1>6, <1>8, <2>1 DEF PassFails
<1> QED
  BY <1>3, <1>4, <1>5, <1>7, <1>8 DEF PassStep

(* Every operation, every pass, the chain and every fault keep it.         *)
LEMMA PortfolioStep == PortfolioInv /\ [PortfolioNext]_pfVars => PortfolioInv'
<1> SUFFICES ASSUME PortfolioInv, [PortfolioNext]_pfVars PROVE PortfolioInv'
  OBVIOUS
<1>0. PortfolioTypeOK
  BY DEF PortfolioInv
<1>1. ASSUME NEW m \in Mints, NEW d \in -MaxAmount..MaxAmount,
             TradeLands(m, d) \/ ExternalTransfer(m, d)
      PROVE  PortfolioInv'
  <2>1. chain' \in [Mints -> Amounts] /\ landings' \in 0..MaxLandings
    BY <1>0, <1>1, PortfolioAssumption DEF TradeLands, ExternalTransfer, PortfolioTypeOK
  <2>2. [id |-> landings', mint |-> m, delta |-> d] \in Trades
    BY <2>1, PortfolioAssumption DEF Trades
  <2>3. \A t \in landed' : t \in Trades
    BY <1>0, <1>1, <2>2 DEF TradeLands, ExternalTransfer, PortfolioTypeOK
  <2>4. UNCHANGED <<store, pass, faults>>
    BY <1>1 DEF TradeLands, ExternalTransfer
  <2> QED
    BY <2>1, <2>3, <2>4 DEF PortfolioInv, PortfolioTypeOK, NoLostUpdate, PnlTellsTheFile,
                            OneRuns, HeadKnowsTheFile, ToldSoFar, store
<1>2. ASSUME NEW t \in landed, ApplyLandedTrade(t) PROVE PortfolioInv'
  <2>1. [kind |-> "apply", trade |-> t] \in Operations
    BY <1>0 DEF PortfolioTypeOK, Operations
  <2> QED
    BY <1>0, <1>2, <2>1, EnqueueKeeps DEF ApplyLandedTrade, PortfolioTypeOK
<1>3. CASE Observe
  <2>1. [kind |-> "observe", balances |-> chain] \in Operations
    BY <1>0, PortfolioAssumption DEF PortfolioTypeOK, Operations, Amounts
  <2> QED
    BY <1>0, <1>3, <2>1, EnqueueKeeps DEF Observe, PortfolioTypeOK, env
<1>4. ASSUME NEW m \in Mints, CorrectLotBasis(m) PROVE PortfolioInv'
  <2>1. [kind |-> "correct", mint |-> m] \in Operations
    BY DEF Operations
  <2> QED
    BY <1>0, <1>4, <2>1, EnqueueKeeps DEF CorrectLotBasis, PortfolioTypeOK, env
<1>5. CASE Crash
  <2>1. faults' \in 0..MaxFaults /\ faults' # 0
    BY <1>0, <1>5, PortfolioAssumption DEF Crash, PortfolioTypeOK
  <2>2. pass' \in [Passes -> PassStates]
    BY <1>5 DEF Crash, PassStates
  <2>3. mutex' = <<>> /\ mutex' \in Seq(Entries) /\ Len(mutex') <= MaxOps /\ DOMAIN mutex' = {}
    BY <1>5, PortfolioAssumption DEF Crash
  <2>4. /\ landed' = {} /\ lastAfter' = file.pos
        /\ UNCHANGED <<chain, landings, file, booked, applied>>
    BY <1>5 DEF Crash
  <2>5. PortfolioTypeOK'
    BY <1>0, <2>1, <2>2, <2>3, <2>4 DEF PortfolioTypeOK, Entries, Files
  <2>6. OneRuns'
    BY <2>3 DEF OneRuns
  <2> QED
    BY <2>1, <2>3, <2>4, <2>5, <2>6
       DEF PortfolioInv, NoLostUpdate, PnlTellsTheFile, HeadKnowsTheFile, ToldSoFar
<1>6. CASE UNCHANGED pfVars
  BY <1>6 DEF pfVars, env, store, PortfolioInv, PortfolioTypeOK, NoLostUpdate, PnlTellsTheFile,
              OneRuns, HeadKnowsTheFile, ToldSoFar
<1> QED
  BY <1>1, <1>2, <1>3, <1>4, <1>5, <1>6, OpKeeps, PassKeeps DEF PortfolioNext

(* A wallet without a file satisfies it.                                   *)
LEMMA PortfolioInitInv == PortfolioInit => PortfolioInv
<1> SUFFICES ASSUME PortfolioInit PROVE PortfolioInv
  OBVIOUS
<1>1. file \in Files /\ file.pos \in Positions /\ file.realized = 0
  BY DEF PortfolioInit, NoFile, Files, Positions
<1>2. mutex \in Seq(Entries) /\ Len(mutex) = 0 /\ DOMAIN mutex = {}
  BY DEF PortfolioInit
<1>3. pass \in [Passes -> PassStates]
  BY DEF PortfolioInit, PassStates
<1>4. PortfolioTypeOK
  <2>1. MaxAmount \in Nat /\ MaxOps \in Nat /\ MaxLandings \in Nat /\ MaxFaults \in Nat
    BY PortfolioAssumption
  <2>2. landings \in 0..MaxLandings /\ faults \in 0..MaxFaults /\ booked \in Nat /\ landed = {}
    BY <2>1 DEF PortfolioInit
  <2>3. lastAfter \in Positions
    BY <1>1 DEF PortfolioInit
  <2>4. chain \in [Mints -> Amounts]
    BY DEF PortfolioInit
  <2> QED
    BY <1>1, <1>2, <1>3, <2>1, <2>2, <2>3, <2>4 DEF PortfolioTypeOK, Entries
<1>5. OneRuns /\ HeadKnowsTheFile
  BY <1>2 DEF OneRuns, HeadKnowsTheFile, PortfolioInit
<1> QED
  BY <1>1, <1>4, <1>5 DEF PortfolioInit, PortfolioInv, NoLostUpdate, PnlTellsTheFile, ToldSoFar

(* The portfolio store is safe: no operation's update is lost to another   *)
(* that read before it, the events of an operation tell what it wrote, and *)
(* the realized PnL is what was reported, up to a first fault              *)
(* (store-file.ts withMutex, applyLandedTrade, observe, rebuildPosition,   *)
(* correctLotBasis; reconciler.ts).                                        *)
THEOREM PortfolioIsSafe == PortfolioSpec => []PortfolioSafe
<1>1. PortfolioInv => PortfolioSafe
  BY DEF PortfolioInv, PortfolioSafe, ChangesTellTheFile, ToldSoFar
<1> QED
  BY <1>1, PortfolioInitInv, PortfolioStep, PTL DEF PortfolioSpec

-----------------------------------------------------------------------------
(* Both, of the specification the run Stores checks.                       *)
THEOREM StoresAreSafe == MCSpec => []StoresSafe
<1>1. MCInit => PortfolioInv /\ FileStoreInv
  BY PortfolioInitInv, FileStoreInitInv DEF MCInit
<1>2. PortfolioInv /\ FileStoreInv /\ [MCNext]_mcVars => PortfolioInv' /\ FileStoreInv'
  <2>1. [MCNext]_mcVars => [PortfolioNext]_pfVars /\ [FileStoreNext]_fsVars
    BY DEF MCNext, mcVars
  <2> QED
    BY <2>1, PortfolioStep, FileStoreStep
<1>3. PortfolioInv /\ FileStoreInv => StoresSafe
  BY DEF PortfolioInv, PortfolioSafe, ChangesTellTheFile, ToldSoFar, FileStoreInv, StoresSafe
<1> QED
  BY <1>1, <1>2, <1>3, PTL DEF MCSpec

-----------------------------------------------------------------------------
(* The vault.                                                              *)

(* The calls, by what they have read so far.                               *)
AddCall == [kind : {"add"}, seed : Seeds, phrase : ValidPhrases, overwrite : BOOLEAN,
            at : {"read", "write", "audit"}]
UnlockCall == [kind : {"unlock"}, phrase : Phrases, hooks : BOOLEAN, snap : Records,
               at : {"derive", "audit", "done"}]
RotateCall == [kind : {"rotate"}, old : Phrases, new : ValidPhrases, snap : Records,
               at : {"derive", "audit"}]
SignCall == [kind : {"sign"}, handle : VaultCalls, at : {"balance", "failed"}]
CheckedCall == [kind : {"sign"}, handle : VaultCalls, seen : Int,
                at : {"check", "audit", "done", "landed"}]
EndedCall == [kind : {"add", "unlock", "rotate", "sign"}, at : {"failed"}]
               \cup [kind : {"add", "rotate"}, at : {"done"}]
CallType == {NewCall} \cup AddCall \cup UnlockCall \cup RotateCall \cup SignCall
              \cup CheckedCall \cup EndedCall

CallsTyped == vcall \in [VaultCalls -> CallType]

(* A handle belongs to the unlock that made it.                            *)
HandlesAreUnlocks ==
    \A c \in VaultCalls : handle[c] = "live" => vcall[c].kind = "unlock"

(* Until a record is replaced, a passphrase change under way has read the  *)
(* seed that is stored.                                                    *)
RotationsReadTheSeed ==
    ~replaced =>
        \A c \in VaultCalls : vcall[c].kind = "rotate" /\ vcall[c].at = "derive" =>
            record # Nobody /\ record.seed = vcall[c].snap.seed

(* Until a balance is read beside a transaction in flight, there is one in *)
(* flight at most, and the balance it was checked against still holds.     *)
OneInTheAir ==
    ~overlapped =>
        \A c \in VaultCalls : InTheAir(c) =>
            /\ \A d \in VaultCalls : InTheAir(d) => c = d
            /\ vcall[c].seen = balance
            /\ vcall[c].at \in {"audit", "done"} => checkSpend(balance)

(* A signing call that still needs its key names a finished unlock.        *)
Opened(h) == h \in VaultCalls /\ vcall[h].kind = "unlock" /\ vcall[h].at = "done"
SigningIsOpened ==
    \A c \in VaultCalls :
        vcall[c].kind = "sign" /\ vcall[c].at \in {"balance", "check"} => Opened(vcall[c].handle)

VaultInv ==
    /\ VaultTypeOK /\ OneLiveHandle /\ LiveKeyHasAHolder /\ ReserveNeedsOverlap
    /\ CallsTyped
    /\ SigningIsOpened
    /\ HandlesAreUnlocks
    /\ RotationsReadTheSeed
    /\ OneInTheAir

(* Which calls a kind and a place belong to.                               *)
LEMMA CallShapes ==
    ASSUME NEW r \in CallType
    PROVE  /\ r.kind = "add" /\ r.at \in {"read", "write", "audit"} => r \in AddCall
           /\ r.kind = "unlock" /\ r.at \in {"derive", "audit", "done"} => r \in UnlockCall
           /\ r.kind = "rotate" /\ r.at \in {"derive", "audit"} => r \in RotateCall
           /\ r.kind = "sign" /\ r.at = "balance" => r \in SignCall
           /\ r.kind = "sign" /\ r.at \in {"check", "audit", "done", "landed"} => r \in CheckedCall
           /\ r.kind \in {"none", "add", "unlock", "rotate", "sign"}
           /\ r.kind = "none" => r = NewCall
           /\ r.at = "audit" => r \in AddCall \cup UnlockCall \cup RotateCall \cup CheckedCall
  BY DEF CallType, AddCall, UnlockCall, RotateCall, SignCall, CheckedCall, EndedCall, NewCall

(* Finished unlocks do not change, so the others may.                      *)
LEMMA OpenedStays ==
    ASSUME SigningIsOpened, NEW c \in VaultCalls, NEW r,
           vcall'[c] = r, \A d \in VaultCalls : d # c => vcall'[d] = vcall[d],
           ~Opened(c),
           r.kind = "sign" /\ r.at \in {"balance", "check"} => Opened(r.handle)
    PROVE  SigningIsOpened'
  BY DEF SigningIsOpened, Opened

(* A step that writes no record, no handle and no balance: the call it is  *)
(* of changes, and nothing it becomes is in the air or about to rotate.    *)
LEMMA QuietStep ==
    ASSUME VaultInv, NEW c \in VaultCalls, NEW r \in CallType, Becomes(c, r),
           UNCHANGED <<record, handle, unlocked, signed, balance, replaced, overlapped>>,
           auditErrors' \in auditErrors..MaxAuditErrors,
           handle[c] = "live" =>
               r.kind = "unlock" /\ (r.at \in {"audit", "done"} \/ auditErrors' > 0),
           ~Opened(c), r.kind = "sign" /\ r.at \in {"balance", "check"} => Opened(r.handle),
           r.kind = "rotate" /\ r.at = "derive" => record # Nobody /\ r.snap = record,
           r.kind = "sign" /\ r.at \in {"check", "audit", "done"} =>
               InTheAir(c) /\ r.seen = vcall[c].seen
                 /\ (r.at \in {"audit", "done"} =>
                        vcall[c].at \in {"audit", "done"} \/ checkSpend(r.seen))
    PROVE  VaultInv'
<1>0. /\ VaultTypeOK /\ OneLiveHandle /\ LiveKeyHasAHolder /\ ReserveNeedsOverlap /\ CallsTyped
      /\ HandlesAreUnlocks /\ RotationsReadTheSeed /\ OneInTheAir
  BY DEF VaultInv, VaultSafe
<1>1. vcall' \in [VaultCalls -> CallType] /\ vcall'[c] = r
      /\ \A d \in VaultCalls : d # c => vcall'[d] = vcall[d]
  BY <1>0 DEF Becomes, CallsTyped
<1>2. auditErrors' \in 0..MaxAuditErrors /\ auditErrors' >= auditErrors
  BY <1>0, VaultAssumption DEF VaultTypeOK
<1>3. VaultTypeOK'
  BY <1>0, <1>1, <1>2, CallShapes DEF VaultTypeOK
<1>4. OneLiveHandle' /\ ReserveNeedsOverlap'
  BY <1>0 DEF OneLiveHandle, ReserveNeedsOverlap
<1>5. LiveKeyHasAHolder' /\ HandlesAreUnlocks'
  BY <1>0, <1>1, <1>2 DEF LiveKeyHasAHolder, HandlesAreUnlocks, VaultTypeOK
<1>6. RotationsReadTheSeed'
  BY <1>0, <1>1 DEF RotationsReadTheSeed
<1>7. OneInTheAir'
  <2>1. \A d \in VaultCalls : InTheAir(d)' => InTheAir(d) /\ vcall'[d].seen = vcall[d].seen
    BY <1>1 DEF InTheAir
  <2> QED
    BY <1>0, <1>1, <2>1 DEF OneInTheAir, InTheAir
<1>8. SigningIsOpened'
  BY <1>1, OpenedStays DEF VaultInv
<1> QED
  BY <1>1, <1>3, <1>4, <1>5, <1>6, <1>7, <1>8 DEF VaultInv, VaultSafe, CallsTyped

(* addWallet(), unlock() and rotateKey() up to the first write.            *)
LEMMA CallBegins ==
    ASSUME VaultInv, NEW c \in VaultCalls, vcall[c] = NewCall, UNCHANGED notCalls,
           NEW r \in CallType, Becomes(c, r), r.at \notin {"check", "audit", "done"},
           r.kind = "sign" /\ r.at = "balance" => Opened(r.handle),
           r.kind = "rotate" /\ r.at = "derive" => record # Nobody /\ r.snap = record
    PROVE  VaultInv'
<1>1. handle[c] # "live"
  BY DEF VaultInv, HandlesAreUnlocks, NewCall
<1>2. auditErrors' \in auditErrors..MaxAuditErrors
  BY VaultAssumption DEF VaultInv, VaultSafe, VaultTypeOK, notCalls
<1> QED
  BY <1>1, <1>2, QuietStep DEF notCalls, Opened, NewCall

(* A call that throws leaves nothing behind that was not there.            *)
LEMMA CallFails ==
    ASSUME VaultInv, NEW c \in VaultCalls, Fails(c), vcall[c].kind # "none",
           vcall[c].kind = "unlock" => vcall[c].at # "audit" \/ auditErrors' > 0,
           UNCHANGED <<record, handle, unlocked, signed, balance, replaced, overlapped>>,
           auditErrors' \in auditErrors..MaxAuditErrors,
           vcall[c].at \in {"read", "write", "derive", "check", "audit"}
    PROVE  VaultInv'
<1> DEFINE r == [kind |-> vcall[c].kind, at |-> "failed"]
<1>1. vcall[c] \in CallType
  BY DEF VaultInv, CallsTyped
<1>2. vcall[c].kind \in {"add", "unlock", "rotate", "sign"}
  BY <1>1, CallShapes
<1>3. r \in CallType /\ Becomes(c, r) /\ r.kind = vcall[c].kind /\ r.at = "failed"
  BY <1>2 DEF CallType, EndedCall, Fails
<1> HIDE DEF r
<1>4. handle[c] = "live" => r.kind = "unlock" /\ auditErrors' > 0
  BY <1>3, VaultAssumption DEF VaultInv, VaultSafe, VaultTypeOK, HandlesAreUnlocks, LiveKeyHasAHolder
<1> QED
  BY <1>3, <1>4, QuietStep DEF Opened

(* Every step keeps the invariant.                                         *)
LEMMA VaultStep == VaultInv /\ [VaultNext]_vaultVars => VaultInv'
<1> SUFFICES ASSUME VaultInv, [VaultNext]_vaultVars PROVE VaultInv'
  OBVIOUS
<1>0. /\ VaultTypeOK /\ OneLiveHandle /\ LiveKeyHasAHolder /\ ReserveNeedsOverlap /\ CallsTyped
      /\ HandlesAreUnlocks /\ RotationsReadTheSeed /\ OneInTheAir /\ SigningIsOpened
  BY DEF VaultInv, VaultSafe
<1>a. auditErrors \in auditErrors..MaxAuditErrors
  BY <1>0, VaultAssumption DEF VaultTypeOK
<1>b. \A c \in VaultCalls : vcall[c] \in CallType
  BY <1>0 DEF CallsTyped
<1>1. CASE LockWallet
  <2>1. handle' \in [VaultCalls -> {"none", "live", "locked"}] /\ unlocked' = Nobody
        /\ \A c \in VaultCalls : handle'[c] = "live" => handle[c] = "live" /\ c # unlocked
    BY <1>0, <1>1 DEF LockWallet, VaultTypeOK
  <2>2. \A c \in VaultCalls : handle'[c] # "live"
    BY <1>0, <2>1 DEF OneLiveHandle
  <2> QED
    BY <1>0, <1>1, <2>1, <2>2 DEF LockWallet, VaultInv, VaultSafe, VaultTypeOK, OneLiveHandle,
         LiveKeyHasAHolder, ReserveNeedsOverlap, CallsTyped, HandlesAreUnlocks, RotationsReadTheSeed,
         OneInTheAir, InTheAir, SigningIsOpened, Opened
<1>2. ASSUME NEW c \in VaultCalls, NEW s \in Seeds, NEW p \in Phrases, NEW o \in BOOLEAN,
             AddWallet(c, s, p, o)
      PROVE  VaultInv'
  <2>1. CASE p \notin ValidPhrases
    <3>1. [kind |-> "add", at |-> "failed"] \in CallType
      BY DEF CallType, EndedCall
    <3> QED
      BY <1>2, <2>1, <3>1, CallBegins DEF AddWallet
  <2>2. CASE p \in ValidPhrases
    <3>1. [kind |-> "add", seed |-> s, phrase |-> p, overwrite |-> o, at |-> "read"] \in CallType
      BY <2>2 DEF CallType, AddCall
    <3> QED
      BY <1>2, <2>2, <3>1, CallBegins DEF AddWallet
  <2> QED
    BY <2>1, <2>2
<1>3. ASSUME NEW c \in VaultCalls, NEW p \in Phrases, NEW wired \in BOOLEAN, Unlock(c, p, wired)
      PROVE  VaultInv'
  <2>1. CASE record = Nobody
    <3>1. [kind |-> "unlock", at |-> "failed"] \in CallType
      BY DEF CallType, EndedCall
    <3> QED
      BY <1>3, <2>1, <3>1, CallBegins DEF Unlock
  <2>2. CASE record # Nobody
    <3>1. [kind |-> "unlock", phrase |-> p, hooks |-> wired, snap |-> record, at |-> "derive"] \in CallType
      BY <1>0, <2>2 DEF CallType, UnlockCall, VaultTypeOK
    <3> QED
      BY <1>3, <2>2, <3>1, CallBegins DEF Unlock
  <2> QED
    BY <2>1, <2>2
<1>4. ASSUME NEW c \in VaultCalls, NEW old \in Phrases, NEW new \in Phrases, RotateKey(c, old, new)
      PROVE  VaultInv'
  <2>1. CASE new \notin ValidPhrases \/ record = Nobody
    <3>1. [kind |-> "rotate", at |-> "failed"] \in CallType
      BY DEF CallType, EndedCall
    <3> QED
      BY <1>4, <2>1, <3>1, CallBegins DEF RotateKey
  <2>2. CASE new \in ValidPhrases /\ record # Nobody
    <3>1. [kind |-> "rotate", old |-> old, new |-> new, snap |-> record, at |-> "derive"] \in CallType
      BY <1>0, <2>2 DEF CallType, RotateCall, VaultTypeOK
    <3> QED
      BY <1>4, <2>2, <3>1, CallBegins DEF RotateKey
  <2> QED
    BY <2>1, <2>2
<1>5. ASSUME NEW c \in VaultCalls, NEW h \in VaultCalls, SignTransaction(c, h) PROVE VaultInv'
  <2> DEFINE r == [kind |-> "sign", handle |-> h,
                   at |-> IF handle[h] = "live" THEN "balance" ELSE "failed"]
  <2>1. r \in CallType /\ r.kind = "sign" /\ r.handle = h /\ r.at \in {"balance", "failed"} /\ Becomes(c, r)
    BY <1>5 DEF SignTransaction, CallType, SignCall
  <2> HIDE DEF r
  <2> QED
    BY <1>5, <2>1, CallBegins DEF SignTransaction, Opened
<1>6. ASSUME NEW c \in VaultCalls, AddReads(c) PROVE VaultInv'
  <2>1. CASE Fails(c)
    BY <1>6, <1>a, <2>1, CallFails DEF AddReads, notCalls
  <2>2. CASE GoesTo(c, "write")
    <3> DEFINE r == [vcall[c] EXCEPT !.at = "write"]
    <3>1. r \in CallType /\ r.kind = "add" /\ r.at = "write" /\ Becomes(c, r)
      BY <1>6, <1>b, <2>2, CallShapes DEF AddReads, GoesTo, Becomes, CallType, AddCall
    <3> HIDE DEF r
    <3> QED
      BY <1>0, <1>6, <1>a, <3>1, QuietStep DEF AddReads, notCalls, HandlesAreUnlocks, Opened
  <2> QED
    BY <1>6, <2>1, <2>2 DEF AddReads
<1>7. ASSUME NEW c \in VaultCalls, UnlockWrong(c) \/ RotateWrong(c) PROVE VaultInv'
  BY <1>7, <1>a, CallFails DEF UnlockWrong, RotateWrong, notCalls
<1>8. ASSUME NEW c \in VaultCalls, AddWrites(c) PROVE VaultInv'
  <2> DEFINE r == [vcall[c] EXCEPT !.at = "audit"]
  <2>1. vcall[c] \in AddCall
    BY <1>8, <1>b, CallShapes DEF AddWrites
  <2>2. r \in CallType /\ r.kind = "add" /\ Becomes(c, r)
    BY <1>8, <2>1 DEF AddWrites, GoesTo, Becomes, CallType, AddCall
  <2> HIDE DEF r
  <2>3. vcall' \in [VaultCalls -> CallType] /\ vcall'[c] = r
        /\ \A d \in VaultCalls : d # c => vcall'[d] = vcall[d]
    BY <1>0, <2>2 DEF Becomes, CallsTyped
  <2>4. record' \in Records
    BY <1>8, <2>1 DEF AddWrites, AddCall, Records
  <2>5. VaultTypeOK' /\ CallsTyped'
    BY <1>0, <1>8, <2>2, <2>3, <2>4, CallShapes DEF AddWrites, VaultTypeOK, CallsTyped
  <2>6. OneLiveHandle' /\ ReserveNeedsOverlap' /\ LiveKeyHasAHolder' /\ HandlesAreUnlocks'
    BY <1>0, <1>8, <2>2, <2>3
       DEF AddWrites, OneLiveHandle, ReserveNeedsOverlap, LiveKeyHasAHolder, HandlesAreUnlocks
  <2>7. RotationsReadTheSeed'
    BY <1>0, <1>8, <2>2, <2>3 DEF AddWrites, RotationsReadTheSeed
  <2>8. OneInTheAir'
    BY <1>0, <1>8, <2>2, <2>3 DEF AddWrites, OneInTheAir, InTheAir
  <2>9. SigningIsOpened'
    BY <1>0, <1>8, <2>2, <2>3, OpenedStays DEF AddWrites, Opened
  <2> QED
    BY <2>5, <2>6, <2>7, <2>8, <2>9 DEF VaultInv, VaultSafe
<1>9. ASSUME NEW c \in VaultCalls, UnlockOpens(c) PROVE VaultInv'
  <2>1. vcall[c] \in UnlockCall
    BY <1>9, <1>b, CallShapes DEF UnlockOpens
  <2>2. relock \in [VaultCalls -> {"none", "live", "locked"}] /\ \A d \in VaultCalls : relock[d] # "live"
    BY <1>0, VaultAssumption DEF relock, VaultTypeOK, OneLiveHandle
  <2>3. CASE vcall[c].hooks
    <3> DEFINE r == [vcall[c] EXCEPT !.at = "audit"]
    <3>1. r \in CallType /\ r.kind = "unlock" /\ r.at = "audit" /\ Becomes(c, r)
      BY <1>9, <2>1, <2>3 DEF UnlockOpens, GoesTo, Becomes, CallType, UnlockCall
    <3>2. handle' = [relock EXCEPT ![c] = "live"] /\ unlocked' = c
      BY <1>9, <2>3 DEF UnlockOpens
    <3> HIDE DEF r
    <3>3. vcall' \in [VaultCalls -> CallType] /\ vcall'[c] = r
          /\ \A d \in VaultCalls : d # c => vcall'[d] = vcall[d]
      BY <1>0, <3>1 DEF Becomes, CallsTyped
    <3>4. \A d \in VaultCalls : handle'[d] = "live" => d = c
      BY <2>2, <3>2
    <3>5. VaultTypeOK' /\ CallsTyped'
      BY <1>0, <1>9, <2>2, <3>1, <3>2, <3>3, CallShapes DEF UnlockOpens, VaultTypeOK, CallsTyped
    <3>6. OneLiveHandle' /\ ReserveNeedsOverlap' /\ LiveKeyHasAHolder' /\ HandlesAreUnlocks'
      BY <1>0, <1>9, <3>1, <3>2, <3>3, <3>4
         DEF UnlockOpens, OneLiveHandle, ReserveNeedsOverlap, LiveKeyHasAHolder, HandlesAreUnlocks
    <3>7. RotationsReadTheSeed' /\ OneInTheAir'
      BY <1>0, <1>9, <3>1, <3>3 DEF UnlockOpens, RotationsReadTheSeed, OneInTheAir, InTheAir
    <3>8. SigningIsOpened'
      BY <1>0, <1>9, <3>1, <3>3, OpenedStays DEF UnlockOpens, Opened
    <3> QED
      BY <3>5, <3>6, <3>7, <3>8 DEF VaultInv, VaultSafe
  <2>4. CASE ~vcall[c].hooks
    <3> DEFINE r == [kind |-> vcall[c].kind, at |-> "failed"]
    <3>1. r \in CallType /\ r.kind = "unlock" /\ r.at = "failed" /\ Becomes(c, r)
      BY <1>9, <2>1, <2>4 DEF UnlockOpens, Fails, CallType, EndedCall, UnlockCall
    <3>2. handle' = relock /\ unlocked' = unlocked
      BY <1>9, <2>4 DEF UnlockOpens
    <3> HIDE DEF r
    <3>3. vcall' \in [VaultCalls -> CallType] /\ vcall'[c] = r
          /\ \A d \in VaultCalls : d # c => vcall'[d] = vcall[d]
      BY <1>0, <3>1 DEF Becomes, CallsTyped
    <3>5. VaultTypeOK' /\ CallsTyped'
      BY <1>0, <1>9, <2>2, <3>1, <3>2, <3>3, CallShapes DEF UnlockOpens, VaultTypeOK, CallsTyped
    <3>6. OneLiveHandle' /\ ReserveNeedsOverlap' /\ LiveKeyHasAHolder' /\ HandlesAreUnlocks'
      BY <1>0, <1>9, <2>2, <3>2
         DEF UnlockOpens, OneLiveHandle, ReserveNeedsOverlap, LiveKeyHasAHolder, HandlesAreUnlocks
    <3>7. RotationsReadTheSeed' /\ OneInTheAir'
      BY <1>0, <1>9, <3>1, <3>3 DEF UnlockOpens, RotationsReadTheSeed, OneInTheAir, InTheAir
    <3>8. SigningIsOpened'
      BY <1>0, <1>9, <3>1, <3>3, OpenedStays DEF UnlockOpens, Opened
    <3> QED
      BY <3>5, <3>6, <3>7, <3>8 DEF VaultInv, VaultSafe
  <2> QED
    BY <2>3, <2>4
<1>10. ASSUME NEW c \in VaultCalls, RotateWrites(c) PROVE VaultInv'
  <2> DEFINE r == [vcall[c] EXCEPT !.at = "audit"]
  <2>1. vcall[c] \in RotateCall
    BY <1>10, <1>b, CallShapes DEF RotateWrites, RotateOpens
  <2>2. r \in CallType /\ r.kind = "rotate" /\ r.at = "audit" /\ Becomes(c, r)
    BY <1>10, <2>1 DEF RotateWrites, GoesTo, Becomes, CallType, RotateCall
  <2> HIDE DEF r
  <2>3. vcall' \in [VaultCalls -> CallType] /\ vcall'[c] = r
        /\ \A d \in VaultCalls : d # c => vcall'[d] = vcall[d]
    BY <1>0, <2>2 DEF Becomes, CallsTyped
  <2>4. record' \in Records /\ record'.seed = vcall[c].snap.seed /\ record' # Nobody
    BY <1>10, <2>1, VaultAssumption DEF RotateWrites, RotateCall, Records
  <2>5. VaultTypeOK' /\ CallsTyped'
    BY <1>0, <1>10, <2>2, <2>3, <2>4, CallShapes DEF RotateWrites, VaultTypeOK, CallsTyped
  <2>6. OneLiveHandle' /\ ReserveNeedsOverlap' /\ LiveKeyHasAHolder' /\ HandlesAreUnlocks'
    BY <1>0, <1>10, <2>2, <2>3
       DEF RotateWrites, RotateOpens, OneLiveHandle, ReserveNeedsOverlap, LiveKeyHasAHolder,
           HandlesAreUnlocks
  <2>7. RotationsReadTheSeed'
    BY <1>0, <1>10, <2>2, <2>3, <2>4 DEF RotateWrites, RotateOpens, RotationsReadTheSeed
  <2>8. OneInTheAir'
    BY <1>0, <1>10, <2>2, <2>3 DEF RotateWrites, OneInTheAir, InTheAir
  <2>9. SigningIsOpened'
    BY <1>0, <1>10, <2>2, <2>3, OpenedStays DEF RotateWrites, RotateOpens, Opened
  <2> QED
    BY <2>5, <2>6, <2>7, <2>8, <2>9 DEF VaultInv, VaultSafe
<1>11. ASSUME NEW c \in VaultCalls, BalanceRead(c) PROVE VaultInv'
  <2> DEFINE r == [kind |-> "sign", handle |-> vcall[c].handle, at |-> "check", seen |-> balance]
  <2>1. r \in CallType /\ r.kind = "sign" /\ r.at = "check" /\ r.seen = balance /\ Becomes(c, r)
    <3>1. vcall[c] \in SignCall
      BY <1>11, <1>b, CallShapes DEF BalanceRead
    <3> QED
      BY <1>0, <1>11, <3>1 DEF BalanceRead, Becomes, CallType, CheckedCall, SignCall, VaultTypeOK
  <2> HIDE DEF r
  <2>2. vcall' \in [VaultCalls -> CallType] /\ vcall'[c] = r
        /\ \A d \in VaultCalls : d # c => vcall'[d] = vcall[d]
    BY <1>0, <2>1 DEF Becomes, CallsTyped
  <2>3. VaultTypeOK' /\ CallsTyped'
    BY <1>0, <1>11, <2>2, CallShapes DEF BalanceRead, VaultTypeOK, CallsTyped
  <2>4. OneLiveHandle' /\ ReserveNeedsOverlap' /\ LiveKeyHasAHolder' /\ HandlesAreUnlocks'
    BY <1>0, <1>11, <2>1, <2>2
       DEF BalanceRead, OneLiveHandle, ReserveNeedsOverlap, LiveKeyHasAHolder, HandlesAreUnlocks
  <2>5. RotationsReadTheSeed' /\ SigningIsOpened'
    <3>1. Opened(r.handle) /\ ~Opened(c)
      BY <1>0, <1>11 DEF BalanceRead, SigningIsOpened, Opened, r
    <3> QED
      BY <1>0, <1>11, <2>1, <2>2, <3>1, OpenedStays DEF BalanceRead, RotationsReadTheSeed
  <2>6. OneInTheAir'
    <3> SUFFICES ASSUME ~overlapped', NEW d \in VaultCalls, InTheAir(d)'
                 PROVE  /\ \A e \in VaultCalls : InTheAir(e)' => d = e
                        /\ vcall'[d].seen = balance'
                        /\ vcall'[d].at \in {"audit", "done"} => checkSpend(balance')
      BY DEF OneInTheAir, checkSpend
    <3>1. \A e \in VaultCalls : ~InTheAir(e)
      BY <1>11 DEF BalanceRead
    <3>2. \A e \in VaultCalls : InTheAir(e)' => e = c
      BY <2>2, <3>1 DEF InTheAir
    <3> QED
      BY <1>11, <2>1, <2>2, <3>2 DEF BalanceRead
  <2> QED
    BY <2>3, <2>4, <2>5, <2>6 DEF VaultInv, VaultSafe
<1>12. ASSUME NEW c \in VaultCalls, SignChecks(c) PROVE VaultInv'
  <2>0. vcall[c] \in CheckedCall
    BY <1>12, <1>b, CallShapes DEF SignChecks
  <2>1. CASE ~checkSpend(vcall[c].seen)
    BY <1>12, <1>a, <2>0, <2>1, CallFails DEF SignChecks, CheckedCall
  <2>2. CASE checkSpend(vcall[c].seen)
    <3> DEFINE r == [vcall[c] EXCEPT !.at = "audit"]
    <3>1. /\ r \in CallType /\ r.kind = "sign" /\ r.at = "audit" /\ r.seen = vcall[c].seen
          /\ Becomes(c, r)
      BY <1>12, <2>0, <2>2 DEF SignChecks, GoesTo, Becomes, CallType, CheckedCall
    <3> HIDE DEF r
    <3>2. vcall' \in [VaultCalls -> CallType] /\ vcall'[c] = r
          /\ \A d \in VaultCalls : d # c => vcall'[d] = vcall[d]
      BY <1>0, <3>1 DEF Becomes, CallsTyped
    <3>3. KeyBytes(vcall[c].handle) \in Seeds \cup {Nobody, ZeroKey}
      <4>1. vcall[vcall[c].handle] \in UnlockCall
        BY <1>0, <1>12, <1>b, CallShapes DEF SignChecks, SigningIsOpened, Opened
      <4> QED
        BY <4>1 DEF KeyBytes, UnlockCall, Records
    <3>4. VaultTypeOK' /\ CallsTyped'
      BY <1>0, <1>12, <2>2, <3>2, <3>3, CallShapes DEF SignChecks, VaultTypeOK, CallsTyped
    <3>5. OneLiveHandle' /\ ReserveNeedsOverlap' /\ LiveKeyHasAHolder' /\ HandlesAreUnlocks'
      BY <1>0, <1>12, <3>1, <3>2
         DEF SignChecks, OneLiveHandle, ReserveNeedsOverlap, LiveKeyHasAHolder, HandlesAreUnlocks
    <3>6. RotationsReadTheSeed' /\ SigningIsOpened'
      BY <1>0, <1>12, <3>1, <3>2, OpenedStays DEF SignChecks, RotationsReadTheSeed, Opened
    <3>7. OneInTheAir'
      <4>1. \A d \in VaultCalls : InTheAir(d)' <=> InTheAir(d)
        BY <1>12, <3>1, <3>2 DEF SignChecks, InTheAir
      <4> QED
        BY <1>0, <1>12, <2>2, <3>1, <3>2, <4>1 DEF SignChecks, OneInTheAir, InTheAir
    <3> QED
      BY <3>4, <3>5, <3>6, <3>7 DEF VaultInv, VaultSafe
  <2> QED
    BY <2>1, <2>2
<1>13. ASSUME NEW c \in VaultCalls, Lands(c) PROVE VaultInv'
  <2> DEFINE r == [vcall[c] EXCEPT !.at = "landed"]
  <2>1. r \in CallType /\ r.kind = "sign" /\ r.at = "landed" /\ Becomes(c, r)
    <3>1. vcall[c] \in CheckedCall
      BY <1>13, <1>b, CallShapes DEF Lands
    <3> QED
      BY <1>13, <3>1 DEF Lands, GoesTo, Becomes, CallType, CheckedCall
  <2> HIDE DEF r
  <2>2. vcall' \in [VaultCalls -> CallType] /\ vcall'[c] = r
        /\ \A d \in VaultCalls : d # c => vcall'[d] = vcall[d]
    BY <1>0, <2>1 DEF Becomes, CallsTyped
  <2>3. VaultTypeOK' /\ CallsTyped'
    BY <1>0, <1>13, <2>2, CallShapes, VaultAssumption DEF Lands, VaultTypeOK, CallsTyped
  <2>4. OneLiveHandle' /\ LiveKeyHasAHolder' /\ HandlesAreUnlocks' /\ RotationsReadTheSeed'
    BY <1>0, <1>13, <2>1, <2>2
       DEF Lands, OneLiveHandle, LiveKeyHasAHolder, HandlesAreUnlocks, RotationsReadTheSeed
  <2>5. ~overlapped => \A d \in VaultCalls : ~InTheAir(d)'
    BY <1>0, <1>13, <2>1, <2>2 DEF Lands, OneInTheAir, InTheAir
  <2>6. ReserveNeedsOverlap'
    BY <1>0, <1>13, VaultAssumption
       DEF Lands, ReserveNeedsOverlap, OneInTheAir, InTheAir, checkSpend, VaultTypeOK
  <2>7. OneInTheAir' /\ SigningIsOpened'
    BY <1>0, <1>13, <2>1, <2>2, <2>5, OpenedStays DEF Lands, OneInTheAir, Opened
  <2> QED
    BY <2>3, <2>4, <2>6, <2>7 DEF VaultInv, VaultSafe
<1>14. ASSUME NEW c \in VaultCalls, AuditAppends(c) PROVE VaultInv'
  <2>1. \E r \in CallType :
            /\ Becomes(c, r) /\ r.kind = vcall[c].kind /\ r.at = "done"
            /\ r.kind = "sign" => r.seen = vcall[c].seen
    <3>1. vcall[c] \in AddCall \cup UnlockCall \cup RotateCall \cup CheckedCall
      BY <1>14, <1>b, CallShapes DEF AuditAppends
    <3>2. CASE vcall[c] \in AddCall \cup RotateCall
      <4>1. [kind |-> vcall[c].kind, at |-> "done"] \in CallType
        BY <3>2 DEF CallType, EndedCall, AddCall, RotateCall
      <4> QED
        BY <1>14, <3>2, <4>1 DEF AuditAppends, AddCall, RotateCall
    <3>3. CASE vcall[c] \in UnlockCall \cup CheckedCall
      <4>1. /\ [vcall[c] EXCEPT !.at = "done"] \in CallType
            /\ [vcall[c] EXCEPT !.at = "done"].kind = vcall[c].kind
            /\ [vcall[c] EXCEPT !.at = "done"].at = "done"
            /\ vcall[c].kind = "sign" => [vcall[c] EXCEPT !.at = "done"].seen = vcall[c].seen
        BY <3>3 DEF CallType, UnlockCall, CheckedCall
      <4>2. Becomes(c, [vcall[c] EXCEPT !.at = "done"])
        BY <1>14, <3>3 DEF AuditAppends, GoesTo, Becomes, UnlockCall, CheckedCall
      <4> QED
        BY <4>1, <4>2
    <3> QED
      BY <3>1, <3>2, <3>3
  <2>2. vcall[c].at = "audit" /\ UNCHANGED notCalls
    BY <1>14 DEF AuditAppends
  <2>3. PICK r \in CallType : /\ Becomes(c, r) /\ r.kind = vcall[c].kind /\ r.at = "done"
                              /\ r.kind = "sign" => r.seen = vcall[c].seen
    BY <2>1
  <2> QED
    BY <1>0, <1>a, <2>2, <2>3, QuietStep DEF notCalls, InTheAir, HandlesAreUnlocks, Opened
<1>15. ASSUME NEW c \in VaultCalls, AuditAppendFails(c) PROVE VaultInv'
  <2>1. vcall[c].kind # "none"
    BY <1>15, <1>b, CallShapes DEF AuditAppendFails, NewCall
  <2>2. auditErrors' \in auditErrors..MaxAuditErrors /\ auditErrors' > 0
    BY <1>0, <1>15, VaultAssumption DEF AuditAppendFails, VaultTypeOK
  <2> QED
    BY <1>15, <2>1, <2>2, CallFails DEF AuditAppendFails
<1>20. CASE UNCHANGED vaultVars
  BY <1>0, <1>20 DEF vaultVars, notCalls, VaultInv, VaultSafe, VaultTypeOK, OneLiveHandle,
     LiveKeyHasAHolder, ReserveNeedsOverlap, CallsTyped, HandlesAreUnlocks, RotationsReadTheSeed,
     OneInTheAir, InTheAir, SigningIsOpened, Opened
<1> QED
  BY <1>1, <1>2, <1>3, <1>4, <1>5, <1>6, <1>7, <1>8, <1>9, <1>10, <1>11, <1>12, <1>13, <1>14, <1>15,
     <1>20 DEF VaultNext

(* The first states satisfy it, whatever an earlier process stored.        *)
LEMMA VaultInitInv == VaultInit => VaultInv
<1> SUFFICES ASSUME VaultInit PROVE VaultInv
  OBVIOUS
<1>1. /\ VaultTypeOK /\ CallsTyped
  BY VaultAssumption DEF VaultInit, VaultTypeOK, CallsTyped, CallType, NewCall
<1> QED
  BY <1>1, VaultAssumption DEF VaultInit, VaultInv, VaultSafe, OneLiveHandle, LiveKeyHasAHolder,
     ReserveNeedsOverlap, HandlesAreUnlocks, RotationsReadTheSeed, OneInTheAir, InTheAir, SigningIsOpened, NewCall

(* What a call has signed with: a finished unlock's key, which stays what  *)
(* it was, or zeroes, which stay zeroes.                                   *)
HandlesAreOpened ==
    \A c \in VaultCalls :
        vcall[c].kind = "unlock" /\ vcall[c].at \in {"audit", "done"} => handle[c] # "none"
SignersHaveSigned ==
    \A c \in VaultCalls : signed[c] # Nobody =>
        /\ vcall[c].kind = "sign" /\ vcall[c].at \in {"audit", "done", "landed", "failed"}
        /\ vcall[c].at # "failed" => Opened(vcall[c].handle)
SignedInv == HandlesAreOpened /\ SignersHaveSigned /\ SignedByItsHandle

(* A step that neither opens nor locks a handle, nor signs.                *)
LEMMA UnsignedStep ==
    ASSUME CallsTyped, SignedInv, NEW c \in VaultCalls, NEW r, Becomes(c, r), ~Opened(c),
           UNCHANGED <<handle, signed>>,
           r.kind = "unlock" /\ r.at \in {"audit", "done"} =>
               vcall[c].kind = "unlock" /\ vcall[c].at \in {"audit", "done"},
           signed[c] # Nobody =>
               /\ r.kind = "sign" /\ r.at \in {"audit", "done", "landed", "failed"}
               /\ r.at # "failed" => vcall[c].at # "failed" /\ r.handle = vcall[c].handle
    PROVE  SignedInv'
<1>1. vcall'[c] = r /\ \A d \in VaultCalls : d # c => vcall'[d] = vcall[d]
  BY DEF Becomes, CallsTyped
<1>2. \A h : Opened(h) => Opened(h)' /\ vcall'[h] = vcall[h]
  BY <1>1 DEF Opened
<1>3. HandlesAreOpened'
  BY <1>1 DEF SignedInv, HandlesAreOpened
<1>4. SignersHaveSigned'
  BY <1>1, <1>2 DEF SignedInv, SignersHaveSigned
<1>5. SignedByItsHandle'
  <2> SUFFICES ASSUME NEW d \in VaultCalls, vcall'[d].kind = "sign", signed[d] # Nobody,
                      vcall'[d].at # "failed"
               PROVE  \/ signed[d] = vcall'[vcall'[d].handle].snap.seed
                      \/ signed[d] = ZeroKey /\ handle[vcall'[d].handle] = "locked"
    BY DEF SignedByItsHandle
  <2>1. vcall[d].kind = "sign" /\ vcall[d].at # "failed" /\ vcall'[d].handle = vcall[d].handle
    BY <1>1 DEF SignedInv, SignersHaveSigned
  <2>2. vcall'[vcall[d].handle] = vcall[vcall[d].handle]
    BY <1>2, <2>1 DEF SignedInv, SignersHaveSigned
  <2> QED
    BY <2>1, <2>2 DEF SignedInv, SignedByItsHandle
<1> QED
  BY <1>3, <1>4, <1>5 DEF SignedInv

(* A step that changes handles: those of finished unlocks are only locked. *)
LEMMA LockingStep ==
    ASSUME SignedInv, UNCHANGED signed,
           \A h : Opened(h) => Opened(h)' /\ vcall'[h] = vcall[h],
           \A h : Opened(h) /\ handle[h] = "locked" => handle'[h] = "locked",
           HandlesAreOpened',
           \A d \in VaultCalls : vcall[d].kind = "sign" \/ vcall'[d].kind = "sign" => vcall'[d] = vcall[d]
    PROVE  SignedInv'
<1>1. SignersHaveSigned'
  BY DEF SignedInv, SignersHaveSigned
<1>2. SignedByItsHandle'
  BY DEF SignedInv, SignersHaveSigned, SignedByItsHandle
<1> QED
  BY <1>1, <1>2 DEF SignedInv

(* Every step keeps what was signed accounted for.                         *)
LEMMA SignedStep == VaultInv /\ SignedInv /\ [VaultNext]_vaultVars => SignedInv'
<1> SUFFICES ASSUME VaultInv, SignedInv, [VaultNext]_vaultVars PROVE SignedInv'
  OBVIOUS
<1>0. VaultTypeOK /\ OneLiveHandle /\ CallsTyped /\ SigningIsOpened
  BY DEF VaultInv
<1>b. \A c \in VaultCalls : vcall[c] \in CallType
  BY <1>0 DEF CallsTyped
<1>1. CASE LockWallet
  <2>1. vcall' = vcall /\ signed' = signed /\ unlocked \in VaultCalls
        /\ handle' = [handle EXCEPT ![unlocked] = "locked"]
    BY <1>0, <1>1 DEF LockWallet, VaultTypeOK
  <2>2. \A h \in VaultCalls : handle'[h] = handle[h] \/ handle'[h] = "locked"
    BY <1>0, <2>1 DEF VaultTypeOK
  <2>3. HandlesAreOpened'
    BY <2>1, <2>2 DEF SignedInv, HandlesAreOpened
  <2> QED
    BY <2>1, <2>2, <2>3, LockingStep DEF Opened
<1>2. ASSUME NEW c \in VaultCalls, UnlockOpens(c) PROVE SignedInv'
  <2>1. vcall[c] \in UnlockCall
    BY <1>2, <1>b, CallShapes DEF UnlockOpens
  <2>2. \A h \in VaultCalls : relock[h] = handle[h] \/ relock[h] = "locked"
    BY <1>0 DEF relock, VaultTypeOK
  <2>3. relock \in [VaultCalls -> {"none", "live", "locked"}]
    BY <1>0 DEF relock, VaultTypeOK
  <2>4. /\ signed' = signed /\ ~Opened(c) /\ vcall'[c].kind = "unlock" /\ vcall[c].kind = "unlock"
        /\ vcall'[c].at \in {"audit", "done"} => handle'[c] = "live"
    BY <1>0, <1>2, <2>1, <2>3 DEF UnlockOpens, Opened, GoesTo, Fails, Becomes, CallsTyped, UnlockCall
  <2>5. \A d \in VaultCalls : d # c => vcall'[d] = vcall[d] /\ (handle'[d] = handle[d] \/ handle'[d] = "locked")
    BY <1>0, <1>2, <2>2, <2>3 DEF UnlockOpens, GoesTo, Fails, Becomes, CallsTyped
  <2>6. HandlesAreOpened'
    BY <2>4, <2>5 DEF SignedInv, HandlesAreOpened
  <2> QED
    BY <2>4, <2>5, <2>6, LockingStep DEF Opened
<1>3. ASSUME NEW c \in VaultCalls, SignChecks(c) PROVE SignedInv'
  <2>0. vcall[c] \in CheckedCall /\ ~Opened(c) /\ Opened(vcall[c].handle) /\ vcall[c].handle # c
    BY <1>0, <1>3, <1>b, CallShapes DEF SignChecks, SigningIsOpened, Opened
  <2>1. CASE ~checkSpend(vcall[c].seen)
    <3> DEFINE r == [kind |-> vcall[c].kind, at |-> "failed"]
    <3>1. Becomes(c, r) /\ r.kind = "sign" /\ r.at = "failed" /\ UNCHANGED <<handle, signed>>
      BY <1>3, <2>1 DEF SignChecks, Fails
    <3> HIDE DEF r
    <3> QED
      BY <1>0, <2>0, <3>1, UnsignedStep
  <2>2. CASE checkSpend(vcall[c].seen)
    <3>0. PICK h : h = vcall[c].handle
      OBVIOUS
    <3>1. vcall'[c] = [vcall[c] EXCEPT !.at = "audit"] /\ \A d \in VaultCalls : d # c => vcall'[d] = vcall[d]
      BY <1>0, <1>3, <2>2 DEF SignChecks, GoesTo, CallsTyped
    <3>2. vcall'[c].kind = "sign" /\ vcall'[c].at = "audit" /\ vcall'[c].handle = h
      BY <1>3, <2>0, <3>0, <3>1 DEF SignChecks, CheckedCall
    <3>3. handle' = handle /\ signed'[c] = KeyBytes(h) /\ \A d \in VaultCalls : d # c => signed'[d] = signed[d]
      BY <1>0, <1>3, <2>2, <3>0 DEF SignChecks, VaultTypeOK
    <3>4. \A g : Opened(g) => Opened(g)' /\ vcall'[g] = vcall[g]
      BY <2>0, <3>1 DEF Opened
    <3>5. HandlesAreOpened'
      BY <3>1, <3>2, <3>3 DEF SignedInv, HandlesAreOpened
    <3>6. Opened(h)
      BY <2>0, <3>0
    <3>7. SignersHaveSigned'
      <4>1. Opened(h)'
        BY <3>4, <3>6
      <4>2. ASSUME NEW d \in VaultCalls, d # c, signed'[d] # Nobody
            PROVE  /\ vcall'[d].kind = "sign" /\ vcall'[d].at \in {"audit", "done", "landed", "failed"}
                   /\ vcall'[d].at # "failed" => Opened(vcall[d].handle)'
        BY <3>1, <3>3, <3>4, <4>2 DEF SignedInv, SignersHaveSigned
      <4> QED
        BY <3>2, <4>1, <4>2 DEF SignersHaveSigned
    <3>8. handle[h] \in {"live", "locked"}
      BY <1>0, <3>6 DEF SignedInv, HandlesAreOpened, Opened, VaultTypeOK
    <3>9. \/ signed'[c] = vcall'[h].snap.seed
          \/ signed'[c] = ZeroKey /\ handle'[h] = "locked"
      BY <3>3, <3>4, <3>6, <3>8 DEF KeyBytes
    <3>10. ASSUME NEW d \in VaultCalls, d # c, vcall'[d].kind = "sign", signed'[d] # Nobody,
                  vcall'[d].at # "failed"
           PROVE  \/ signed'[d] = vcall'[vcall'[d].handle].snap.seed
                  \/ signed'[d] = ZeroKey /\ handle'[vcall'[d].handle] = "locked"
      <4>1. vcall'[d] = vcall[d] /\ signed'[d] = signed[d]
        BY <3>1, <3>3, <3>10
      <4>2. vcall'[vcall[d].handle] = vcall[vcall[d].handle]
        BY <3>4, <3>10, <4>1 DEF SignedInv, SignersHaveSigned
      <4> QED
        BY <3>3, <3>10, <4>1, <4>2 DEF SignedInv, SignedByItsHandle
    <3>11. SignedByItsHandle'
      BY <3>2, <3>9, <3>10 DEF SignedByItsHandle
    <3> QED
      BY <3>5, <3>7, <3>11 DEF SignedInv
  <2> QED
    BY <2>1, <2>2
<1>4. ASSUME NEW c \in VaultCalls, vcall[c] = NewCall, UNCHANGED notCalls,
             NEW r, Becomes(c, r), r.at \notin {"audit", "done"}
      PROVE  SignedInv'
  <2>1. signed[c] = Nobody /\ ~Opened(c)
    BY <1>4 DEF SignedInv, SignersHaveSigned, Opened, NewCall
  <2> QED
    BY <1>0, <1>4, <2>1, UnsignedStep DEF notCalls
<1>5. ASSUME NEW c \in VaultCalls, NEW s \in Seeds, NEW p \in Phrases, NEW o \in BOOLEAN,
             AddWallet(c, s, p, o)
      PROVE  SignedInv'
  BY <1>4, <1>5 DEF AddWallet
<1>6. ASSUME NEW c \in VaultCalls, NEW p \in Phrases, NEW wired \in BOOLEAN, Unlock(c, p, wired)
      PROVE  SignedInv'
  BY <1>4, <1>6 DEF Unlock
<1>7. ASSUME NEW c \in VaultCalls, NEW old \in Phrases, NEW new \in Phrases, RotateKey(c, old, new)
      PROVE  SignedInv'
  BY <1>4, <1>7 DEF RotateKey
<1>8. ASSUME NEW c \in VaultCalls, NEW h \in VaultCalls, SignTransaction(c, h) PROVE SignedInv'
  <2> DEFINE r == [kind |-> "sign", handle |-> h,
                   at |-> IF handle[h] = "live" THEN "balance" ELSE "failed"]
  <2>1. r.at \notin {"audit", "done"} /\ Becomes(c, r) /\ vcall[c] = NewCall /\ UNCHANGED notCalls
    BY <1>8 DEF SignTransaction
  <2> HIDE DEF r
  <2> QED
    BY <1>4, <2>1
<1>9. ASSUME NEW c \in VaultCalls, Fails(c), ~Opened(c), UNCHANGED <<handle, signed>>,
             vcall[c].kind # "sign" \/ vcall[c].at # "failed"
      PROVE  SignedInv'
  <2> DEFINE r == [kind |-> vcall[c].kind, at |-> "failed"]
  <2>1. r.at = "failed" /\ r.kind = vcall[c].kind /\ Becomes(c, r)
    BY <1>9 DEF Fails
  <2> HIDE DEF r
  <2>2. signed[c] # Nobody => r.kind = "sign"
    BY <2>1 DEF SignedInv, SignersHaveSigned
  <2> QED
    BY <1>0, <1>9, <2>1, <2>2, UnsignedStep
<1>10. ASSUME NEW c \in VaultCalls, NEW at, GoesTo(c, at), ~Opened(c), UNCHANGED <<handle, signed>>,
              \/ vcall[c].kind = "add" /\ vcall[c].at \in {"read", "write"}
              \/ vcall[c].kind = "rotate" /\ vcall[c].at = "derive"
              \/ vcall[c].kind = "unlock" /\ vcall[c].at = "audit"
              \/ vcall[c].kind = "sign" /\ vcall[c].at \in {"audit", "done"} /\ at \in {"done", "landed"}
       PROVE  SignedInv'
  <2> DEFINE r == [vcall[c] EXCEPT !.at = at]
  <2>1. Becomes(c, r)
    BY <1>10 DEF GoesTo, Becomes
  <2>2. vcall[c] \in AddCall \cup RotateCall \cup UnlockCall \cup CheckedCall
    BY <1>10, <1>b, CallShapes
  <2>3. r.kind = vcall[c].kind /\ r.at = at /\ (vcall[c].kind = "sign" => r.handle = vcall[c].handle)
    BY <2>2 DEF AddCall, RotateCall, UnlockCall, CheckedCall
  <2> HIDE DEF r
  <2>4. signed[c] # Nobody => vcall[c].kind = "sign"
    BY DEF SignedInv, SignersHaveSigned
  <2> QED
    BY <1>0, <1>10, <2>1, <2>3, <2>4, UnsignedStep
<1>11. ASSUME NEW c \in VaultCalls, AddReads(c) \/ AddWrites(c) \/ UnlockWrong(c) \/ RotateWrong(c)
                                     \/ RotateWrites(c)
       PROVE  SignedInv'
  BY <1>9, <1>10, <1>11 DEF AddReads, AddWrites, UnlockWrong, RotateWrong, RotateWrites, RotateOpens,
     notCalls, Opened
<1>12. ASSUME NEW c \in VaultCalls, BalanceRead(c) PROVE SignedInv'
  <2> DEFINE r == [kind |-> "sign", handle |-> vcall[c].handle, at |-> "check", seen |-> balance]
  <2>1. r.kind = "sign" /\ Becomes(c, r) /\ ~Opened(c) /\ UNCHANGED <<handle, signed>>
    BY <1>12 DEF BalanceRead, Becomes, Opened
  <2>2. signed[c] = Nobody
    BY <1>12 DEF BalanceRead, SignedInv, SignersHaveSigned
  <2> HIDE DEF r
  <2> QED
    BY <1>0, <2>1, <2>2, UnsignedStep
<1>13. ASSUME NEW c \in VaultCalls, Lands(c) PROVE SignedInv'
  BY <1>10, <1>13 DEF Lands, Opened
<1>14. ASSUME NEW c \in VaultCalls, AuditAppends(c) PROVE SignedInv'
  <2>1. ~Opened(c) /\ UNCHANGED <<handle, signed>> /\ vcall[c].at = "audit"
    BY <1>14 DEF AuditAppends, notCalls, Opened
  <2>2. CASE vcall[c].kind \in {"add", "rotate"}
    <3> DEFINE r == [kind |-> vcall[c].kind, at |-> "done"]
    <3>1. r.kind \in {"add", "rotate"} /\ Becomes(c, r)
      BY <1>14, <2>2 DEF AuditAppends
    <3> HIDE DEF r
    <3>2. signed[c] = Nobody
      BY <2>2 DEF SignedInv, SignersHaveSigned
    <3> QED
      BY <1>0, <2>1, <3>1, <3>2, UnsignedStep
  <2>3. CASE vcall[c].kind \notin {"add", "rotate"}
    <3>1. vcall[c].kind \in {"unlock", "sign"}
      BY <1>b, <2>1, <2>3, CallShapes DEF NewCall
    <3> QED
      BY <1>10, <1>14, <2>1, <2>3, <3>1 DEF AuditAppends
  <2> QED
    BY <2>2, <2>3
<1>15. ASSUME NEW c \in VaultCalls, AuditAppendFails(c) PROVE SignedInv'
  BY <1>9, <1>15 DEF AuditAppendFails, Opened
<1>16. CASE UNCHANGED vaultVars
  BY <1>16 DEF vaultVars, notCalls, SignedInv, HandlesAreOpened, SignersHaveSigned, SignedByItsHandle, Opened
<1> QED
  BY <1>1, <1>2, <1>3, <1>5, <1>6, <1>7, <1>8, <1>11, <1>12, <1>13, <1>14, <1>15, <1>16 DEF VaultNext

(* Whatever calls overlap: one decrypted key at most is live and lock()    *)
(* reaches it, a live key nobody holds needs a failed audit line, a        *)
(* signature is made with its handle's key or with zeroes, and the reserve *)
(* is only spent by signatures that were in flight together (vault.ts      *)
(* unlock, lock; wallet-handle.ts signTransaction).                        *)
THEOREM VaultIsSafe == VaultSpec => []VaultSafe
<1>1. VaultInv /\ SignedInv => VaultSafe
  BY DEF VaultInv, SignedInv, VaultSafe
<1>2. VaultInit => SignedInv
  BY DEF VaultInit, SignedInv, HandlesAreOpened, SignersHaveSigned, SignedByItsHandle, NewCall
<1> QED
  BY <1>1, <1>2, VaultInitInv, VaultStep, SignedStep, PTL DEF VaultSpec

(* A passphrase change keeps the key it was asked to change, unless an     *)
(* addWallet() replaced the record meanwhile (vault.ts rotateKey).         *)
THEOREM RotationIsSafe == VaultSpec => RotationKeepsTheKey
<1> DEFINE Kept == \A c \in VaultCalls :
                      vcall[c].kind = "rotate" /\ record' # record /\ vcall'[c] # vcall[c]
                      => vcall[c].old = vcall[c].snap.phrase
                         /\ (record'.seed = record.seed \/ replaced)
<1>1. VaultInv /\ [VaultNext]_vaultVars => [Kept]_vaultVars
  <2> SUFFICES ASSUME VaultInv, VaultNext, NEW c \in VaultCalls,
                      vcall[c].kind = "rotate", record' # record, vcall'[c] # vcall[c]
               PROVE  vcall[c].old = vcall[c].snap.phrase
                      /\ (record'.seed = record.seed \/ replaced)
    OBVIOUS
  <2>0. vcall \in [VaultCalls -> CallType]
    BY DEF VaultInv, CallsTyped
  <2>1. PICK d \in VaultCalls : AddWrites(d) \/ RotateWrites(d)
    BY DEF VaultNext, LockWallet, AddWallet, AddReads, Unlock, UnlockWrong, UnlockOpens, RotateKey,
       RotateWrong, SignTransaction, BalanceRead, SignChecks, Lands, AuditAppends, AuditAppendFails,
       notCalls
  <2>2. d = c
    BY <2>0, <2>1 DEF AddWrites, RotateWrites, GoesTo
  <2>3. RotateWrites(c)
    BY <2>1, <2>2 DEF AddWrites
  <2>4. vcall[c] \in RotateCall
    BY <2>0, <2>3, CallShapes DEF RotateWrites, RotateOpens
  <2>5. record'.seed = vcall[c].snap.seed
    BY <2>3, <2>4 DEF RotateWrites, RotateCall, Records
  <2>6. replaced \/ record.seed = vcall[c].snap.seed
    BY <2>3 DEF VaultInv, RotationsReadTheSeed, RotateWrites, RotateOpens
  <2> QED
    BY <2>3, <2>5, <2>6 DEF RotateWrites, RotateOpens
<1> QED
  BY <1>1, VaultInitInv, VaultStep, PTL DEF VaultSpec, RotationKeepsTheKey

-----------------------------------------------------------------------------
(* The backtest harness: what its loops compute.                           *)

AddAmount == [p \in Nat \X Lot |-> p[1] + p[2].amount]

LEMMA AmountIsFolded ==
    \A ls \in Seq(Lot) : Amount(ls) = Folded(ls, 0, AddAmount) /\ Amount(ls) \in Nat
<1> TAKE ls \in Seq(Lot)
<1> DEFINE n == Len(ls)
           Sum(g) == g = [k \in 0..n |-> IF k = 0 THEN 0 ELSE g[k - 1] + ls[k].amount]
           sum == CHOOSE g : Sum(g)
<1>1. AddAmount \in [Nat \X Lot -> Nat] /\ \A x \in Nat, l \in Lot : AddAmount[<<x, l>>] = x + l.amount
  BY DEF AddAmount, Lot
<1>2. n \in Nat /\ n \in 0..n /\ (\A k \in 1..n : ls[k] \in Lot /\ k \in 0..n /\ k # 0) /\ 0 \in 0..n
  OBVIOUS
<1>3. \A k \in 0..n : k # 0 => k \in 1..n /\ k - 1 \in 0..n
  OBVIOUS
<1> HIDE DEF n
<1>4. \E g : Sum(g)
  <2>0. LoopOver(Nat, Lot, 0, AddAmount, ls)
    BY <1>1 DEF LoopOver
  <2>1. PICK g \in [0..n -> Nat] : Folding(g, ls, 0, AddAmount)
    BY <2>0, FoldingExists, SMT DEF n
  <2>2. \A k \in 0..n : g[k] = IF k = 0 THEN 0 ELSE AddAmount[<<g[k - 1], ls[k]>>]
    BY <2>1, Zenon DEF Folding, n
  <2>3. \A k \in 0..n : g[k] = IF k = 0 THEN 0 ELSE g[k - 1] + ls[k].amount
    BY <1>1, <1>2, <1>3, <2>2, Zenon
  <2>4. g = [k \in 0..n |-> g[k]]
    BY Zenon
  <2> QED
    BY <2>3, <2>4, Zenon
<1>5. Sum(sum)
  BY <1>4, Zenon
<1> HIDE DEF sum
<1>6. \A k \in 0..n : sum[k] = IF k = 0 THEN 0 ELSE sum[k - 1] + ls[k].amount
  BY <1>5, Zenon
<1>7. LoopsTo(sum, n, Nat, Lot, 0, AddAmount, ls)
  <2>1. Steps(sum, n, ls, Nat, 0, AddAmount)
    BY <1>1, <1>2, <1>6, Zenon DEF Steps
  <2> QED
    BY <1>1, <1>2, <2>1 DEF LoopsTo, LoopOver, n
<1>8. sum[n] \in Nat /\ sum[n] = Folded(ls, 0, AddAmount)
  BY <1>7, FoldedIs, SMT DEF n
<1>9. Amount(ls) = sum[n]
  BY Zenon DEF Amount, sum, n
<1> QED
  BY <1>8, <1>9

-----------------------------------------------------------------------------
(* A whole part of what a lot has: rounded down, and never more than all.  *)
LEMMA PartOf ==
    ASSUME NEW n \in Nat, NEW taken \in Nat, NEW d \in Nat \ {0}, taken <= d
    PROVE  (n * taken) \div d \in 0..n
<1> DEFINE p == n * taken
           q == p \div d
<1>1. p \in Nat /\ p <= n * d
  BY SMT
<1> HIDE DEF p
<1>2. q \in Int /\ q * d <= p /\ p < q * d + d
  BY <1>1
<1> HIDE DEF q
<1>3. q * d < (n + 1) * d /\ 0 < (q + 1) * d
  BY <1>1, <1>2
<1>4. q < n + 1 /\ 0 < q + 1
  BY <1>2, <1>3
<1> QED
  BY <1>2, <1>4 DEF q, p

(* One lot of the walk: what is kept of it is a lot.                       *)
Walked == [toTake : Nat, cost : Nat, proceeds : Nat, out : Seq(Lot)]
TakeLot(amount, proceeds) == [p \in Walked \X Lot |-> takeLot(p[1], p[2], amount, proceeds)]

LEMMA KeepTyped ==
    ASSUME NEW l \in Lot, NEW taken \in Nat, taken < l.amount
    PROVE  keep(l, taken) \in Lot
<1> DEFINE b == (l.basis * taken) \div l.amount
<1>1. l.amount \in Nat \ {0} /\ l.basis \in Nat /\ l = [amount |-> l.amount, basis |-> l.basis]
  BY DEF Lot
<1>2. b \in 0..l.basis
  BY <1>1, PartOf
<1>3. keep(l, taken) = [amount |-> l.amount - taken, basis |-> l.basis - b]
  <2>1. keep(l, taken) = [l EXCEPT !.amount = l.amount - taken, !.basis = l.basis - b]
    BY Zenon DEF keep
  <2> HIDE DEF b
  <2> QED
    BY <1>1, <2>1
<1> HIDE DEF b
<1> QED
  BY <1>1, <1>2, <1>3 DEF Lot

LEMMA TakeLotTyped ==
    ASSUME NEW r \in Walked, NEW l \in Lot, NEW amount \in Nat, NEW proceeds \in Nat
    PROVE  takeLot(r, l, amount, proceeds) \in Walked
<1> DEFINE taken == IF l.amount <= r.toTake THEN l.amount ELSE r.toTake
           d == IF l.amount > amount THEN l.amount ELSE amount
           b == (l.basis * taken) \div l.amount
           p == (proceeds * taken) \div d
           kept == keep(l, taken)
<1>1. l.amount \in Nat \ {0} /\ l.basis \in Nat
  BY DEF Lot
<1>2. r.toTake \in Nat /\ r.cost \in Nat /\ r.proceeds \in Nat /\ r.out \in Seq(Lot)
  BY DEF Walked
<1>3. taken \in Nat /\ taken <= l.amount /\ r.toTake - taken \in Nat
  BY <1>1, <1>2
<1>4. d \in Nat \ {0} /\ taken <= d
  BY <1>1, <1>3
<1>5. takeLot(r, l, amount, proceeds) =
         [toTake |-> r.toTake - taken, cost |-> r.cost + b,
          proceeds |-> IF taken = 0 THEN r.proceeds ELSE r.proceeds + p,
          out |-> IF taken < l.amount THEN Append(r.out, kept) ELSE r.out]
  BY Zenon DEF takeLot, lotProceeds
<1> HIDE DEF taken, d
<1>6. b \in 0..l.basis
  BY <1>1, <1>3, PartOf
<1>7. p \in 0..proceeds
  BY <1>3, <1>4, PartOf
<1>8. taken < l.amount => kept \in Lot
  BY <1>3, KeepTyped
<1> HIDE DEF b, p, kept
<1>9. r.cost + b \in Nat /\ (IF taken = 0 THEN r.proceeds ELSE r.proceeds + p) \in Nat
  BY <1>1, <1>2, <1>6, <1>7
<1>10. (IF taken < l.amount THEN Append(r.out, kept) ELSE r.out) \in Seq(Lot)
  BY <1>2, <1>8
<1>11. r.toTake - taken \in Nat
  BY <1>3
<1> QED
  BY <1>5, <1>9, <1>10, <1>11 DEF Walked

(* The walk over the lots, whatever they and the sale are.                 *)
LEMMA WalkTyped ==
    ASSUME NEW ls \in Seq(Lot), NEW amount \in Nat, NEW proceeds \in Nat
    PROVE  walkLots(ls, amount, proceeds) \in Walked
<1> DEFINE n == Len(ls)
           start == [toTake |-> amount, cost |-> 0, proceeds |-> 0, out |-> <<>>]
           St == TakeLot(amount, proceeds)
           Walk(g) == g = [k \in 0..n |-> IF k = 0 THEN start
                                          ELSE takeLot(g[k - 1], ls[k], amount, proceeds)]
           walk == CHOOSE g : Walk(g)
<1>0. start \in Walked
  BY DEF Walked
<1>1. St \in [Walked \X Lot -> Walked]
      /\ \A r \in Walked, l \in Lot : St[<<r, l>>] = takeLot(r, l, amount, proceeds)
  <2>1. \A r \in Walked, l \in Lot : takeLot(r, l, amount, proceeds) \in Walked
    BY TakeLotTyped
  <2>2. \A p \in Walked \X Lot : takeLot(p[1], p[2], amount, proceeds) \in Walked
    BY <2>1
  <2>3. \A r \in Walked, l \in Lot : <<r, l>> \in Walked \X Lot
    BY Zenon
  <2> QED
    BY <2>2, <2>3 DEF TakeLot
<1>2. n \in Nat /\ n \in 0..n /\ (\A k \in 1..n : ls[k] \in Lot /\ k \in 0..n /\ k # 0) /\ 0 \in 0..n
  OBVIOUS
<1>3. \A k \in 0..n : k # 0 => k \in 1..n /\ k - 1 \in 0..n
  OBVIOUS
<1> HIDE DEF n, start, St
<1>4. \E g : Walk(g)
  <2>0. LoopOver(Walked, Lot, start, St, ls)
    BY <1>0, <1>1, Zenon DEF LoopOver
  <2>1. PICK g \in [0..n -> Walked] : Folding(g, ls, start, St)
    BY <2>0, FoldingExists, SMT DEF n
  <2>2. \A k \in 0..n : g[k] = IF k = 0 THEN start ELSE St[<<g[k - 1], ls[k]>>]
    BY <2>1, Zenon DEF Folding, n
  <2>3. \A k \in 0..n : g[k] = IF k = 0 THEN start
                              ELSE takeLot(g[k - 1], ls[k], amount, proceeds)
    BY <1>1, <1>2, <1>3, <2>2, Zenon
  <2>4. g = [k \in 0..n |-> g[k]]
    BY Zenon
  <2> QED
    BY <2>3, <2>4, Zenon
<1>5. Walk(walk)
  BY <1>4, Zenon
<1>9. walkLots(ls, amount, proceeds) = walk[n]
  BY Zenon DEF walkLots, walk, n, start
<1> HIDE DEF walk
<1>6. \A k \in 0..n : walk[k] = IF k = 0 THEN start
                               ELSE takeLot(walk[k - 1], ls[k], amount, proceeds)
  BY <1>5, Zenon
<1>7. LoopsTo(walk, n, Walked, Lot, start, St, ls)
  <2>1. Steps(walk, n, ls, Walked, start, St)
    BY <1>1, <1>2, <1>6, Zenon DEF Steps
  <2> QED
    BY <1>0, <1>1, <1>2, <2>1, Zenon DEF LoopsTo, LoopOver, n
<1>8. walk[n] \in Walked
  BY <1>7, FoldedIs, SMT DEF n
<1> QED
  BY <1>8, <1>9

LEMMA SaleTyped ==
    ASSUME NEW ls \in Seq(Lot), NEW amount \in Nat, NEW proceeds \in Nat
    PROVE  /\ reduceLots(ls, amount, proceeds, "fifo").remaining \in Seq(Lot)
           /\ reduceLots(ls, amount, proceeds, "fifo").realized \in Int
<1> DEFINE w == walkLots(ls, amount, proceeds)
<1>1. w.out \in Seq(Lot) /\ w.proceeds \in Nat /\ w.cost \in Nat
  BY WalkTyped DEF Walked
<1>2. reduceLots(ls, amount, proceeds, "fifo") =
         [remaining |-> w.out, cost |-> w.cost, realized |-> w.proceeds - w.cost]
  BY DEF reduceLots, inOrder
<1> QED
  BY <1>1, <1>2

-----------------------------------------------------------------------------
(* The drawdown: the peak and the largest fall of the values so far.       *)
Draw == [peak : Int, worst : Int]
NoDraw == [peak |-> 0, worst |-> 0]
peakOf(r, x) == IF x > r.peak THEN x ELSE r.peak
fallTo(r, x) == [peak |-> peakOf(r, x),
                 worst |-> IF peakOf(r, x) - x > r.worst THEN peakOf(r, x) - x ELSE r.worst]
FallTo == [p \in Draw \X Int |-> fallTo(p[1], p[2])]

LEMMA FallToTyped ==
    /\ NoDraw \in Draw /\ FallTo \in [Draw \X Int -> Draw]
    /\ \A r \in Draw, x \in Int : FallTo[<<r, x>>] = fallTo(r, x)
<1>1. \A r \in Draw, x \in Int : fallTo(r, x) \in Draw
  BY DEF fallTo, peakOf, Draw
<1>2. \A p \in Draw \X Int : fallTo(p[1], p[2]) \in Draw
  BY <1>1
<1>3. \A r \in Draw, x \in Int : <<r, x>> \in Draw \X Int
  BY Zenon
<1> QED
  BY <1>2, <1>3 DEF FallTo, NoDraw, Draw

LEMMA DrawdownIsFolded ==
    \A s \in Seq(Int) : maxDrawdown(s) = Folded(s, NoDraw, FallTo).worst
<1> TAKE s \in Seq(Int)
<1> DEFINE n == Len(s)
           Run(g) == g = [k \in 0..n |->
                 IF k = 0 THEN [peak |-> 0, worst |-> 0]
                 ELSE LET p == IF s[k] > g[k - 1].peak THEN s[k] ELSE g[k - 1].peak
                      IN  [peak |-> p, worst |-> IF p - s[k] > g[k - 1].worst
                                                   THEN p - s[k] ELSE g[k - 1].worst]]
           run == CHOOSE g : Run(g)
<1>2. n \in Nat /\ n \in 0..n /\ (\A k \in 1..n : s[k] \in Int /\ k \in 0..n /\ k # 0) /\ 0 \in 0..n
  OBVIOUS
<1>3. \A k \in 0..n : k # 0 => k \in 1..n /\ k - 1 \in 0..n
  OBVIOUS
<1> HIDE DEF n
<1>4. ASSUME NEW g
      PROVE  Run(g) <=> g = [k \in 0..n |-> IF k = 0 THEN NoDraw ELSE fallTo(g[k - 1], s[k])]
  BY Zenon DEF NoDraw, fallTo, peakOf
<1>9. maxDrawdown(s) = run[n].worst
  BY Zenon DEF maxDrawdown, run, n
<1> HIDE DEF Run
<1>5. \E g : Run(g)
  <2>0. LoopOver(Draw, Int, NoDraw, FallTo, s)
    BY FallToTyped, Zenon DEF LoopOver
  <2>1. PICK g \in [0..n -> Draw] : Folding(g, s, NoDraw, FallTo)
    BY <2>0, FoldingExists, SMT DEF n
  <2>2. \A k \in 0..n : g[k] = IF k = 0 THEN NoDraw ELSE FallTo[<<g[k - 1], s[k]>>]
    BY <2>1, Zenon DEF Folding, n
  <2>3. \A k \in 0..n : g[k] = IF k = 0 THEN NoDraw ELSE fallTo(g[k - 1], s[k])
    BY FallToTyped, <1>2, <1>3, <2>2, Zenon
  <2>4. g = [k \in 0..n |-> g[k]]
    BY Zenon
  <2> QED
    BY <1>4, <2>3, <2>4, Zenon
<1>6. Run(run)
  BY <1>5, Zenon
<1> HIDE DEF run
<1>7. \A k \in 0..n : run[k] = IF k = 0 THEN NoDraw ELSE fallTo(run[k - 1], s[k])
  BY <1>4, <1>6, Zenon
<1>8. LoopsTo(run, n, Draw, Int, NoDraw, FallTo, s)
  <2>1. Steps(run, n, s, Draw, NoDraw, FallTo)
    BY FallToTyped, <1>2, <1>7, Zenon DEF Steps
  <2> QED
    BY FallToTyped, <1>2, <2>1, Zenon DEF LoopsTo, LoopOver, n
<1>10. run[n] = Folded(s, NoDraw, FallTo)
  BY <1>8, FoldedIs, SMT DEF n
<1> QED
  BY <1>9, <1>10, Zenon

(* r is the peak of the first n values, and their largest fall.            *)
Falls(v, n) == {v[p[1]] - v[p[2]] : p \in {q \in (1..n) \X (1..n) : q[1] <= q[2]}}
Draws(r, v, n) ==
    /\ r \in Draw
    /\ \A i \in 1..n : v[i] \in Int /\ v[i] <= r.peak
    /\ \E i \in 1..n : v[i] = r.peak
    /\ r.worst \in Falls(v, n)
    /\ \A f \in Falls(v, n) : f <= r.worst

LEMMA FallsAre ==
    ASSUME NEW v, NEW n \in Nat
    PROVE  /\ \A i, j \in 1..n : i <= j => v[i] - v[j] \in Falls(v, n)
           /\ \A f \in Falls(v, n) : \E i, j \in 1..n : i <= j /\ f = v[i] - v[j]
<1>1. ASSUME NEW i \in 1..n, NEW j \in 1..n, i <= j PROVE v[i] - v[j] \in Falls(v, n)
  <2> DEFINE p == <<i, j>>
  <2>1. p \in {q \in (1..n) \X (1..n) : q[1] <= q[2]} /\ p[1] = i /\ p[2] = j
    BY <1>1
  <2> HIDE DEF p
  <2> QED
    BY <2>1, Zenon DEF Falls
<1>2. ASSUME NEW f \in Falls(v, n) PROVE \E i, j \in 1..n : i <= j /\ f = v[i] - v[j]
  <2>1. PICK p \in {q \in (1..n) \X (1..n) : q[1] <= q[2]} : f = v[p[1]] - v[p[2]]
    BY <1>2, Zenon DEF Falls
  <2>2. p[1] \in 1..n /\ p[2] \in 1..n /\ p[1] <= p[2]
    BY <2>1
  <2> QED
    BY <2>1, <2>2, Zenon
<1> QED
  BY <1>1, <1>2

LEMMA OneMoreFall ==
    ASSUME NEW r, NEW v, NEW n \in Nat, Draws(r, v, n), NEW x \in Int,
           NEW u, \A i \in 1..n : u[i] = v[i], u[n + 1] = x
    PROVE  Draws(fallTo(r, x), u, n + 1)
<1> DEFINE m == n + 1
           t == fallTo(r, x)
<1>1. m \in Nat /\ m \in 1..m /\ (\A i \in 1..n : i \in 1..m /\ i <= m /\ i # m)
      /\ \A i \in 1..m : i = m \/ i \in 1..n
  OBVIOUS
<1>2. r.peak \in Int /\ r.worst \in Int /\ (\A i \in 1..n : v[i] \in Int /\ v[i] <= r.peak)
      /\ \A f \in Falls(v, n) : f <= r.worst
  BY DEF Draws, Draw
<1>3. t.peak = peakOf(r, x) /\ t \in Draw
      /\ t.worst = IF t.peak - x > r.worst THEN t.peak - x ELSE r.worst
  BY <1>2 DEF fallTo, peakOf, Draw
<1>4. u[m] = x
  OBVIOUS
<1>20. \A i \in 1..n : u[i] = v[i]
  OBVIOUS
<1> HIDE DEF m, t
<1>5. t.peak \in Int /\ t.worst \in Int /\ r.peak <= t.peak /\ x <= t.peak
      /\ r.worst <= t.worst /\ t.peak - x <= t.worst
      /\ (t.peak = x \/ t.peak = r.peak) /\ (t.worst = t.peak - x \/ t.worst = r.worst)
  BY <1>2, <1>3 DEF peakOf
<1>6. \A i \in 1..m : u[i] \in Int /\ u[i] <= t.peak
  BY <1>1, <1>2, <1>4, <1>5, <1>20
<1>7. \E i \in 1..m : u[i] = t.peak
  <2>1. CASE t.peak = x
    BY <1>1, <1>4, <2>1
  <2>2. CASE t.peak = r.peak
    <3>1. PICK i \in 1..n : v[i] = r.peak
      BY DEF Draws
    <3> QED
      BY <1>1, <1>20, <2>2, <3>1, Zenon
  <2> QED
    BY <1>5, <2>1, <2>2
<1>8. t.worst \in Falls(u, m)
  <2>1. CASE t.worst = t.peak - x
    <3>1. PICK i \in 1..m : u[i] = t.peak
      BY <1>7
    <3>2. i <= m /\ m \in 1..m
      BY <1>1, <3>1
    <3>3. u[i] - u[m] \in Falls(u, m)
      BY <1>1, <3>2, FallsAre
    <3> QED
      BY <1>4, <2>1, <3>1, <3>3
  <2>2. CASE t.worst = r.worst
    <3>1. r.worst \in Falls(v, n)
      BY DEF Draws
    <3>2. PICK i, j \in 1..n : i <= j /\ r.worst = v[i] - v[j]
      BY <3>1, FallsAre, Zenon
    <3>3. u[i] - u[j] \in Falls(u, m)
      BY <1>1, <3>2, FallsAre
    <3> QED
      BY <1>20, <2>2, <3>2, <3>3
  <2> QED
    BY <1>5, <2>1, <2>2
<1>9. ASSUME NEW f \in Falls(u, m) PROVE f <= t.worst
  <2>1. PICK i, j \in 1..m : i <= j /\ f = u[i] - u[j]
    BY <1>1, FallsAre, Zenon
  <2>2. CASE j = m
    BY <1>4, <1>5, <1>6, <2>1, <2>2
  <2>3. CASE j # m
    <3>1. i \in 1..n /\ j \in 1..n
      BY <1>1, <2>1, <2>3
    <3>2. v[i] - v[j] \in Falls(v, n) /\ v[i] \in Int /\ v[j] \in Int
      BY <1>2, <2>1, <3>1, FallsAre
    <3> QED
      BY <1>2, <1>5, <1>20, <2>1, <3>1, <3>2
  <2> QED
    BY <2>2, <2>3
<1> QED
  BY <1>3, <1>6, <1>7, <1>8, <1>9, Zenon DEF Draws, m, t

(* The drawdown of a series is its largest fall, 0 being where it started. *)
LEMMA DrawdownIsTheFall ==
    \A s \in Seq(Int) : Draws(Folded(s, NoDraw, FallTo), <<0>> \o s, Len(s) + 1)
<1> DEFINE S == {s \in Seq(Int) : Draws(Folded(s, NoDraw, FallTo), <<0>> \o s, Len(s) + 1)}
<1>0. /\ Folded(<<>>, NoDraw, FallTo) = NoDraw
      /\ \A s \in Seq(Int), x \in Int :
            Folded(Append(s, x), NoDraw, FallTo) = fallTo(Folded(s, NoDraw, FallTo), x)
  <2>1. NoDraw \in Draw /\ FallTo \in [Draw \X Int -> Draw]
        /\ \A r \in Draw, x \in Int : FallTo[<<r, x>>] = fallTo(r, x)
    BY FallToTyped, Zenon
  <2>2. /\ Folded(<<>>, NoDraw, FallTo) = NoDraw
        /\ \A s \in Seq(Int) : Folded(s, NoDraw, FallTo) \in Draw
        /\ \A s \in Seq(Int), x \in Int :
              Folded(Append(s, x), NoDraw, FallTo) = FallTo[<<Folded(s, NoDraw, FallTo), x>>]
    <3>1. LoopOver(Draw, Int, NoDraw, FallTo, <<>>)
      BY <2>1, SMT DEF LoopOver
    <3>2. Grows(Draw, Int, NoDraw, FallTo)
      BY <3>1, FoldedGrows, SMT
    <3> QED
      BY <3>2, Zenon DEF Grows
  <2> QED
    BY <2>1, <2>2, Zenon
<1>1. <<>> \in S
  <2> DEFINE v == <<0>> \o <<>>
  <2>1. v[1] = 0 /\ Len(<<>>) + 1 = 1 /\ <<>> \in Seq(Int) /\ 1 \in 1..1 /\ 1 <= 1
    OBVIOUS
  <2> HIDE DEF v
  <2>2. v[1] - v[1] \in Falls(v, 1)
    BY <2>1, FallsAre
  <2>3. \A f \in Falls(v, 1) : f = 0
    <3>1. \A f \in Falls(v, 1) : \E i, j \in 1..1 : i <= j /\ f = v[i] - v[j]
      <4>1. 1 \in Nat
        OBVIOUS
      <4> QED
        BY <4>1, FallsAre, Zenon
    <3> QED
      BY <2>1, <3>1
  <2>4. Draws(NoDraw, v, 1)
    BY <2>1, <2>2, <2>3 DEF Draws, NoDraw, Draw
  <2> QED
    BY <1>0, <2>1, <2>4 DEF v
<1>2. ASSUME NEW s \in Seq(Int), NEW x \in Int, s \in S PROVE Append(s, x) \in S
  <2> DEFINE v == <<0>> \o s
             u == <<0>> \o Append(s, x)
             n == Len(s) + 1
  <2>1. n \in Nat /\ Append(s, x) \in Seq(Int) /\ Len(Append(s, x)) + 1 = n + 1
    OBVIOUS
  <2>2. (\A i \in 1..n : u[i] = v[i]) /\ u[n + 1] = x
    OBVIOUS
  <2>3. Draws(Folded(s, NoDraw, FallTo), v, n)
    BY <1>2
  <2> HIDE DEF v, u, n
  <2>4. Draws(fallTo(Folded(s, NoDraw, FallTo), x), u, n + 1)
    BY <2>1, <2>2, <2>3, OneMoreFall
  <2>5. Draws(Folded(Append(s, x), NoDraw, FallTo), u, Len(Append(s, x)) + 1)
    BY <1>0, <2>1, <2>4
  <2> QED
    BY <2>1, <2>5 DEF u
<1> HIDE DEF S
<1>3. \A s \in Seq(Int) : s \in S
  BY <1>1, <1>2, SequenceInductionOnSet, Zenon
<1> QED
  BY <1>3 DEF S

-----------------------------------------------------------------------------
(* The harness: its inductive invariant.                                   *)

(* The queue's tasks and what the stage says of them: nothing to decide    *)
(* is behind the barrier, of which there is one, and the shutdown hook     *)
(* comes after it.                                                         *)
SignalTask == [kind : {"signal"}, id : Signals]
HookTask == [kind : {"barrier", "onExecutionResult", "onPositionChange", "onShutdown"},
             id : 0..MaxSignals]
BackTask == SignalTask \cup HookTask

Holds(ts, kind) == \E i \in DOMAIN ts : ts[i].kind = kind
BarrierIsLast(ts) ==
    \A i, j \in DOMAIN ts :
        i < j /\ ts[i].kind = "barrier" => ts[j].kind \notin {"signal", "barrier"}

Queue(ts, at) ==
    /\ ts \in Seq(BackTask)
    /\ BarrierIsLast(ts)
    /\ Holds(ts, "barrier") => at = "closing"
    /\ Holds(ts, "onShutdown") => at \in {"shutting", "done"}
    /\ at \in {"shutting", "done"} => ~Holds(ts, "signal")

LogEntry == [intentId : Signals, signalId : Signals]
Intents(log) == [k \in DOMAIN log |-> log[k].intentId]

BacktestVarsOK ==
    /\ stage \in {"feeding", "ended", "closing", "shutting", "done"}
    /\ step \in {"idle", "deciding", "submitting", "applying", "hook"}
    /\ emitted \in 0..MaxSignals /\ buffer \in Seq(Signals)
    /\ stage \notin {"feeding", "ended"} => buffer = <<>>

(* The task at the head is the one whose steps are taken.                  *)
AtHead ==
    /\ pending \in 0..MaxSignals /\ signalIdByIntent \in [Signals -> 0..MaxSignals]
    /\ step \in {"deciding", "submitting", "applying"} =>
          tasks # <<>> /\ Head(tasks) \in SignalTask
    /\ step = "hook" => tasks # <<>> /\ Head(tasks) \in HookTask
    /\ step = "submitting" => pending = Head(tasks).id
    /\ step = "applying" => signalIdByIntent[Head(tasks).id] = Head(tasks).id

(* What was captured is what was logged, and the intent being applied.     *)
LogOfCaptured ==
    /\ decisionLog \in Seq(LogEntry)
    /\ \A k \in DOMAIN decisionLog : decisionLog[k].signalId = decisionLog[k].intentId
    /\ captured = IF step = "applying" THEN Append(Intents(decisionLog), Head(tasks).id)
                  ELSE Intents(decisionLog)

BooksOK ==
    /\ held \in Seq(Lot) /\ left \in Seq(Trade)
    /\ step # "applying" => left = <<>>
    /\ realizedPnl \in Int /\ pnlSeries \in Seq(Int) /\ Total(pnlSeries) = realizedPnl

BacktestInv ==
    /\ BacktestVarsOK
    /\ Queue(tasks, stage)
    /\ AtHead
    /\ LogOfCaptured
    /\ BooksOK

Hooks == {"onExecutionResult", "onPositionChange"}

(* What the tasks of a queue with one task more, or one less, are.         *)
LEMMA TasksOf ==
    ASSUME NEW ts \in Seq(BackTask)
    PROVE  /\ \A t \in BackTask :
                 /\ Append(ts, t) \in Seq(BackTask) /\ Append(ts, t) # <<>>
                 /\ ts # <<>> => Head(Append(ts, t)) = Head(ts)
                 /\ \A i \in DOMAIN Append(ts, t) :
                       \/ i \in DOMAIN ts /\ Append(ts, t)[i] = ts[i]
                       \/ Append(ts, t)[i] = t /\ \A j \in DOMAIN Append(ts, t) : j <= i
           /\ ts # <<>> =>
                 /\ Tail(ts) \in Seq(BackTask)
                 /\ 1 \in DOMAIN ts /\ ts[1] = Head(ts)
                 /\ \A i \in DOMAIN Tail(ts) :
                       i + 1 \in DOMAIN ts /\ Tail(ts)[i] = ts[i + 1] /\ 1 < i + 1
<1> DEFINE T == BackTask
<1>0. ts \in Seq(T)
  OBVIOUS
<1> HIDE DEF T
<1>1. ASSUME NEW t \in T
      PROVE  /\ Append(ts, t) \in Seq(T) /\ Append(ts, t) # <<>>
             /\ ts # <<>> => Head(Append(ts, t)) = Head(ts)
             /\ \A i \in DOMAIN Append(ts, t) :
                   \/ i \in DOMAIN ts /\ Append(ts, t)[i] = ts[i]
                   \/ Append(ts, t)[i] = t /\ \A j \in DOMAIN Append(ts, t) : j <= i
  BY <1>0
<1>2. ts # <<>> =>
         /\ Tail(ts) \in Seq(T)
         /\ 1 \in DOMAIN ts /\ ts[1] = Head(ts)
         /\ \A i \in DOMAIN Tail(ts) :
               i + 1 \in DOMAIN ts /\ Tail(ts)[i] = ts[i + 1] /\ 1 < i + 1
  BY <1>0
<1> QED
  BY <1>1, <1>2, Zenon DEF T

LEMMA QueueTail ==
    ASSUME NEW ts, NEW at, Queue(ts, at), ts # <<>>
    PROVE  Queue(Tail(ts), at)
<1>1. ts \in Seq(BackTask)
  BY DEF Queue
<1>2. Tail(ts) \in Seq(BackTask)
      /\ \A i \in DOMAIN Tail(ts) : i + 1 \in DOMAIN ts /\ Tail(ts)[i] = ts[i + 1]
  BY <1>1, TasksOf
<1>3. \A kind : Holds(Tail(ts), kind) => Holds(ts, kind)
  BY <1>2, Zenon DEF Holds
<1>4. BarrierIsLast(Tail(ts))
  <2> SUFFICES ASSUME NEW i \in DOMAIN Tail(ts), NEW j \in DOMAIN Tail(ts), i < j,
                      Tail(ts)[i].kind = "barrier"
               PROVE  Tail(ts)[j].kind \notin {"signal", "barrier"}
    BY Zenon DEF BarrierIsLast
  <2>1. i + 1 \in DOMAIN ts /\ j + 1 \in DOMAIN ts /\ i + 1 < j + 1
    BY <1>1, <1>2
  <2> QED
    BY <1>2, <2>1, Zenon DEF Queue, BarrierIsLast
<1> QED
  BY <1>2, <1>3, <1>4, Zenon DEF Queue

LEMMA QueueAppend ==
    ASSUME NEW ts, NEW at, Queue(ts, at), NEW t \in BackTask, NEW then,
           at \notin {"closing", "shutting", "done"} \/ t.kind \notin {"signal", "barrier"}
              \/ ~Holds(ts, "barrier"),
           Holds(ts, "barrier") \/ t.kind = "barrier" => then = "closing",
           Holds(ts, "onShutdown") \/ t.kind = "onShutdown" => then \in {"shutting", "done"},
           then \in {"shutting", "done"} => ~Holds(ts, "signal") /\ t.kind # "signal"
    PROVE  Queue(Append(ts, t), then)
<1> DEFINE r == Append(ts, t)
<1>1. ts \in Seq(BackTask)
  BY DEF Queue
<1>2. /\ r \in Seq(BackTask)
      /\ \A i \in DOMAIN r :
            \/ i \in DOMAIN ts /\ r[i] = ts[i]
            \/ r[i] = t /\ \A j \in DOMAIN r : j <= i
  BY <1>1, TasksOf
<1>3. \A i, j \in DOMAIN r : i < j => ~(j <= i)
  BY <1>1
<1> HIDE DEF r
<1>4. \A kind : Holds(r, kind) => Holds(ts, kind) \/ t.kind = kind
  BY <1>2, Zenon DEF Holds
<1>5. BarrierIsLast(r)
  <2> SUFFICES ASSUME NEW i \in DOMAIN r, NEW j \in DOMAIN r, i < j, r[i].kind = "barrier"
               PROVE  r[j].kind \notin {"signal", "barrier"}
    BY Zenon DEF BarrierIsLast
  <2>1. i \in DOMAIN ts /\ r[i] = ts[i]
    BY <1>2, <1>3, Zenon
  <2>2. Holds(ts, "barrier") /\ at = "closing"
    BY <2>1, Zenon DEF Holds, Queue
  <2>3. CASE j \in DOMAIN ts /\ r[j] = ts[j]
    BY <2>1, <2>3, Zenon DEF Queue, BarrierIsLast
  <2>4. CASE r[j] = t
    BY <2>2, <2>4
  <2> QED
    BY <1>2, <2>3, <2>4, Zenon
<1> QED
  BY <1>2, <1>4, <1>5, Zenon DEF Queue, r

(* A hook that is queued behind everything.                                *)
LEMMA QueueHook ==
    ASSUME NEW ts, NEW at, Queue(ts, at), NEW hook \in Hooks, NEW id \in 0..MaxSignals
    PROVE  /\ Queue(WithHook(ts, hook, id), at)
           /\ ts # <<>> => WithHook(ts, hook, id) # <<>> /\ Head(WithHook(ts, hook, id)) = Head(ts)
<1> DEFINE t == Task(hook, id)
<1>1. t \in BackTask /\ t.kind = hook
  BY DEF Task, BackTask, HookTask, Hooks
<1>2. hook \notin {"signal", "barrier", "onShutdown"}
  BY DEF Hooks
<1>3. ts \in Seq(BackTask)
  BY DEF Queue
<1> HIDE DEF t
<1>4. Queue(Append(ts, t), at)
  BY <1>1, <1>2, QueueAppend DEF Queue
<1>5. ts # <<>> => Append(ts, t) # <<>> /\ Head(Append(ts, t)) = Head(ts)
  BY <1>1, <1>3, TasksOf, Zenon
<1>6. WithHook(ts, hook, id) \in {ts, Append(ts, t)}
  BY Zenon DEF WithHook, t
<1> QED
  BY <1>4, <1>5, <1>6, Zenon

(* What is behind the barrier, and behind the shutdown hook.               *)
LEMMA QueueCloses ==
    ASSUME NEW ts, Queue(ts, "closing"), ts # <<>>, Head(ts).kind = "barrier"
    PROVE  /\ Queue(Tail(ts), "done")
           /\ Queue(Append(Tail(ts), Task("onShutdown", 0)), "shutting")
<1> DEFINE r == Tail(ts)
<1>1. ts \in Seq(BackTask) /\ Queue(r, "closing")
  BY QueueTail DEF Queue
<1>2. ~Holds(r, "signal") /\ ~Holds(r, "barrier")
  <2>1. /\ 1 \in DOMAIN ts /\ ts[1] = Head(ts)
        /\ \A i \in DOMAIN r : i + 1 \in DOMAIN ts /\ r[i] = ts[i + 1] /\ 1 < i + 1
    BY <1>1, TasksOf, Zenon
  <2>2. \A i \in DOMAIN r : r[i].kind \notin {"signal", "barrier"}
    BY <2>1, Zenon DEF Queue, BarrierIsLast
  <2> QED
    BY <2>2, Zenon DEF Holds
<1>3. ~Holds(r, "onShutdown")
  BY <1>1 DEF Queue
<1> HIDE DEF r
<1>4. Queue(r, "done") /\ Queue(r, "shutting")
  BY <1>1, <1>2, <1>3, Zenon DEF Queue
<1>5. Task("onShutdown", 0) \in BackTask /\ Task("onShutdown", 0).kind = "onShutdown"
  BY BacktestAssumption DEF Task, BackTask, HookTask
<1>6. Queue(Append(r, Task("onShutdown", 0)), "shutting")
  BY <1>2, <1>3, <1>4, <1>5, QueueAppend
<1> QED
  BY <1>4, <1>6 DEF r

LEMMA QueueIsShut ==
    ASSUME NEW ts, NEW at, Queue(ts, at), ts # <<>>, Head(ts).kind = "onShutdown"
    PROVE  Queue(Tail(ts), "done")
<1>1. ts \in Seq(BackTask) /\ Queue(Tail(ts), at)
  BY QueueTail DEF Queue
<1>2. 1 \in DOMAIN ts /\ ts[1] = Head(ts)
  BY <1>1, TasksOf, Zenon
<1>3. Holds(ts, "onShutdown")
  BY <1>2, Zenon DEF Holds
<1>4. at \in {"shutting", "done"}
  BY <1>3 DEF Queue
<1> QED
  BY <1>1, <1>4 DEF Queue

LEMMA IntentsGrow ==
    ASSUME NEW log \in Seq(LogEntry), NEW e \in LogEntry
    PROVE  /\ Append(log, e) \in Seq(LogEntry)
           /\ Intents(Append(log, e)) = Append(Intents(log), e.intentId)
           /\ \A k \in DOMAIN Append(log, e) :
                 \/ k \in DOMAIN log /\ Append(log, e)[k] = log[k]
                 \/ Append(log, e)[k] = e
<1> DEFINE T == LogEntry
           r == Append(log, e)
           n == Len(log)
<1>1. log \in Seq(T) /\ e \in T
  OBVIOUS
<1> HIDE DEF T
<1>2. /\ r \in Seq(T) /\ n \in Nat /\ DOMAIN log = 1..n /\ DOMAIN r = 1..(n + 1)
      /\ r[n + 1] = e /\ \A k \in 1..n : r[k] = log[k]
  BY <1>1
<1>3. \A k \in 1..(n + 1) : k \in 1..n \/ k = n + 1
  BY <1>2
<1> DEFINE I == [k \in 1..n |-> log[k].intentId]
           J == [k \in 1..(n + 1) |-> r[k].intentId]
<1>4. J = Append(I, e.intentId)
  <2>1. I \in Seq({log[k].intentId : k \in 1..n}) /\ Len(I) = n
    BY <1>2
  <2>2. \A k \in 1..(n + 1) : J[k] = IF k = n + 1 THEN e.intentId ELSE I[k]
    BY <1>2, <1>3
  <2>3. Append(I, e.intentId) = [k \in 1..(n + 1) |-> IF k = n + 1 THEN e.intentId ELSE I[k]]
    BY <1>2, <2>1
  <2> HIDE DEF I
  <2>4. \A k \in 1..(n + 1) : J[k] = Append(I, e.intentId)[k]
    BY <2>2, <2>3
  <2> QED
    BY <2>3, <2>4
<1>5. Intents(log) = I /\ Intents(r) = J
  BY <1>2, Zenon DEF Intents
<1> HIDE DEF I, J
<1> QED
  BY <1>1, <1>2, <1>3, <1>4, <1>5, Zenon DEF T, r

(* What a landed trade does to the books.                                  *)
LEMMA TradeKeepsTheBooks ==
    ASSUME BooksOK, NEW trade \in Trade, applyLandedTrade(trade)
    PROVE  /\ held' \in Seq(Lot)
           /\ realizedPnl' \in Int /\ pnlSeries' \in Seq(Int)
           /\ (Total(pnlSeries) = realizedPnl)'
<1> DEFINE amount == Amount(held)
           sold == IF -trade.delta < amount THEN -trade.delta ELSE amount
           r == reduceLots(held, sold, Positive(trade.flow), "fifo")
<1>1. trade.delta \in Int /\ trade.flow \in Int
  BY DEF Trade
<1>2. held \in Seq(Lot) /\ realizedPnl \in Int /\ pnlSeries \in Seq(Int)
      /\ Total(pnlSeries) = realizedPnl
  BY DEF BooksOK
<1>3. amount \in Nat
  BY <1>2, AmountIsFolded, Zenon
<1>4. Positive(trade.flow) \in Nat /\ Positive(-trade.flow) \in Nat
  BY <1>1 DEF Positive
<1>5. CASE trade.delta > 0 /\ held' = Append(held, [amount |-> trade.delta,
                                                    basis |-> Positive(-trade.flow)])
           /\ UNCHANGED <<realizedPnl, pnlSeries>>
  <2>1. [amount |-> trade.delta, basis |-> Positive(-trade.flow)] \in Lot
    BY <1>1, <1>4, <1>5 DEF Lot
  <2>2. held' \in Seq(Lot)
    <3> DEFINE T == Lot
               l == [amount |-> trade.delta, basis |-> Positive(-trade.flow)]
    <3>1. held \in Seq(T) /\ l \in T /\ held' = Append(held, l)
      BY <1>2, <1>5, <2>1
    <3> HIDE DEF T, l
    <3>2. held' \in Seq(T)
      BY <3>1
    <3> QED
      BY <3>2 DEF T
  <2> QED
    BY <1>2, <1>5, <2>2 DEF Total
<1>6. CASE trade.delta < 0 /\ held' = r.remaining
           /\ realizedPnl' = realizedPnl + r.realized
           /\ pnlSeries' = Append(pnlSeries, Total(pnlSeries) + r.realized)
  <2>1. sold \in Nat
    BY <1>1, <1>3, <1>6
  <2> HIDE DEF sold
  <2>2. r.remaining \in Seq(Lot) /\ r.realized \in Int
    BY <1>2, <1>4, <2>1, SaleTyped
  <2> HIDE DEF r
  <2>3. pnlSeries' \in Seq(Int) /\ pnlSeries' # <<>>
        /\ pnlSeries'[Len(pnlSeries')] = realizedPnl + r.realized
    <3> DEFINE x == realizedPnl + r.realized
    <3>1. x \in Int /\ pnlSeries' = Append(pnlSeries, x)
      BY <1>2, <1>6, <2>2
    <3> HIDE DEF x
    <3>2. pnlSeries' \in Seq(Int) /\ pnlSeries' # <<>> /\ pnlSeries'[Len(pnlSeries')] = x
      BY <1>2, <3>1
    <3> QED
      BY <3>2 DEF x
  <2> QED
    BY <1>2, <1>6, <2>2, <2>3 DEF Total, Last
<1>7. CASE trade.delta = 0 /\ UNCHANGED book
  BY <1>2, <1>7 DEF book, Total
<1> QED
  BY <1>5, <1>6, <1>7, Zenon DEF applyLandedTrade

LEMMA BacktestStep == BacktestInv /\ [BacktestNext]_btVars => BacktestInv'
<1> SUFFICES ASSUME BacktestInv, [BacktestNext]_btVars PROVE BacktestInv'
  OBVIOUS
<1> USE DEF feed, report, book
<1>0. BacktestVarsOK /\ Queue(tasks, stage) /\ AtHead /\ LogOfCaptured /\ BooksOK
  BY DEF BacktestInv
<1>h. tasks \in Seq(BackTask)
  BY <1>0 DEF Queue
<1>1. CASE FixtureSignal
  <2>1. emitted + 1 \in Signals
    BY <1>0, <1>1, BacktestAssumption DEF FixtureSignal, BacktestVarsOK, Signals
  <2>2. BacktestVarsOK'
    <3> DEFINE S == Signals
    <3>1. buffer' \in Seq(S)
      <4>1. buffer \in Seq(S) /\ emitted + 1 \in S /\ buffer' = Append(buffer, emitted + 1)
        BY <1>0, <1>1, <2>1 DEF BacktestVarsOK, FixtureSignal
      <4> HIDE DEF S
      <4> QED
        BY <4>1
    <3> QED
      BY <1>0, <1>1, <2>1, <3>1 DEF BacktestVarsOK, FixtureSignal, Signals
  <2>3. Queue(tasks, stage)' /\ AtHead' /\ LogOfCaptured' /\ BooksOK'
    BY <1>0, <1>1 DEF FixtureSignal, Queue, AtHead, LogOfCaptured, BooksOK
  <2> QED
    BY <2>2, <2>3 DEF BacktestInv
<1>2. CASE FixtureEnd
  <2>1. Queue(tasks, stage)'
    BY <1>0, <1>2 DEF FixtureEnd, Queue
  <2> QED
    BY <1>0, <1>2, <2>1
    DEF FixtureEnd, BacktestVarsOK, AtHead, LogOfCaptured, BooksOK, BacktestInv
<1>3. CASE DispatchSignal
  <2> DEFINE t == Task("signal", Head(buffer))
             S == Signals
  <2>1. Head(buffer) \in S /\ buffer' \in Seq(S)
    <3>1. buffer \in Seq(S) /\ buffer # <<>> /\ buffer' = Tail(buffer)
      BY <1>0, <1>3 DEF BacktestVarsOK, DispatchSignal
    <3> HIDE DEF S
    <3> QED
      BY <3>1
  <2>2. t \in BackTask /\ t.kind = "signal"
    BY <2>1 DEF Task, BackTask, SignalTask
  <2> HIDE DEF t
  <2>3. Queue(Append(tasks, t), stage)
    BY <1>0, <1>3, <2>2, QueueAppend DEF DispatchSignal, Queue
  <2>4. tasks # <<>> => Append(tasks, t) # <<>> /\ Head(Append(tasks, t)) = Head(tasks)
    BY <1>h, <2>2, TasksOf, Zenon
  <2>5. tasks' \in {tasks, Append(tasks, t)}
    BY <1>3, Zenon DEF DispatchSignal, t
  <2>6. Queue(tasks', stage) /\ (tasks # <<>> => tasks' # <<>> /\ Head(tasks') = Head(tasks))
    BY <1>0, <2>3, <2>4, <2>5, Zenon
  <2>7. BacktestVarsOK' /\ Queue(tasks, stage)' /\ BooksOK'
    BY <1>0, <1>3, <2>1, <2>6 DEF DispatchSignal, BacktestVarsOK, BooksOK
  <2>8. AtHead' /\ LogOfCaptured'
    BY <1>0, <1>3, <2>6 DEF DispatchSignal, AtHead, LogOfCaptured
  <2> QED
    BY <2>7, <2>8 DEF BacktestInv
<1>4. CASE BeginTask
  <2>1. tasks # <<>> /\ Head(tasks) \in BackTask
    BY <1>h, <1>4 DEF BeginTask
  <2>2. \A t \in BackTask : IF t.kind = "signal" THEN t \in SignalTask ELSE t \in HookTask
    BY DEF BackTask, SignalTask, HookTask
  <2>3. AtHead'
    BY <1>0, <1>4, <2>1, <2>2 DEF BeginTask, AtHead
  <2>4. Queue(tasks, stage)'
    BY <1>0, <1>4 DEF BeginTask
  <2> QED
    BY <1>0, <1>4, <2>3, <2>4 DEF BeginTask, BacktestVarsOK, LogOfCaptured, BooksOK, BacktestInv
<1>5. ASSUME NEW trips \in BOOLEAN, DecidesNot(trips) PROVE BacktestInv'
  <2>1. tasks # <<>> /\ Queue(Tail(tasks), stage)
    BY <1>0, <1>5, QueueTail DEF DecidesNot, AtHead
  <2>2. Queue(tasks, stage)'
    BY <1>5, <2>1 DEF DecidesNot
  <2> QED
    BY <1>0, <1>5, <2>2
    DEF DecidesNot, BacktestVarsOK, AtHead, LogOfCaptured, BooksOK, BacktestInv
<1>6. ASSUME NEW trips \in BOOLEAN, Decides(trips) PROVE BacktestInv'
  <2>1. tasks # <<>> /\ Head(tasks) \in SignalTask /\ Queue(Tail(tasks), stage)
    BY <1>0, <1>6, QueueTail DEF Decides, AtHead
  <2>2. Head(tasks).id \in 0..MaxSignals
    BY <2>1 DEF SignalTask, Signals
  <2>3. Queue(tasks, stage)'
    BY <1>0, <1>6, <2>1 DEF Decides
  <2>4. AtHead'
    BY <1>0, <1>6, <2>1, <2>2 DEF Decides, AtHead
  <2> QED
    BY <1>0, <1>6, <2>3, <2>4 DEF Decides, BacktestVarsOK, LogOfCaptured, BooksOK, BacktestInv
<1>7. ASSUME NEW trades \in TradeLists, Submit(trades) PROVE BacktestInv'
  <2>1. tasks # <<>> /\ Head(tasks) \in SignalTask /\ pending = Head(tasks).id
    BY <1>0, <1>7 DEF Submit, AtHead
  <2>2. Head(tasks).id \in Signals /\ pending # 0 /\ 0 \in 0..MaxSignals
        /\ pending \in 0..MaxSignals
    BY <2>1, BacktestAssumption DEF SignalTask, Signals
  <2>3. AtHead'
    BY <1>0, <1>7, <2>1, <2>2 DEF Submit, AtHead
  <2>4. LogOfCaptured'
    BY <1>0, <1>7 DEF Submit, LogOfCaptured
  <2>5. BooksOK'
    BY <1>0, <1>7, BacktestAssumption DEF Submit, BooksOK, Total
  <2> QED
    BY <1>0, <1>7, <2>3, <2>4, <2>5 DEF Submit, BacktestVarsOK, Queue, BacktestInv
<1>8. CASE ApplyTrade
  <2> DEFINE T == Trade
             id == Head(tasks).id
             ts == WithHook(tasks, "onPositionChange", id)
  <2>1. Head(left) \in T /\ left' \in Seq(T)
    <3>1. left \in Seq(T) /\ left # <<>> /\ left' = Tail(left)
      BY <1>0, <1>8 DEF BooksOK, ApplyTrade
    <3> HIDE DEF T
    <3> QED
      BY <3>1
  <2>2. BooksOK'
    <3>1. applyLandedTrade(Head(left))
      BY <1>8 DEF ApplyTrade
    <3>2. /\ held' \in Seq(Lot)
          /\ realizedPnl' \in Int /\ pnlSeries' \in Seq(Int)
          /\ (Total(pnlSeries) = realizedPnl)'
      BY <1>0, <2>1, <3>1, TradeKeepsTheBooks
    <3>3. step' = "applying"
      BY <1>8 DEF ApplyTrade
    <3> QED
      BY <2>1, <3>2, <3>3, Zenon DEF BooksOK
  <2>3. tasks # <<>> /\ Head(tasks) \in SignalTask
    BY <1>0, <1>8 DEF ApplyTrade, AtHead
  <2>4. id \in 0..MaxSignals
    BY <2>3 DEF SignalTask, Signals
  <2> HIDE DEF id
  <2>5. Queue(ts, stage) /\ ts # <<>> /\ Head(ts) = Head(tasks)
    BY <1>0, <2>3, <2>4, QueueHook DEF Hooks
  <2>6. tasks' = ts
    BY <1>8, Zenon DEF ApplyTrade, id
  <2> HIDE DEF ts
  <2>7. BacktestVarsOK' /\ Queue(tasks, stage)'
    BY <1>0, <1>8, <2>5, <2>6 DEF ApplyTrade, BacktestVarsOK
  <2>8. AtHead' /\ LogOfCaptured'
    BY <1>0, <1>8, <2>5, <2>6 DEF ApplyTrade, AtHead, LogOfCaptured
  <2> QED
    BY <2>2, <2>7, <2>8 DEF BacktestInv
<1>9. CASE Settles
  <2> DEFINE id == Head(tasks).id
             e == [intentId |-> id, signalId |-> signalIdByIntent[id]]
             ts == WithHook(Tail(tasks), "onExecutionResult", id)
  <2>1. tasks # <<>> /\ Head(tasks) \in SignalTask /\ signalIdByIntent[id] = id
    BY <1>0, <1>9 DEF Settles, AtHead
  <2>2. id \in Signals /\ id \in 0..MaxSignals
    BY <2>1 DEF SignalTask, Signals
  <2>3. e \in LogEntry /\ e.intentId = id /\ e.signalId = id
    BY <2>1, <2>2 DEF LogEntry
  <2>4. tasks' = ts /\ decisionLog' = Append(decisionLog, e) /\ step' = "idle"
        /\ captured' = captured
    BY <1>9, Zenon DEF Settles
  <2>5. captured = Append(Intents(decisionLog), id) /\ decisionLog \in Seq(LogEntry)
    BY <1>0, <1>9 DEF Settles, LogOfCaptured
  <2> HIDE DEF e, id
  <2>6. LogOfCaptured'
    <3>1. /\ decisionLog' \in Seq(LogEntry)
          /\ Intents(decisionLog') = captured'
          /\ \A k \in DOMAIN decisionLog' :
                \/ k \in DOMAIN decisionLog /\ decisionLog'[k] = decisionLog[k]
                \/ decisionLog'[k] = e
      BY <2>3, <2>4, <2>5, IntentsGrow
    <3>2. \A k \in DOMAIN decisionLog' : decisionLog'[k].signalId = decisionLog'[k].intentId
      BY <1>0, <2>3, <3>1 DEF LogOfCaptured
    <3> QED
      BY <2>4, <3>1, <3>2 DEF LogOfCaptured
  <2>7. Queue(ts, stage)
    BY <1>0, <2>1, <2>2, QueueTail, QueueHook DEF Hooks
  <2>8. Queue(tasks, stage)'
    BY <1>9, <2>4, <2>7 DEF Settles
  <2> QED
    BY <1>0, <1>9, <2>6, <2>8 DEF Settles, BacktestVarsOK, AtHead, BooksOK, BacktestInv
<1>10. CASE EndHook
  <2>1. tasks # <<>> /\ Head(tasks) \in HookTask /\ Queue(Tail(tasks), stage)
    BY <1>0, <1>10, QueueTail DEF EndHook, AtHead
  <2>2. CASE Head(tasks).kind = "barrier"
    <3>1. 1 \in DOMAIN tasks /\ tasks[1] = Head(tasks)
      BY <1>h, <2>1, TasksOf, Zenon
    <3>2. Holds(tasks, "barrier")
      BY <2>2, <3>1, Zenon DEF Holds
    <3>3. stage = "closing"
      BY <1>0, <3>2 DEF Queue
    <3>4. Queue(Tail(tasks), "done") /\ Queue(Append(Tail(tasks), Task("onShutdown", 0)), "shutting")
      BY <1>0, <2>1, <2>2, <3>3, QueueCloses
    <3>5. Deregistered
      BY <1>10, <2>2 DEF EndHook
    <3>6. Queue(tasks, stage)' /\ stage' \in {"shutting", "done"}
      BY <3>4, <3>5 DEF Deregistered
    <3> QED
      BY <1>0, <1>10, <3>3, <3>6
      DEF EndHook, BacktestVarsOK, AtHead, LogOfCaptured, BooksOK, BacktestInv
  <2>3. CASE Head(tasks).kind = "onShutdown"
    <3>1. Queue(Tail(tasks), "done")
      BY <1>0, <2>1, <2>3, QueueIsShut
    <3>2. Queue(tasks, stage)' /\ stage' = "done"
      BY <1>10, <2>3, <3>1 DEF EndHook
    <3>3. stage \notin {"feeding", "ended"}
      <4>1. 1 \in DOMAIN tasks /\ tasks[1] = Head(tasks)
        BY <1>h, <2>1, TasksOf, Zenon
      <4>2. Holds(tasks, "onShutdown")
        BY <2>3, <4>1, Zenon DEF Holds
      <4> QED
        BY <1>0, <4>2 DEF Queue
    <3> QED
      BY <1>0, <1>10, <3>2, <3>3
      DEF EndHook, BacktestVarsOK, AtHead, LogOfCaptured, BooksOK, BacktestInv
  <2>4. CASE Head(tasks).kind \notin {"barrier", "onShutdown"}
    <3>1. Queue(tasks, stage)' /\ stage' = stage
      BY <1>10, <2>1, <2>4 DEF EndHook
    <3> QED
      BY <1>0, <1>10, <3>1
      DEF EndHook, BacktestVarsOK, AtHead, LogOfCaptured, BooksOK, BacktestInv
  <2> QED
    BY <2>2, <2>3, <2>4
<1>11. CASE StopRuntime
  <2> DEFINE t == Task("barrier", 0)
  <2>1. t \in BackTask /\ t.kind = "barrier"
    BY BacktestAssumption DEF Task, BackTask, HookTask
  <2> HIDE DEF t
  <2>2. tasks' = Append(tasks, t) /\ stage = "ended" /\ stage' = "closing" /\ buffer = <<>>
    BY <1>11, Zenon DEF StopRuntime, t
  <2>3. ~Holds(tasks, "barrier") /\ ~Holds(tasks, "onShutdown")
    BY <1>0, <2>2 DEF Queue
  <2>4. Queue(Append(tasks, t), "closing")
    BY <1>0, <2>1, <2>2, <2>3, QueueAppend
  <2>5. tasks # <<>> => Append(tasks, t) # <<>> /\ Head(Append(tasks, t)) = Head(tasks)
    BY <1>h, <2>1, TasksOf, Zenon
  <2>6. tasks # <<>> => tasks' # <<>> /\ Head(tasks') = Head(tasks)
    BY <2>2, <2>5, Zenon
  <2>7. Queue(tasks, stage)'
    BY <2>2, <2>4
  <2>8. AtHead' /\ LogOfCaptured'
    BY <1>0, <1>11, <2>6 DEF StopRuntime, AtHead, LogOfCaptured
  <2>9. BacktestVarsOK' /\ BooksOK'
    BY <1>0, <1>11 DEF StopRuntime, BacktestVarsOK, BooksOK, Total
  <2> QED
    BY <2>7, <2>8, <2>9 DEF BacktestInv
<1>12. CASE UNCHANGED btVars
  BY <1>0, <1>12 DEF btVars, BacktestVarsOK, Queue, AtHead, LogOfCaptured, BooksOK, Total, BacktestInv
<1> QED
  BY <1>1, <1>2, <1>3, <1>4, <1>5, <1>6, <1>7, <1>8, <1>9, <1>10, <1>11, <1>12, Zenon
  DEF BacktestNext, TaskStep

LEMMA BacktestInitInv == BacktestInit => BacktestInv
<1> SUFFICES ASSUME BacktestInit PROVE BacktestInv
  OBVIOUS
<1> DEFINE S == Signals
           T == Trade
           L == Lot
           B == BackTask
           E == LogEntry
<1>1. <<>> \in Seq(S) /\ <<>> \in Seq(T) /\ <<>> \in Seq(L) /\ <<>> \in Seq(B) /\ <<>> \in Seq(E)
      /\ <<>> \in Seq(Int) /\ DOMAIN <<>> = {}
  <2> HIDE DEF S, T, L, B, E
  <2> QED
    OBVIOUS
<1>2. 0 \in 0..MaxSignals /\ [s \in Signals |-> 0] \in [Signals -> 0..MaxSignals]
  BY BacktestAssumption
<1>3. BacktestVarsOK /\ AtHead
  BY <1>1, <1>2 DEF BacktestInit, BacktestVarsOK, AtHead
<1>4. Queue(tasks, stage)
  BY <1>1, Zenon DEF BacktestInit, Queue, Holds, BarrierIsLast
<1>5. LogOfCaptured
  <2>1. Intents(<<>>) = <<>>
    BY <1>1 DEF Intents
  <2> QED
    BY <1>1, <2>1 DEF BacktestInit, LogOfCaptured
<1>6. BooksOK
  BY <1>1 DEF BacktestInit, BooksOK, Total
<1> QED
  BY <1>3, <1>4, <1>5, <1>6 DEF BacktestInv

(* What the invariant says of the report, and of the drawdown.             *)
LEMMA ReportIsTheRuns == BacktestInv => BacktestSafe
<1> SUFFICES ASSUME BacktestInv PROVE BacktestSafe
  OBVIOUS
<1>1. BacktestVarsOK /\ Queue(tasks, stage) /\ AtHead /\ LogOfCaptured /\ BooksOK
  BY DEF BacktestInv
<1>2. BacktestTypeOK
  BY <1>1 DEF BacktestVarsOK, AtHead, BooksOK, BacktestTypeOK
<1>3. DecisionsNameTheirSignal
  <2> DEFINE I == Intents(decisionLog)
  <2>1. decisionLog \in Seq(LogEntry)
    BY <1>1 DEF LogOfCaptured
  <2>2. I \in Seq(Signals) /\ (step = "applying" => Head(tasks).id \in Signals)
    <3>1. Len(decisionLog) \in Nat /\ DOMAIN decisionLog = 1..Len(decisionLog)
          /\ \A k \in DOMAIN decisionLog : decisionLog[k].intentId \in Signals
      <4>1. \A e \in LogEntry : e.intentId \in Signals
        BY DEF LogEntry
      <4> DEFINE T == LogEntry
      <4>2. decisionLog \in Seq(T)
        BY <2>1
      <4> HIDE DEF T
      <4>3. Len(decisionLog) \in Nat /\ DOMAIN decisionLog = 1..Len(decisionLog)
            /\ \A k \in DOMAIN decisionLog : decisionLog[k] \in T
        BY <4>2
      <4> QED
        BY <4>1, <4>3, Zenon DEF T
    <3> DEFINE S == Signals
               n == Len(decisionLog)
    <3>2. I = [k \in 1..n |-> decisionLog[k].intentId] /\ n \in Nat
          /\ \A k \in 1..n : decisionLog[k].intentId \in S
      BY <3>1 DEF Intents
    <3> HIDE DEF S, n, I
    <3>3. I \in Seq(S)
      BY <3>2
    <3> QED
      BY <1>1, <3>3 DEF S, AtHead, SignalTask
  <2>3. \/ captured = I
        \/ captured = Append(I, Head(tasks).id) /\ Head(tasks).id \in Signals
    BY <1>1, <2>2, Zenon DEF LogOfCaptured
  <2> HIDE DEF I
  <2>4. \A S : \A p \in Seq(S) : IsPrefix(p, p) /\ \A x \in S : IsPrefix(p, Append(p, x))
    <3> TAKE S
    <3> TAKE p \in Seq(S)
    <3>1. IsPrefix(p, p)
      BY DEF IsPrefix
    <3>2. ASSUME NEW x \in S PROVE IsPrefix(p, Append(p, x))
      <4>1. Len(p) <= Len(Append(p, x))
        OBVIOUS
      <4>2. SubSeq(p, 1, Len(p)) = SubSeq(Append(p, x), 1, Len(p))
        OBVIOUS
      <4> QED
        BY <4>1, <4>2, Zenon DEF IsPrefix
    <3> QED
      BY <3>1, <3>2, Zenon
  <2>5. IsPrefix(I, captured)
    <3> DEFINE S == Signals
    <3>1. I \in Seq(S) /\ (captured = I \/ \E x \in S : captured = Append(I, x))
      BY <2>2, <2>3, Zenon
    <3> QED
      BY <2>4, <3>1, Zenon
  <2> QED
    BY <1>1, <2>5, Zenon DEF DecisionsNameTheirSignal, LogOfCaptured, Intents, I
<1>4. SeriesIsTheLedger
  <2> DEFINE v == <<0>> \o pnlSeries
             n == Len(pnlSeries) + 1
             r == Folded(pnlSeries, NoDraw, FallTo)
  <2>1. pnlSeries \in Seq(Int) /\ Total(pnlSeries) = realizedPnl
    BY <1>1 DEF BooksOK
  <2>2. Draws(r, v, n)
    BY <2>1, DrawdownIsTheFall, Zenon
  <2>3. maxDrawdown(pnlSeries) = r.worst
    BY <2>1, DrawdownIsFolded, Zenon
  <2>4. Len(v) = n
    BY <2>1
  <2> HIDE DEF v, n, r
  <2>5. maxDrawdown(pnlSeries) \in Falls(v, Len(v))
        /\ \A f \in Falls(v, Len(v)) : f <= maxDrawdown(pnlSeries)
    BY <2>2, <2>3, <2>4, Zenon DEF Draws
  <2> QED
    BY <2>1, <2>5, Zenon DEF SeriesIsTheLedger, Falls, v
<1>5. ReportIsComplete
  <2> SUFFICES ASSUME stage = "done" PROVE
        /\ buffer = <<>>
        /\ \A k \in DOMAIN tasks : tasks[k].kind # "signal"
        /\ Len(decisionLog) = Len(captured)
    BY DEF ReportIsComplete
  <2>1. ~Holds(tasks, "signal") /\ tasks \in Seq(BackTask)
    BY <1>1 DEF Queue
  <2>2. \A k \in DOMAIN tasks : tasks[k].kind # "signal"
    BY <2>1, Zenon DEF Holds
  <2>3. step # "applying"
    <3> SUFFICES ASSUME step = "applying" PROVE FALSE
      OBVIOUS
    <3>1. tasks # <<>> /\ Head(tasks) \in SignalTask
      BY <1>1 DEF AtHead
    <3>2. 1 \in DOMAIN tasks /\ tasks[1] = Head(tasks)
      BY <2>1, <3>1, TasksOf, Zenon
    <3> QED
      BY <2>2, <3>1, <3>2 DEF SignalTask
  <2>4. captured = Intents(decisionLog) /\ decisionLog \in Seq(LogEntry)
    BY <1>1, <2>3 DEF LogOfCaptured
  <2>5. Len(decisionLog) = Len(captured)
    BY <2>4 DEF Intents
  <2> QED
    BY <1>1, <2>2, <2>5 DEF BacktestVarsOK
<1> QED
  BY <1>2, <1>3, <1>4, <1>5, Zenon DEF BacktestSafe

(* The harness (backtest.ts: runBacktest(), SimulatedExecutor,             *)
(* InMemoryPortfolio, maxDrawdown()): whatever the fixture emits, the      *)
(* strategy decides and intentToTrade() returns, every logged decision     *)
(* names its own signal, the report is read with every captured trade      *)
(* applied and logged, the PnL series ends in what was realized, and the   *)
(* drawdown computed from it is its largest fall.                          *)
THEOREM BacktestIsSafe == BacktestSpec => []BacktestSafe
<1>1. BacktestInit => BacktestInv
  BY BacktestInitInv
<1>2. BacktestInv /\ [BacktestNext]_btVars => BacktestInv'
  BY BacktestStep
<1>3. BacktestInv => BacktestSafe
  BY ReportIsTheRuns
<1> QED
  BY <1>1, <1>2, <1>3, PTL DEF BacktestSpec
=============================================================================
