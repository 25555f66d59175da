------------------------------- MODULE Vault -------------------------------
(***************************************************************************)
(* solana-vault for one wallet name: concurrent addWallet, unlock, lock,   *)
(* rotateKey and signTransaction calls on one Vault, its stored record and *)
(* its live handles, and the SOL reserve that signing enforces.            *)
(*                                                                         *)
(* Cryptography is kept as what it does: a record is a seed under a        *)
(* passphrase, decryption succeeds with that passphrase only, a signature  *)
(* names the key bytes it was made with.  A handle shares its key buffer   *)
(* with a signing call that has read it, and lock() zeroes that buffer.    *)
(***************************************************************************)
EXTENDS Integers

CONSTANTS
    VaultCalls,       \* API calls, each made once; an unlock names its handle
    SignCalls,        \* those of them that can only be signTransaction (a bound)
    Seeds,
    Phrases,          \* passphrases callers use
    ValidPhrases,     \* those validatePassphrase accepts
    Balance0,         \* the wallet's lamports at the start
    ReserveLamports,  \* solReserveByRole of the wallet's role
    Spend,            \* lamports a signed transaction spends
    MaxAuditErrors,   \* bound on failing audit appends
    Nobody,           \* no record, no handle, no signature
    ZeroKey           \* the bytes of a buffer that was zeroed

Records == [seed : Seeds, phrase : ValidPhrases]

ASSUME VaultAssumption ==
    /\ Balance0 \in Nat /\ ReserveLamports \in Nat /\ Spend \in Nat
    /\ Balance0 >= ReserveLamports
    /\ MaxAuditErrors \in Nat
    /\ ValidPhrases \subseteq Phrases /\ SignCalls \subseteq VaultCalls
    /\ Nobody \notin Seeds \cup VaultCalls \cup Records /\ ZeroKey \notin Seeds \cup {Nobody}

VARIABLES
    record,       \* the stored record
    vcall,        \* the calls
    handle,       \* the handle of each unlock: "none", "live" or "locked"
    unlocked,     \* Vault.#unlocked: the call whose handle it holds
    signed,       \* the key bytes each signing call signed with
    balance,      \* the wallet's lamports on chain
    auditErrors,
    replaced,     \* history: a record was written over another seed's
    overlapped    \* history: a balance was read with a transaction in flight

notCalls == <<record, handle, unlocked, signed, balance, auditErrors, replaced, overlapped>>
vaultVars == <<vcall, notCalls>>

NewCall == [kind |-> "none", at |-> "new"]

VaultTypeOK ==
    /\ record \in Records \cup {Nobody}
    /\ \A c \in VaultCalls : vcall[c].kind \in {"none", "add", "unlock", "rotate", "sign"}
    /\ handle \in [VaultCalls -> {"none", "live", "locked"}]
    /\ unlocked \in VaultCalls \cup {Nobody}
    /\ signed \in [VaultCalls -> Seeds \cup {Nobody, ZeroKey}]
    /\ balance \in Int /\ auditErrors \in 0..MaxAuditErrors

VaultInit ==
    /\ record \in Records \cup {Nobody}   \* what an earlier process left
    /\ vcall = [c \in VaultCalls |-> NewCall]
    /\ handle = [c \in VaultCalls |-> "none"]
    /\ unlocked = Nobody
    /\ signed = [c \in VaultCalls |-> Nobody]
    /\ balance = Balance0 /\ auditErrors = 0
    /\ replaced = FALSE /\ overlapped = FALSE

Becomes(c, r) == vcall' = [vcall EXCEPT ![c] = r]
GoesTo(c, at) == vcall' = [vcall EXCEPT ![c].at = at]
Fails(c) == Becomes(c, [kind |-> vcall[c].kind, at |-> "failed"])

-----------------------------------------------------------------------------
(* addWallet: validate, read, (derive, encrypt,) write, audit.             *)

AddWallet(c, s, p, overwrite) ==
    /\ vcall[c] = NewCall /\ c \notin SignCalls
    /\ Becomes(c, IF p \notin ValidPhrases THEN [kind |-> "add", at |-> "failed"]
                  ELSE [kind |-> "add", seed |-> s, phrase |-> p, overwrite |-> overwrite,
                        at |-> "read"])
    /\ UNCHANGED notCalls

\* An existing name is refused unless it may be overwritten.
AddReads(c) ==
    /\ vcall[c].kind = "add" /\ vcall[c].at = "read"
    /\ IF record # Nobody /\ ~vcall[c].overwrite THEN Fails(c) ELSE GoesTo(c, "write")
    /\ UNCHANGED notCalls

AddWrites(c) ==
    /\ vcall[c].kind = "add" /\ vcall[c].at = "write"
    /\ record' = [seed |-> vcall[c].seed, phrase |-> vcall[c].phrase]
    /\ replaced' = (replaced \/ record # Nobody)
    /\ GoesTo(c, "audit")
    /\ UNCHANGED <<handle, unlocked, signed, balance, auditErrors, overlapped>>

-----------------------------------------------------------------------------
(* unlock and rotateKey read the record; lock is synchronous.              *)

Unlock(c, p, hooks) ==
    /\ vcall[c] = NewCall /\ c \notin SignCalls
    /\ Becomes(c, IF record = Nobody THEN [kind |-> "unlock", at |-> "failed"]
                  ELSE [kind |-> "unlock", phrase |-> p, hooks |-> hooks, snap |-> record,
                        at |-> "derive"])
    /\ UNCHANGED notCalls

\* Mutant: the handle of an earlier unlock stays live.
relockNone == handle

\* A second unlock locks the handle the first one left.
relock == IF unlocked = Nobody THEN handle ELSE [handle EXCEPT ![unlocked] = "locked"]

UnlockWrong(c) ==
    /\ vcall[c].kind = "unlock" /\ vcall[c].at = "derive"
    /\ vcall[c].phrase # vcall[c].snap.phrase
    /\ Fails(c)
    /\ UNCHANGED notCalls

\* Decrypted: without the hooks the reserve needs it throws, after locking
\* the handle that was there; else the new handle takes its place.
UnlockOpens(c) ==
    /\ vcall[c].kind = "unlock" /\ vcall[c].at = "derive"
    /\ vcall[c].phrase = vcall[c].snap.phrase
    /\ IF vcall[c].hooks
       THEN /\ handle' = [relock EXCEPT ![c] = "live"]
            /\ unlocked' = c
            /\ GoesTo(c, "audit")
       ELSE /\ handle' = relock
            /\ Fails(c)
            /\ UNCHANGED unlocked
    /\ UNCHANGED <<record, signed, balance, auditErrors, replaced, overlapped>>

\* lock(name) and lockAll().
LockWallet ==
    /\ unlocked # Nobody
    /\ handle' = [handle EXCEPT ![unlocked] = "locked"]
    /\ unlocked' = Nobody
    /\ UNCHANGED <<record, vcall, signed, balance, auditErrors, replaced, overlapped>>

RotateKey(c, old, new) ==
    /\ vcall[c] = NewCall /\ c \notin SignCalls
    /\ Becomes(c, IF new \notin ValidPhrases \/ record = Nobody
                  THEN [kind |-> "rotate", at |-> "failed"]
                  ELSE [kind |-> "rotate", old |-> old, new |-> new, snap |-> record,
                        at |-> "derive"])
    /\ UNCHANGED notCalls

RotateWrong(c) ==
    /\ vcall[c].kind = "rotate" /\ vcall[c].at = "derive" /\ vcall[c].old # vcall[c].snap.phrase
    /\ Fails(c)
    /\ UNCHANGED notCalls

\* Mutant: whatever passphrase was given.
RotateOpensAnyhow(c) == vcall[c].kind = "rotate" /\ vcall[c].at = "derive"
\* The old passphrase has decrypted the seed.
RotateOpens(c) ==
    vcall[c].kind = "rotate" /\ vcall[c].at = "derive" /\ vcall[c].old = vcall[c].snap.phrase

\* Re-encrypted: the record that was read, under the new passphrase.
RotateWrites(c) ==
    /\ RotateOpens(c)
    /\ record' = [vcall[c].snap EXCEPT !.phrase = vcall[c].new]
    /\ GoesTo(c, "audit")
    /\ UNCHANGED <<handle, unlocked, signed, balance, auditErrors, replaced, overlapped>>

-----------------------------------------------------------------------------
(* signTransaction on a handle that unlock() returned.                     *)

SignTransaction(c, h) ==
    /\ vcall[c] = NewCall
    /\ vcall[h].kind = "unlock" /\ vcall[h].at = "done"
    /\ Becomes(c, [kind |-> "sign", handle |-> h,
                   at |-> IF handle[h] = "live" THEN "balance" ELSE "failed"])
    /\ UNCHANGED notCalls

\* Signed, or about to be, and not on chain yet.
InTheAir(c) == vcall[c].kind = "sign" /\ vcall[c].at \in {"check", "audit", "done"}

\* The node answers getBalance().
BalanceRead(c) ==
    /\ vcall[c].kind = "sign" /\ vcall[c].at = "balance"
    /\ vcall' = [vcall EXCEPT ![c] = [kind |-> "sign", handle |-> vcall[c].handle,
                                      at |-> "check", seen |-> balance]]
    /\ overlapped' = (overlapped \/ \E d \in VaultCalls : InTheAir(d))
    /\ UNCHANGED <<record, handle, unlocked, signed, balance, auditErrors, replaced>>

checkSpend(seen) == seen - Spend >= ReserveLamports

\* The bytes in the key buffer the call took before getBalance().
KeyBytes(h) == IF handle[h] = "live" THEN vcall[h].snap.seed ELSE ZeroKey

\* The reserve check, then the signature.
SignChecks(c) ==
    /\ vcall[c].kind = "sign" /\ vcall[c].at = "check"
    /\ IF checkSpend(vcall[c].seen)
       THEN signed' = [signed EXCEPT ![c] = KeyBytes(vcall[c].handle)] /\ GoesTo(c, "audit")
       ELSE Fails(c) /\ UNCHANGED signed
    /\ UNCHANGED <<record, handle, unlocked, balance, auditErrors, replaced, overlapped>>

\* A returned transaction, if its signature verifies, lands at some time.
Lands(c) ==
    /\ vcall[c].kind = "sign" /\ vcall[c].at = "done"
    /\ balance' = IF signed[c] = ZeroKey THEN balance ELSE balance - Spend
    /\ GoesTo(c, "landed")
    /\ UNCHANGED <<record, handle, unlocked, signed, auditErrors, replaced, overlapped>>

-----------------------------------------------------------------------------
(* Every call ends with its audit line; the append may fail.               *)

AuditAppends(c) ==
    /\ vcall[c].at = "audit"
    /\ IF vcall[c].kind \in {"add", "rotate"}
       THEN Becomes(c, [kind |-> vcall[c].kind, at |-> "done"]) ELSE GoesTo(c, "done")
    /\ UNCHANGED notCalls

AuditAppendFails(c) ==
    /\ vcall[c].at = "audit" /\ auditErrors < MaxAuditErrors
    /\ auditErrors' = auditErrors + 1
    /\ Fails(c)
    /\ UNCHANGED <<record, handle, unlocked, signed, balance, replaced, overlapped>>

VaultNext ==
    \/ LockWallet
    \/ \E c \in VaultCalls :
        \/ \E s \in Seeds, p \in Phrases, o \in BOOLEAN : AddWallet(c, s, p, o)
        \/ \E p \in Phrases, hooks \in BOOLEAN : Unlock(c, p, hooks)
        \/ \E old, new \in Phrases : RotateKey(c, old, new)
        \/ \E h \in VaultCalls : SignTransaction(c, h)
        \/ AddReads(c) \/ AddWrites(c)
        \/ UnlockWrong(c) \/ UnlockOpens(c) \/ RotateWrong(c) \/ RotateWrites(c)
        \/ BalanceRead(c) \/ SignChecks(c) \/ Lands(c)
        \/ AuditAppends(c) \/ AuditAppendFails(c)

VaultSpec == VaultInit /\ [][VaultNext]_vaultVars

-----------------------------------------------------------------------------
(* Properties.                                                             *)

(* At most one decrypted copy of the key is live, and lock() can reach it: *)
(* concurrent unlocks decrypt side by side, and the later one locks the    *)
(* handle of the earlier one (vault.ts unlock, lock).                      *)
OneLiveHandle ==
    \A c \in VaultCalls : handle[c] = "live" => unlocked = c

(* A live key that no caller holds and no unlock is about to hand out      *)
(* exists only after unlock()'s audit line could not be written            *)
(* (vault.ts:334 throws with the handle in the map).                       *)
LiveKeyHasAHolder ==
    \A c \in VaultCalls :
        handle[c] = "live" => vcall[c].at \in {"audit", "done"} \/ auditErrors > 0

(* A passphrase change asks for the passphrase of the record it replaces,  *)
(* and keeps the seed, unless a record was replaced by another addWallet   *)
(* while calls were under way (vault.ts rotateKey).                        *)
RotationKeepsTheKey ==
    [][\A c \in VaultCalls :
          vcall[c].kind = "rotate" /\ record' # record /\ vcall'[c] # vcall[c]
          => vcall[c].old = vcall[c].snap.phrase
             /\ (record'.seed = record.seed \/ replaced)]_vaultVars

(* A signature is made with the key its handle was opened with, whatever   *)
(* has happened to the record since, or with the zeroed buffer, and that   *)
(* only if the handle was locked, by lock() or another unlock(), while the *)
(* call awaited the balance (wallet-handle.ts:223).                        *)
SignedByItsHandle ==
    \A c \in VaultCalls :
        vcall[c].kind = "sign" /\ signed[c] # Nobody /\ vcall[c].at # "failed" =>
            LET h == vcall[c].handle
            IN  \/ signed[c] = vcall[h].snap.seed
                \/ signed[c] = ZeroKey /\ handle[h] = "locked"

(* The wallet falls below its reserve only when two signatures overlapped, *)
(* the later one checked against a balance the earlier one had not yet     *)
(* reached (wallet-handle.ts signTransaction, reserve-guard.ts).           *)
ReserveNeedsOverlap ==
    balance < ReserveLamports => overlapped

(* addWallet() without overwrite never replaces a wallet: "accidentally    *)
(* overwriting a production key is a footgun we refuse to offer silently"  *)
(* (vault.ts:164).                                                         *)
NoSilentOverwrite ==
    [][\A c \in VaultCalls :
          vcall[c].kind = "add" /\ vcall[c].at = "write" /\ vcall'[c].at = "audit"
          => vcall[c].overwrite \/ record = Nobody]_vaultVars

(* The safety of the vault (vault.ts): keys and reserves.                  *)
VaultSafe ==
    /\ VaultTypeOK
    /\ OneLiveHandle
    /\ LiveKeyHasAHolder
    /\ SignedByItsHandle
    /\ ReserveNeedsOverlap
=============================================================================
