---------------------------- MODULE BalanceCache ----------------------------
(***************************************************************************)
(* How a client of one chain finds the outputs it can spend                *)
(* (internal/functions/balance) and keeps the owned ones in a cache        *)
(* (internal/cache), so that only new outputs are decrypted.               *)
(*                                                                         *)
(* Output i is the i-th encrypted output of the chain and Owner[i] the     *)
(* user who can decrypt it.  A cache entry is what SetHinkalCache wrote    *)
(* under a shielded public key: how often it holds each output, and        *)
(* lastOutput, which stands for the number of that output (0 is "").       *)
(* Amounts, tokens and the blocked flag are left out: they only select     *)
(* among the outputs that are returned.                                    *)
(***************************************************************************)
EXTENDS Integers

CONSTANTS
  Users,        \* sets of user keys; a user's public key is the user itself
  Threads,      \* goroutines that ask for a balance or for inputs
  None,         \* no user, no holder of the mutex
  MaxOutputs,   \* bound on the number of outputs on the chain
  Owner,        \* Owner[i]: who can decrypt output i
  Remote,       \* GenerateProofRemotely: the enclave may decrypt
  ViewLag,      \* how far a fetched view may be behind the chain
  EnclaveLag    \* how far the enclave may be behind the chain

Outputs == 1 .. MaxOutputs

ASSUME BalanceAssumption ==
  /\ MaxOutputs \in Nat
  /\ Owner \in [Outputs -> Users]
  /\ None \notin Users /\ None \notin Threads
  /\ Remote \in BOOLEAN
  /\ ViewLag \in Nat /\ EnclaveLag \in Nat

VARIABLES
  height,     \* number of outputs on the chain
  spent,      \* outputs whose nullifier is on the chain
  view,       \* EncryptedOutputsByChain (a prefix) and NullifiersByChain
  disabled,   \* disableMerkleTreeUpdates
  userKeys,   \* h.UserKeys
  cache,      \* cache[u]: the entry of user u on the cache device
  mutex,      \* holder of GetChainBalanceFetchingMutex
  call,       \* call[t]: the call of goroutine t
  foreign     \* history: users whose entry was used with the keys of another

vars == <<height, spent, view, disabled, userKeys, cache, mutex, call, foreign>>

\* How often each output is in a list of outputs.
Counts     == [Outputs -> Nat]
NoOutputs  == [i \in Outputs |-> 0]
Entry      == [outputs : Counts, last : Nat]
EmptyEntry == [outputs |-> NoOutputs, last |-> 0]

Call == [pc         : {"idle", "waiting", "start", "nullifiers", "reset", "read",
                       "local", "remote", "store", "cached", "done"},
         spk        : Users \cup {None},   \* shieldedPublicKey
         keys       : Users \cup {None},   \* userKeys
         reset      : BOOLEAN,             \* ResetCacheBefore
         outputs    : Nat,                 \* hinkalOutputs
         nullifiers : SUBSET Outputs,
         cached     : Entry,               \* the entry read, or the enclave's
         path       : {"local", "remote", "cached", "forced"},
         result     : Counts]

IdleCall == [pc |-> "idle", spk |-> None, keys |-> None, reset |-> FALSE,
             outputs |-> 0, nullifiers |-> {}, cached |-> EmptyEntry,
             path |-> "local", result |-> NoOutputs]

\* filterOwnedOutputs: the outputs from .. to that keys can decrypt.
FilterOwnedOutputs(keys, from, to) ==
  [i \in Outputs |-> IF from <= i /\ i <= to /\ Owner[i] = keys THEN 1 ELSE 0]

\* DecodeOutputs: what keys cannot decrypt is skipped.
DecodeOutputs(counts, keys) ==
  [i \in Outputs |-> IF Owner[i] = keys THEN counts[i] ELSE 0]

FilterSpentUtxos(counts, nullifiers) ==
  [i \in Outputs |-> IF i \in nullifiers THEN 0 ELSE counts[i]]

Init ==
  /\ height = 0 /\ spent = {}
  /\ view = [outputs |-> 0, nullifiers |-> {}]
  /\ disabled = FALSE
  /\ userKeys \in Users
  /\ cache = [u \in Users |-> EmptyEntry]
  /\ mutex = None
  /\ call = [t \in Threads |-> IdleCall]
  /\ foreign = {}

-----------------------------------------------------------------------------
\* The chain (external): an output appears, an output is spent.
NewOutput ==
  /\ height < MaxOutputs
  /\ height' = height + 1
  /\ UNCHANGED <<spent, view, disabled, userKeys, cache, mutex, call, foreign>>

Spend(i) ==
  /\ i <= height /\ i \notin spent
  /\ spent' = spent \cup {i}
  /\ UNCHANGED <<height, view, disabled, userKeys, cache, mutex, call, foreign>>

(***************************************************************************)
(* ResetMerkle replaces outputs and nullifiers together (storeChainState); *)
(* the node it asked may be behind the one before, so that the view may    *)
(* also shrink.                                                            *)
(***************************************************************************)
ResetMerkle(n) ==
  /\ ~disabled
  /\ n <= height /\ height - n <= ViewLag
  /\ view' = [outputs |-> n, nullifiers |-> {i \in spent : i <= n}]
  /\ UNCHANGED <<height, spent, disabled, userKeys, cache, mutex, call, foreign>>

UpdateMerkleTreeUpdates(value) ==
  /\ disabled # value
  /\ disabled' = value
  /\ UNCHANGED <<height, spent, view, userKeys, cache, mutex, call, foreign>>

\* Another user logs in.  Nothing protects h.UserKeys, so this may happen while
\* a balance is being computed.
InitUserKeys(u) ==
  /\ userKeys' = u
  /\ UNCHANGED <<height, spent, view, disabled, cache, mutex, call, foreign>>

\* The process starts again; what a MemoryCacheDevice held is gone.
Restart(kept) ==
  /\ view' = [outputs |-> 0, nullifiers |-> {}]
  /\ disabled' = FALSE
  /\ userKeys' \in Users
  /\ cache' = IF kept THEN cache ELSE [u \in Users |-> EmptyEntry]
  /\ foreign' = IF kept THEN foreign ELSE {}
  /\ mutex' = None
  /\ call' = [t \in Threads |-> IdleCall]
  /\ UNCHANGED <<height, spent>>

-----------------------------------------------------------------------------
\* GetTotalBalance takes the public key of the keys it is given, which are
\* those of any user, or of h.UserKeys; then GetShieldedBalance waits for the
\* mutex of the chain.
GetTotalBalance(t, u, reset) ==
  /\ call[t].pc = "idle"
  /\ call' = [call EXCEPT ![t] =
       [IdleCall EXCEPT !.pc = "waiting", !.spk = u, !.reset = reset]]
  /\ UNCHANGED <<height, spent, view, disabled, userKeys, cache, mutex, foreign>>

LockBalance(t) ==
  /\ call[t].pc = "waiting" /\ mutex = None
  /\ mutex' = t
  /\ call' = [call EXCEPT ![t].pc = "start"]
  /\ UNCHANGED <<height, spent, view, disabled, userKeys, cache, foreign>>

\* AddPaddingToUtxos and WithdrawStuckUtxos take no mutex and pass no key.
AddPaddingToUtxos(t) ==
  /\ call[t].pc = "idle"
  /\ call' = [call EXCEPT ![t] = [IdleCall EXCEPT !.pc = "start"]]
  /\ UNCHANGED <<height, spent, view, disabled, userKeys, cache, mutex, foreign>>

\* GetInputUtxoAndBalance from here on: it decrypts with h.UserKeys, whoever
\* the cache entry belongs to.  Outputs and nullifiers are read under h.mu one
\* after the other, and a reset may come between.
ReadOutputs(t) ==
  /\ call[t].pc = "start"
  /\ call' = [call EXCEPT ![t].pc = "nullifiers",
                          ![t].keys = userKeys,
                          ![t].spk = IF @ = None THEN userKeys ELSE @,
                          ![t].outputs = view.outputs]
  /\ foreign' = foreign \cup {u \in Users : u = call[t].spk /\ u # userKeys}
  /\ UNCHANGED <<height, spent, view, disabled, userKeys, cache, mutex>>

ReadNullifiers(t) ==
  /\ call[t].pc = "nullifiers"
  /\ call' = [call EXCEPT ![t].pc = IF call[t].reset THEN "reset" ELSE "read",
                          ![t].reset = FALSE,
                          ![t].nullifiers = view.nullifiers]
  /\ UNCHANGED <<height, spent, view, disabled, userKeys, cache, mutex, foreign>>

SetHinkalCache(u, entry) == cache' = [cache EXCEPT ![u] = entry]

ResetCache(t) ==
  /\ call[t].pc = "reset"
  /\ SetHinkalCache(call[t].spk, EmptyEntry)
  /\ call' = [call EXCEPT ![t].pc = "read"]
  /\ UNCHANGED <<height, spent, view, disabled, userKeys, mutex, foreign>>

\* indexOfOutput > -1; no output is the empty string.
Found(last, outputs) == 0 < last /\ last <= outputs

\* Mutant: an entry is used as it is whenever there is one.
PreferCache(last, outputs) ==
  IF disabled THEN "forced"
  ELSE IF last # 0 THEN "cached"
  ELSE IF Remote THEN "remote" ELSE "local"

Path(last, outputs) ==
  IF disabled THEN "forced"
  ELSE IF Found(last, outputs) THEN "local"
  ELSE IF last # 0 THEN "cached"
  ELSE IF Remote THEN "remote" ELSE "local"

ReadCache(t) ==
  LET entry == cache[call[t].spk]
      path  == Path(entry.last, call[t].outputs)
  IN
  /\ call[t].pc = "read"
  /\ call' = [call EXCEPT ![t].pc = IF path = "forced" THEN "cached" ELSE path,
                          ![t].path = path, ![t].cached = entry]
  /\ UNCHANGED <<height, spent, view, disabled, userKeys, cache, mutex, foreign>>

\* cachedEncryptedOutputs followed by the owned ones after lastOutput.
NewEncryptedOutputs(t) ==
  [i \in Outputs |-> call[t].cached.outputs[i]
     + FilterOwnedOutputs(call[t].keys, call[t].cached.last + 1, call[t].outputs)[i]]

\* Mutant: the last output of the newest view instead of the one scanned.
LastOfNewestView(t) == view.outputs

LastOutputNew(t) ==
  IF call[t].outputs > 0 THEN call[t].outputs ELSE call[t].cached.last

\* The call keeps its result; the entry it worked on is not read again.
Done(t, outputs) ==
  call' = [call EXCEPT ![t].pc = "done", ![t].cached = EmptyEntry,
             ![t].result = FilterSpentUtxos(DecodeOutputs(outputs, call[t].keys),
                                            call[t].nullifiers)]

\* getInputUtxosLocally: everything it works on was read before it took
\* localFetchingLock, so that the lock orders nothing but the writes.
GetInputUtxosLocally(t) ==
  /\ call[t].pc = "local"
  /\ SetHinkalCache(call[t].spk, [outputs |-> NewEncryptedOutputs(t),
                                  last |-> LastOutputNew(t)])
  /\ Done(t, NewEncryptedOutputs(t))
  /\ UNCHANGED <<height, spent, view, disabled, userKeys, mutex, foreign>>

\* The enclave (external) answers with what it finds for the keys among the
\* first n outputs, or the call fails and the outputs are decrypted locally.
EnclaveAnswers(t, n) ==
  /\ call[t].pc = "remote"
  /\ n <= height /\ height - n <= EnclaveLag
  /\ call' = [call EXCEPT ![t].pc = "store",
       ![t].cached = [outputs |-> FilterOwnedOutputs(call[t].keys, 1, n), last |-> n]]
  /\ UNCHANGED <<height, spent, view, disabled, userKeys, cache, mutex, foreign>>

EnclaveFails(t) ==
  /\ call[t].pc = "remote"
  /\ call' = [call EXCEPT ![t].pc = "local", ![t].path = "local"]
  /\ UNCHANGED <<height, spent, view, disabled, userKeys, cache, mutex, foreign>>

GetInputUtxosRemotely(t) ==
  /\ call[t].pc = "store"
  /\ SetHinkalCache(call[t].spk, call[t].cached)
  /\ Done(t, call[t].cached.outputs)
  /\ UNCHANGED <<height, spent, view, disabled, userKeys, mutex, foreign>>

UseCache(t) ==
  /\ call[t].pc = "cached"
  /\ Done(t, call[t].cached.outputs)
  /\ UNCHANGED <<height, spent, view, disabled, userKeys, cache, mutex, foreign>>

Return(t) ==
  /\ call[t].pc = "done"
  /\ call' = [call EXCEPT ![t] = IdleCall]
  /\ mutex' = IF mutex = t THEN None ELSE mutex
  /\ UNCHANGED <<height, spent, view, disabled, userKeys, cache, foreign>>

-----------------------------------------------------------------------------
Environment ==
  \/ NewOutput
  \/ \E i \in Outputs : Spend(i)
  \/ \E n \in 0 .. MaxOutputs : ResetMerkle(n)
  \/ \E value \in BOOLEAN : UpdateMerkleTreeUpdates(value)
  \/ \E u \in Users : InitUserKeys(u)
  \/ \E kept \in BOOLEAN : Restart(kept)

Fetch(t) ==
  \/ \E u \in Users, reset \in BOOLEAN : GetTotalBalance(t, u, reset)
  \/ LockBalance(t)
  \/ AddPaddingToUtxos(t)
  \/ ReadOutputs(t)
  \/ ReadNullifiers(t)
  \/ ResetCache(t)
  \/ ReadCache(t)
  \/ GetInputUtxosLocally(t)
  \/ \E n \in 0 .. MaxOutputs : EnclaveAnswers(t, n)
  \/ EnclaveFails(t)
  \/ GetInputUtxosRemotely(t)
  \/ UseCache(t)
  \/ Return(t)

Next == Environment \/ \E t \in Threads : Fetch(t)

Spec == Init /\ [][Next]_vars

-----------------------------------------------------------------------------
TypeOK ==
  /\ height \in 0 .. MaxOutputs
  /\ spent \in SUBSET Outputs
  /\ view \in [outputs : 0 .. MaxOutputs, nullifiers : SUBSET Outputs]
  /\ disabled \in BOOLEAN
  /\ userKeys \in Users
  /\ cache \in [Users -> Entry]
  /\ mutex \in Threads \cup {None}
  /\ call \in [Threads -> Call]
  /\ foreign \in SUBSET Users

(***************************************************************************)
(* An entry never holds an output twice nor one after lastOutput, and as   *)
(* long as no call has combined it with the keys of another user, it holds *)
(* exactly the outputs its user owns up to lastOutput, whoever wrote it    *)
(* last: callers with and without the mutex, with older and newer views,   *)
(* after a reset of the entry by someone else, while other users log in    *)
(* and ask for theirs, with an enclave ahead of or behind the view         *)
(* (input_utxos.go getInputUtxosLocally, getInputUtxosRemotely).  Outputs  *)
(* before lastOutput are never decrypted again, so one that is missing     *)
(* here is missing from every later balance.                               *)
(***************************************************************************)
CacheSound ==
  \A u \in Users :
    /\ \A i \in Outputs : cache[u].outputs[i] <= IF i <= cache[u].last THEN 1 ELSE 0
    /\ u \notin foreign =>
         cache[u].outputs = FilterOwnedOutputs(u, 1, cache[u].last)

\* A finished call returned the unspent owned outputs up to output k.
ReturnedUpTo(c, k) ==
  c.result = FilterSpentUtxos(FilterOwnedOutputs(c.keys, 1, k), c.nullifiers)

(***************************************************************************)
(* A balance counts no output twice and only unspent ones of the keys that *)
(* decrypt.  Unless the entry was ever combined with the keys of another   *)
(* user, it misses none of the view it was computed from, on whichever     *)
(* path; only the answer of an enclave that is behind, or a cache that is  *)
(* used because updates are disabled, may stop earlier (input_utxos.go     *)
(* GetInputUtxoAndBalance).                                                *)
(***************************************************************************)
BalanceExact ==
  \A t \in Threads : call[t].pc = "done" =>
    /\ \A i \in Outputs :
         call[t].result[i] <= FilterSpentUtxos(
           FilterOwnedOutputs(call[t].keys, 1, MaxOutputs), call[t].nullifiers)[i]
    /\ call[t].spk \notin foreign =>
         \E k \in 0 .. MaxOutputs :
           /\ ReturnedUpTo(call[t], k)
           /\ call[t].path \in {"local", "cached"} => k >= call[t].outputs
=============================================================================
