---------------------------- MODULE CacheProofs -----------------------------
(***************************************************************************)
(* Proofs about what the SDK keeps of the chain and of a user, each for    *)
(* itself: the entry of a user that BalanceCache keeps, the cache file of  *)
(* FileCache, and the tree and outputs of CommitmentsSnapshot.             *)
(***************************************************************************)
EXTENDS BalanceCache, FileCache, CommitmentsSnapshot, FiniteSetTheorems,
        SequenceTheorems, WellFoundedInduction, TLAPS

(***************************************************************************)
(* Proofs about BalanceCache for any number of users, goroutines and       *)
(* outputs.                                                                *)
(*                                                                         *)
(* CacheSound is not inductive: a goroutine writes the entry from what it  *)
(* read many steps before.  CallInv says what those copies are worth: an   *)
(* entry that was read is sound by itself, whatever the device holds now,  *)
(* the number of outputs it will be extended to was read before it, and    *)
(* the keys are those of the entry unless its user is in foreign, which    *)
(* only a restart with an empty cache makes smaller.                       *)
(***************************************************************************)

\* No output twice and none after last; exact while u is not in f.
SoundEntry(e, u, f) ==
  /\ e.last <= MaxOutputs
  /\ \A i \in Outputs : e.outputs[i] <= IF i <= e.last THEN 1 ELSE 0
  /\ u \notin f => e.outputs = FilterOwnedOutputs(u, 1, e.last)

Once(counts, keys, nullifiers) ==
  \A i \in Outputs :
    counts[i] <= FilterSpentUtxos(FilterOwnedOutputs(keys, 1, MaxOutputs), nullifiers)[i]

Exact(c) ==
  \E k \in 0 .. MaxOutputs :
    /\ ReturnedUpTo(c, k)
    /\ c.path \in {"local", "cached"} => k >= c.outputs

\* A call in progress, while the entries of f may have been mixed.
CallInv(c, f) ==
  /\ c.pc = "waiting" => c.spk \in Users
  /\ c.pc \notin {"idle", "waiting", "start"} =>
       /\ c.spk \in Users /\ c.keys \in Users /\ c.outputs <= MaxOutputs
       /\ c.spk \notin f => c.keys = c.spk
  /\ c.pc \in {"local", "remote", "store", "cached"} => SoundEntry(c.cached, c.spk, f)
  /\ c.pc = "local" => c.path = "local" /\ c.cached.last <= c.outputs
  /\ c.pc = "remote" => c.path = "remote" /\ c.cached.last = 0
  /\ c.pc = "store" => c.path = "remote"
  /\ c.pc = "cached" => \/ c.path = "forced"
                        \/ c.path = "cached" /\ c.cached.last > c.outputs
  /\ c.pc = "done" => /\ Once(c.result, c.keys, c.nullifiers)
                      /\ c.spk \notin f => Exact(c)

IInv ==
  /\ TypeOK
  /\ \A u \in Users : SoundEntry(cache[u], u, foreign)
  /\ \A t \in Threads : CallInv(call[t], foreign)

-----------------------------------------------------------------------------
USE BalanceAssumption

LEMMA EntryTypes ==
  /\ NoOutputs \in Counts
  /\ EmptyEntry \in Entry /\ EmptyEntry.last = 0 /\ EmptyEntry.outputs = NoOutputs
  /\ IdleCall \in Call /\ IdleCall.pc = "idle"
  /\ 0 \in 0 .. MaxOutputs
<1>1. NoOutputs \in Counts
  BY DEF NoOutputs, Counts
<1>2. EmptyEntry \in Entry
  BY <1>1 DEF EmptyEntry, Entry
<1>3. IdleCall \in Call
  BY <1>1, <1>2 DEF IdleCall, Call
<1> QED
  BY <1>1, <1>2, <1>3 DEF EmptyEntry, IdleCall

\* What filtering and decoding lists of outputs returns.
LEMMA OwnedType ==
  ASSUME NEW u, NEW a \in Nat, NEW b \in Nat
  PROVE  FilterOwnedOutputs(u, a, b) \in Counts
  BY DEF FilterOwnedOutputs, Counts

LEMMA DecodeOwned ==
  ASSUME NEW u, NEW a \in Nat, NEW b \in Nat
  PROVE  DecodeOutputs(FilterOwnedOutputs(u, a, b), u) = FilterOwnedOutputs(u, a, b)
  BY DEF DecodeOutputs, FilterOwnedOutputs

LEMMA NoneOwned ==
  ASSUME NEW u
  PROVE  FilterOwnedOutputs(u, 1, 0) = NoOutputs
  BY DEF FilterOwnedOutputs, NoOutputs, Outputs

LEMMA EmptySound == \A u, f : SoundEntry(EmptyEntry, u, f)
  BY EntryTypes, NoneOwned DEF SoundEntry, NoOutputs, Outputs

\* What holds while few entries were mixed holds when more are.
LEMMA SoundGrows ==
  ASSUME NEW e, NEW u, NEW f, NEW g, f \subseteq g, SoundEntry(e, u, f)
  PROVE  SoundEntry(e, u, g)
  BY DEF SoundEntry

LEMMA CallGrows ==
  ASSUME NEW c, NEW f, NEW g, f \subseteq g, CallInv(c, f)
  PROVE  CallInv(c, g)
  BY SoundGrows DEF CallInv

\* The owned outputs up to a followed by those from a + 1 to b are those up
\* to b: nothing is counted twice and nothing is left out.
LEMMA OwnedSplit ==
  ASSUME NEW u, NEW a \in Nat, NEW b \in Nat, a <= b
  PROVE  [i \in Outputs |-> FilterOwnedOutputs(u, 1, a)[i]
                              + FilterOwnedOutputs(u, a + 1, b)[i]]
           = FilterOwnedOutputs(u, 1, b)
<1>1. \A i \in Outputs : FilterOwnedOutputs(u, 1, a)[i] + FilterOwnedOutputs(u, a + 1, b)[i]
                           = FilterOwnedOutputs(u, 1, b)[i]
  BY DEF FilterOwnedOutputs, Outputs
<1> QED
  BY <1>1 DEF FilterOwnedOutputs

\* An entry extended by what other keys own after it holds nothing twice.
LEMMA OnceExtended ==
  ASSUME NEW counts \in Counts, NEW a \in Nat, NEW b \in Nat, a <= b, NEW keys,
         \A i \in Outputs : counts[i] <= IF i <= a THEN 1 ELSE 0
  PROVE  \A i \in Outputs : /\ counts[i] + FilterOwnedOutputs(keys, a + 1, b)[i] \in Nat
                            /\ counts[i] + FilterOwnedOutputs(keys, a + 1, b)[i]
                                 <= IF i <= b THEN 1 ELSE 0
  BY DEF Counts, FilterOwnedOutputs, Outputs

LEMMA FilteredType ==
  ASSUME NEW counts \in Counts, NEW u, NEW nullifiers
  PROVE  FilterSpentUtxos(DecodeOutputs(counts, u), nullifiers) \in Counts
  BY DEF FilterSpentUtxos, DecodeOutputs, Counts

LEMMA FilteredOnce ==
  ASSUME NEW counts \in Counts, NEW u, NEW nullifiers,
         \A i \in Outputs : counts[i] <= 1
  PROVE  Once(FilterSpentUtxos(DecodeOutputs(counts, u), nullifiers), u, nullifiers)
  BY DEF Once, FilterSpentUtxos, DecodeOutputs, FilterOwnedOutputs, Counts, Outputs

-----------------------------------------------------------------------------
LEMMA IInvInit == Init => IInv
<1> SUFFICES ASSUME Init PROVE IInv
  OBVIOUS
<1>1. TypeOK
  BY EntryTypes DEF Init, TypeOK
<1>2. \A u \in Users : SoundEntry(cache[u], u, foreign)
  <2>1. \A u \in Users : cache[u] = EmptyEntry
    BY Zenon DEF Init
  <2> QED
    BY <2>1, EmptySound, Zenon
<1>3. \A t \in Threads : CallInv(call[t], foreign)
  BY EntryTypes DEF Init, CallInv
<1> QED
  BY <1>1, <1>2, <1>3 DEF IInv

\* A step of goroutine t replaces its call and perhaps the entry of a user.
LEMMA CallStep ==
  ASSUME IInv, NEW t \in Threads, NEW c \in Call,
         call' = [call EXCEPT ![t] = c], CallInv(c, foreign'),
         \/ UNCHANGED cache
         \/ \E u \in Users, e \in Entry : /\ cache' = [cache EXCEPT ![u] = e]
                                          /\ SoundEntry(e, u, foreign'),
         mutex' \in Threads \cup {None},
         foreign \subseteq foreign', foreign' \subseteq Users,
         UNCHANGED <<height, spent, view, disabled, userKeys>>
  PROVE  IInv'
<1>0. \A u \in Users : SoundEntry(cache[u], u, foreign')
  BY SoundGrows DEF IInv
<1>1. cache' \in [Users -> Entry] /\ \A u \in Users : SoundEntry(cache'[u], u, foreign')
  <2>1. CASE UNCHANGED cache
    BY <1>0, <2>1 DEF IInv, TypeOK
  <2>2. ASSUME NEW v \in Users, NEW e \in Entry, cache' = [cache EXCEPT ![v] = e],
               SoundEntry(e, v, foreign')
        PROVE  cache' \in [Users -> Entry] /\ \A u \in Users : SoundEntry(cache'[u], u, foreign')
    BY <1>0, <2>2 DEF IInv, TypeOK
  <2> QED
    BY <2>1, <2>2
<1>2. TypeOK'
  BY <1>1 DEF IInv, TypeOK
<1>3. \A s \in Threads : CallInv(call'[s], foreign')
  <2>1. \A s \in Threads : CallInv(call[s], foreign')
    BY CallGrows DEF IInv
  <2> QED
    BY <2>1 DEF IInv, TypeOK
<1> QED
  BY <1>1, <1>2, <1>3 DEF IInv

\* A step of the chain or the facade that no call in progress depends on.
LEMMA QuietStep ==
  ASSUME IInv, TypeOK', UNCHANGED <<cache, call, foreign>>
  PROVE  IInv'
  BY DEF IInv

\* A result that holds the owned outputs up to k, spent ones left out.
LEMMA ResultExact ==
  ASSUME NEW c \in Call, NEW d \in Call, NEW k \in 0 .. MaxOutputs,
         d.path \in {"local", "cached"} => k >= d.outputs,
         d.keys = c.keys, d.nullifiers = c.nullifiers,
         d.result = FilterSpentUtxos(
                      DecodeOutputs(FilterOwnedOutputs(c.keys, 1, k), c.keys), c.nullifiers)
  PROVE  Exact(d)
<1>1. ReturnedUpTo(d, k)
  BY DecodeOwned DEF ReturnedUpTo
<1> QED
  BY <1>1 DEF Exact

LEMMA EnvironmentIInv ==
  ASSUME IInv, Environment
  PROVE  IInv'
<1>1. CASE NewOutput
  BY <1>1, QuietStep DEF NewOutput, IInv, TypeOK
<1>2. ASSUME NEW i \in Outputs, Spend(i) PROVE IInv'
  BY <1>2, QuietStep DEF Spend, IInv, TypeOK
<1>3. ASSUME NEW n \in 0 .. MaxOutputs, ResetMerkle(n) PROVE IInv'
  BY <1>3, QuietStep DEF ResetMerkle, IInv, TypeOK
<1>4. ASSUME NEW value \in BOOLEAN, UpdateMerkleTreeUpdates(value) PROVE IInv'
  <2>1. disabled' \in BOOLEAN
    BY <1>4, Zenon DEF UpdateMerkleTreeUpdates
  <2> QED
    BY <1>4, <2>1, QuietStep DEF UpdateMerkleTreeUpdates, IInv, TypeOK
<1>5. ASSUME NEW u \in Users, InitUserKeys(u) PROVE IInv'
  BY <1>5, QuietStep DEF InitUserKeys, IInv, TypeOK
<1>6. ASSUME NEW kept \in BOOLEAN, Restart(kept) PROVE IInv'
  <2>1. \A t \in Threads : CallInv(call'[t], foreign')
    BY <1>6, EntryTypes DEF Restart, CallInv
  <2>2. cache' \in [Users -> Entry] /\ \A u \in Users : SoundEntry(cache'[u], u, foreign')
    <3>1. CASE kept
      BY <1>6, <3>1 DEF Restart, IInv, TypeOK
    <3>2. CASE ~kept
      BY <1>6, <3>2, EntryTypes, EmptySound DEF Restart, IInv, TypeOK
    <3> QED
      BY <3>1, <3>2
  <2>3. disabled' \in BOOLEAN
    BY <1>6, Zenon DEF Restart
  <2>4. TypeOK'
    BY <1>6, <2>2, <2>3, EntryTypes DEF Restart, IInv, TypeOK
  <2> QED
    BY <2>1, <2>2, <2>4 DEF IInv
<1> QED
  BY <1>1, <1>2, <1>3, <1>4, <1>5, <1>6 DEF Environment

LEMMA FetchIInv ==
  ASSUME IInv, NEW t \in Threads, Fetch(t)
  PROVE  IInv'
<1> DEFINE c == call[t]
<1>0. /\ c \in Call /\ CallInv(c, foreign) /\ userKeys \in Users
      /\ mutex \in Threads \cup {None} /\ foreign \subseteq Users
      /\ view.outputs \in 0 .. MaxOutputs /\ view.nullifiers \in SUBSET Outputs
      /\ \A u \in Users : cache[u] \in Entry /\ SoundEntry(cache[u], u, foreign)
  BY DEF IInv, TypeOK
<1>1. ASSUME NEW u \in Users, NEW reset \in BOOLEAN, GetTotalBalance(t, u, reset) PROVE IInv'
  <2> DEFINE d == [IdleCall EXCEPT !.pc = "waiting", !.spk = u, !.reset = reset]
  <2>1. d \in Call /\ d.pc = "waiting" /\ d.spk = u
    BY <1>0, EntryTypes DEF Call
  <2>2. CallInv(d, foreign)
    BY <2>1 DEF CallInv
  <2> QED
    BY <1>0, <1>1, <2>1, <2>2, CallStep DEF GetTotalBalance
<1>2. CASE LockBalance(t)
  <2> DEFINE d == [c EXCEPT !.pc = "start"]
  <2>1. d \in Call /\ d.pc = "start"
    BY <1>0, <1>2 DEF Call, LockBalance
  <2>2. CallInv(d, foreign)
    BY <2>1 DEF CallInv
  <2>3. call' = [call EXCEPT ![t] = d] /\ mutex' \in Threads \cup {None}
    BY <1>2 DEF LockBalance
  <2> QED
    BY <1>0, <1>2, <2>1, <2>2, <2>3, CallStep DEF LockBalance
<1>3. CASE AddPaddingToUtxos(t)
  <2> DEFINE d == [IdleCall EXCEPT !.pc = "start"]
  <2>1. d \in Call /\ d.pc = "start"
    BY EntryTypes DEF Call, IdleCall
  <2>2. CallInv(d, foreign)
    BY <2>1 DEF CallInv
  <2> QED
    BY <1>0, <1>3, <2>1, <2>2, CallStep DEF AddPaddingToUtxos
<1>4. CASE ReadOutputs(t)
  <2> DEFINE spk == IF c.spk = None THEN userKeys ELSE c.spk
             d == [c EXCEPT !.pc = "nullifiers", !.keys = userKeys,
                            !.spk = spk, !.outputs = view.outputs]
  <2>0. /\ spk \in Users
        /\ spk \notin foreign' => spk = userKeys
        /\ foreign \subseteq foreign' /\ foreign' \subseteq Users
    BY <1>0, <1>4 DEF ReadOutputs, Call
  <2>2. call' = [call EXCEPT ![t] = d]
    BY <1>4 DEF ReadOutputs
  <2> HIDE DEF spk
  <2>3. /\ d \in Call /\ d.pc = "nullifiers" /\ d.spk = spk
        /\ d.keys = userKeys /\ d.outputs <= MaxOutputs
    <3>1. view.outputs \in Nat /\ view.outputs <= MaxOutputs
      BY <1>0
    <3> QED
      BY <1>0, <2>0, <3>1 DEF Call
  <2>4. CallInv(d, foreign')
    BY <1>0, <2>0, <2>3 DEF CallInv
  <2> QED
    BY <1>0, <1>4, <2>0, <2>2, <2>3, <2>4, CallStep DEF ReadOutputs
<1>5. CASE ReadNullifiers(t)
  <2> DEFINE d == [c EXCEPT !.pc = IF c.reset THEN "reset" ELSE "read",
                            !.reset = FALSE, !.nullifiers = view.nullifiers]
  <2>1. /\ d \in Call /\ d.pc \in {"reset", "read"} /\ d.spk = c.spk
        /\ d.keys = c.keys /\ d.outputs = c.outputs
    BY <1>0 DEF Call
  <2>2. CallInv(d, foreign)
    BY <1>0, <1>5, <2>1 DEF CallInv, ReadNullifiers
  <2>3. call' = [call EXCEPT ![t] = d]
    BY <1>5 DEF ReadNullifiers
  <2> QED
    BY <1>0, <1>5, <2>1, <2>2, <2>3, CallStep DEF ReadNullifiers
<1>6. CASE ResetCache(t)
  <2> DEFINE d == [c EXCEPT !.pc = "read"]
  <2>1. /\ d \in Call /\ d.pc = "read" /\ d.spk = c.spk
        /\ d.keys = c.keys /\ d.outputs = c.outputs /\ c.spk \in Users
    BY <1>0, <1>6 DEF Call, CallInv, ResetCache
  <2>2. CallInv(d, foreign)
    BY <1>0, <1>6, <2>1 DEF CallInv, ResetCache
  <2>3. call' = [call EXCEPT ![t] = d] /\ cache' = [cache EXCEPT ![c.spk] = EmptyEntry]
    BY <1>6, <2>1 DEF ResetCache, SetHinkalCache
  <2> QED
    BY <1>0, <1>6, <2>1, <2>2, <2>3, EntryTypes, EmptySound, CallStep DEF ResetCache
<1>7. CASE ReadCache(t)
  <2> DEFINE entry == cache[c.spk]
             path  == Path(entry.last, c.outputs)
             d == [c EXCEPT !.pc = IF path = "forced" THEN "cached" ELSE path,
                            !.path = path, !.cached = entry]
  <2>0. /\ c.spk \in Users /\ c.keys \in Users /\ c.outputs \in 0 .. MaxOutputs
        /\ c.spk \notin foreign => c.keys = c.spk
        /\ entry \in Entry /\ SoundEntry(entry, c.spk, foreign) /\ entry.last \in Nat
    BY <1>0, <1>7 DEF CallInv, ReadCache, Call, Entry
  <2>1. /\ path \in {"local", "remote", "cached", "forced"}
        /\ path = "local" => entry.last <= c.outputs
        /\ path = "remote" => entry.last = 0
        /\ path = "cached" => entry.last > c.outputs
    BY <2>0 DEF Path, Found
  <2>2. call' = [call EXCEPT ![t] = d]
    BY <1>7 DEF ReadCache
  <2> HIDE DEF path, entry
  <2>3. /\ d \in Call /\ d.path = path /\ d.cached = entry /\ d.spk = c.spk
        /\ d.keys = c.keys /\ d.outputs = c.outputs
        /\ d.pc = IF path = "forced" THEN "cached" ELSE path
    BY <1>0, <2>0, <2>1 DEF Call
  <2>4. CallInv(d, foreign)
    BY <2>0, <2>1, <2>3 DEF CallInv
  <2> QED
    BY <1>0, <1>7, <2>2, <2>3, <2>4, CallStep DEF ReadCache
<1>8. CASE GetInputUtxosLocally(t)
  <2> DEFINE new == NewEncryptedOutputs(t)
             e == [outputs |-> new, last |-> LastOutputNew(t)]
             r == FilterSpentUtxos(DecodeOutputs(new, c.keys), c.nullifiers)
             d == [c EXCEPT !.pc = "done", !.cached = EmptyEntry, !.result = r]
  <2>0. /\ c.spk \in Users /\ c.keys \in Users /\ c.outputs \in 0 .. MaxOutputs
        /\ c.spk \notin foreign => c.keys = c.spk
        /\ c.cached \in Entry /\ SoundEntry(c.cached, c.spk, foreign) /\ c.cached.last \in Nat
        /\ c.cached.last <= c.outputs /\ c.path = "local"
    BY <1>0, <1>8 DEF CallInv, GetInputUtxosLocally, Call, Entry
  <2>1. c.spk \notin foreign => new = FilterOwnedOutputs(c.keys, 1, c.outputs)
    BY <2>0, OwnedSplit DEF NewEncryptedOutputs, SoundEntry
  <2>2. LastOutputNew(t) = c.outputs
    BY <2>0 DEF LastOutputNew
  <2>3. /\ new \in Counts
        /\ \A i \in Outputs : new[i] <= IF i <= c.outputs THEN 1 ELSE 0
    <3>1. /\ c.cached.outputs \in Counts /\ c.outputs \in Nat
          /\ \A i \in Outputs : c.cached.outputs[i] <= IF i <= c.cached.last THEN 1 ELSE 0
      BY <2>0 DEF Entry, SoundEntry
    <3>2. \A i \in Outputs :
            /\ c.cached.outputs[i] + FilterOwnedOutputs(c.keys, c.cached.last + 1, c.outputs)[i] \in Nat
            /\ c.cached.outputs[i] + FilterOwnedOutputs(c.keys, c.cached.last + 1, c.outputs)[i]
                 <= IF i <= c.outputs THEN 1 ELSE 0
      BY <2>0, <3>1, OnceExtended
    <3> QED
      BY <3>2 DEF NewEncryptedOutputs, Counts
  <2>4. e \in Entry /\ SoundEntry(e, c.spk, foreign)
    BY <2>0, <2>1, <2>2, <2>3 DEF Entry, SoundEntry
  <2>5. /\ r \in Counts
        /\ Once(r, c.keys, c.nullifiers)
    <3>1. \A i \in Outputs : new[i] <= 1
      BY <2>3 DEF Counts
    <3> HIDE DEF new
    <3> QED
      BY <2>3, <3>1, FilteredType, FilteredOnce
  <2>6. /\ call' = [call EXCEPT ![t] = d]
        /\ cache' = [cache EXCEPT ![c.spk] = e]
    BY <1>8, <2>0 DEF GetInputUtxosLocally, Done, SetHinkalCache
  <2>7. c.spk \notin foreign =>
          r = FilterSpentUtxos(DecodeOutputs(FilterOwnedOutputs(c.keys, 1, c.outputs), c.keys),
                               c.nullifiers)
    BY <2>0, <2>1
  <2> HIDE DEF e, r
  <2>8. /\ d \in Call /\ d.pc = "done" /\ d.spk = c.spk /\ d.keys = c.keys /\ d.result = r
        /\ d.outputs = c.outputs /\ d.path = c.path /\ d.nullifiers = c.nullifiers
    BY <1>0, <2>5, EntryTypes DEF Call
  <2>9. c.spk \notin foreign => Exact(d)
    <3>1. c.outputs \in 0 .. MaxOutputs /\ c.outputs >= d.outputs
      BY <2>0, <2>8
    <3> HIDE DEF d
    <3> QED
      BY <1>0, <2>7, <2>8, <3>1, ResultExact
  <2>10. CallInv(d, foreign)
    <3> HIDE DEF d
    <3> QED
      BY <2>0, <2>5, <2>8, <2>9 DEF CallInv
  <2> QED
    BY <1>0, <1>8, <2>0, <2>4, <2>6, <2>8, <2>10, CallStep DEF GetInputUtxosLocally
<1>9. ASSUME NEW n \in 0 .. MaxOutputs, EnclaveAnswers(t, n) PROVE IInv'
  <2> DEFINE e == [outputs |-> FilterOwnedOutputs(c.keys, 1, n), last |-> n]
             d == [c EXCEPT !.pc = "store", !.cached = e]
  <2>0. /\ c.spk \in Users /\ c.keys \in Users /\ c.outputs <= MaxOutputs /\ c.path = "remote"
        /\ c.spk \notin foreign => c.keys = c.spk
    BY <1>0, <1>9 DEF CallInv, EnclaveAnswers
  <2>1. e \in Entry /\ SoundEntry(e, c.spk, foreign)
    <3>1. \A i \in Outputs : FilterOwnedOutputs(c.keys, 1, n)[i] <= IF i <= n THEN 1 ELSE 0
      BY DEF FilterOwnedOutputs, Outputs
    <3> QED
      BY <2>0, <3>1, OwnedType DEF Entry, SoundEntry
  <2>2. call' = [call EXCEPT ![t] = d]
    BY <1>9 DEF EnclaveAnswers
  <2> HIDE DEF e
  <2>3. /\ d \in Call /\ d.pc = "store" /\ d.spk = c.spk /\ d.keys = c.keys
        /\ d.cached = e /\ d.outputs = c.outputs /\ d.path = c.path
    BY <1>0, <2>1 DEF Call
  <2>4. CallInv(d, foreign)
    BY <2>0, <2>1, <2>3 DEF CallInv
  <2> QED
    BY <1>0, <1>9, <2>2, <2>3, <2>4, CallStep DEF EnclaveAnswers
<1>10. CASE EnclaveFails(t)
  <2> DEFINE d == [c EXCEPT !.pc = "local", !.path = "local"]
  <2>0. /\ c.spk \in Users /\ c.keys \in Users /\ c.outputs \in Nat
        /\ c.spk \notin foreign => c.keys = c.spk
        /\ c.outputs <= MaxOutputs /\ c.cached.last = 0 /\ SoundEntry(c.cached, c.spk, foreign)
    BY <1>0, <1>10 DEF CallInv, EnclaveFails, Call
  <2>1. /\ d \in Call /\ d.pc = "local" /\ d.path = "local" /\ d.spk = c.spk
        /\ d.keys = c.keys /\ d.cached = c.cached /\ d.outputs = c.outputs
    BY <1>0 DEF Call
  <2>2. CallInv(d, foreign)
    BY <2>0, <2>1 DEF CallInv
  <2>3. call' = [call EXCEPT ![t] = d]
    BY <1>10 DEF EnclaveFails
  <2> QED
    BY <1>0, <1>10, <2>1, <2>2, <2>3, CallStep DEF EnclaveFails
<1>11. CASE GetInputUtxosRemotely(t) \/ UseCache(t)
  <2> DEFINE r == FilterSpentUtxos(DecodeOutputs(c.cached.outputs, c.keys), c.nullifiers)
             d == [c EXCEPT !.pc = "done", !.cached = EmptyEntry, !.result = r]
  <2>0. /\ c.spk \in Users /\ c.keys \in Users /\ c.outputs \in Nat
        /\ c.spk \notin foreign => c.keys = c.spk
        /\ c.outputs <= MaxOutputs /\ c.cached \in Entry
        /\ SoundEntry(c.cached, c.spk, foreign) /\ c.cached.last \in 0 .. MaxOutputs
        /\ c.path \in {"local", "cached"} => c.cached.last >= c.outputs
    BY <1>0, <1>11 DEF CallInv, GetInputUtxosRemotely, UseCache, Call, Entry, SoundEntry
  <2>1. /\ r \in Counts
        /\ Once(r, c.keys, c.nullifiers)
    <3>1. c.cached.outputs \in Counts /\ \A i \in Outputs : c.cached.outputs[i] <= 1
      BY <2>0 DEF Entry, SoundEntry, Counts
    <3> QED
      BY <3>1, FilteredType, FilteredOnce
  <2>2. c.spk \notin foreign =>
          r = FilterSpentUtxos(DecodeOutputs(FilterOwnedOutputs(c.keys, 1, c.cached.last), c.keys),
                               c.nullifiers)
    BY <2>0 DEF SoundEntry
  <2>3. /\ call' = [call EXCEPT ![t] = d]
        /\ \/ UNCHANGED cache
           \/ cache' = [cache EXCEPT ![c.spk] = c.cached]
    BY <1>11, <2>0 DEF GetInputUtxosRemotely, UseCache, Done, SetHinkalCache
  <2> HIDE DEF r
  <2>4. /\ d \in Call /\ d.pc = "done" /\ d.spk = c.spk /\ d.keys = c.keys /\ d.result = r
        /\ d.outputs = c.outputs /\ d.path = c.path /\ d.nullifiers = c.nullifiers
    BY <1>0, <2>1, EntryTypes DEF Call
  <2>5. c.spk \notin foreign => Exact(d)
    <3> HIDE DEF d
    <3> QED
      BY <1>0, <2>0, <2>2, <2>4, ResultExact
  <2>6. CallInv(d, foreign)
    <3> HIDE DEF d
    <3> QED
      BY <2>0, <2>1, <2>4, <2>5 DEF CallInv
  <2>7. UNCHANGED <<height, spent, view, disabled, userKeys, mutex, foreign>>
    BY <1>11 DEF GetInputUtxosRemotely, UseCache
  <2> QED
    BY <1>0, <2>0, <2>3, <2>4, <2>6, <2>7, CallStep
<1>12. CASE Return(t)
  <2>1. CallInv(IdleCall, foreign)
    BY EntryTypes DEF CallInv
  <2> QED
    BY <1>0, <1>12, <2>1, EntryTypes, CallStep DEF Return
<1> QED
  BY <1>1, <1>2, <1>3, <1>4, <1>5, <1>6, <1>7, <1>8, <1>9, <1>10, <1>11, <1>12 DEF Fetch

LEMMA IInvStep == IInv /\ [Next]_vars => IInv'
<1>1. CASE UNCHANGED vars
  BY <1>1 DEF vars, IInv, TypeOK
<1> QED
  BY <1>1, EnvironmentIInv, FetchIInv DEF Next

LEMMA IInvAlways == Spec => []IInv
  BY IInvInit, IInvStep, PTL DEF Spec

\* Every state of the cache and of the calls in progress is well typed.
THEOREM TypeCorrect == Spec => []TypeOK
<1>1. IInv => TypeOK
  BY DEF IInv
<1> QED
  BY <1>1, IInvAlways, PTL

\* No interleaving of callers and users makes a cache entry repeat an output,
\* and none makes it lose one unless it is combined with the keys of another.
THEOREM CacheSoundAlways == Spec => []CacheSound
<1>1. ASSUME IInv, NEW u \in Users PROVE SoundEntry(cache[u], u, foreign)
  BY <1>1 DEF IInv
<1>2. IInv => CacheSound
  BY <1>1, Zenon DEF SoundEntry, CacheSound
<1> QED
  BY <1>2, IInvAlways, PTL

\* No balance counts an output twice or one of another user, nor, unless its
\* entry was combined with the keys of another user, misses an output of the
\* view it was computed from.
THEOREM BalanceExactAlways == Spec => []BalanceExact
<1>1. ASSUME IInv, NEW t \in Threads, call[t].pc = "done"
      PROVE  /\ Once(call[t].result, call[t].keys, call[t].nullifiers)
             /\ call[t].spk \notin foreign => Exact(call[t])
  BY <1>1 DEF IInv, CallInv
<1>2. IInv => BalanceExact
  BY <1>1 DEF Once, Exact, BalanceExact
<1> QED
  BY <1>2, IInvAlways, PTL

-----------------------------------------------------------------------------
(***************************************************************************)
(* Proofs about FileCache for any number of processes, keys and values.    *)
(*                                                                         *)
(* None of the three properties is inductive: what the file holds after a  *)
(* rename is decided when the Set begins.  CleanSet follows a Set that no  *)
(* other one overlaps from the read to the rename; Overlap says that every *)
(* other Set under way has been given up on (mixed), and BeforeFile that   *)
(* up to the first rename memories hold nothing but what was set.          *)
(***************************************************************************)

Contents == Maps \union {Empty, Torn}
Names    == Inodes \union {Absent}
Anything == Values \union {Absent}

FileTypeOK ==
  /\ content \in [Inodes -> Contents]
  /\ file \in Names /\ tmp \in Names
  /\ pc \in [Processes -> {"down", "idle", "open", "write", "rename"}]
  /\ store \in [Processes -> Maps]
  /\ fd \in [Processes -> Names]
  /\ sets \in [Processes -> [key : Keys, value : Values] \union {NoSet}]
  /\ accept \in [Keys -> SUBSET Anything]
  /\ behind \in [Processes -> SUBSET Keys]
  /\ clean \in SUBSET Processes
  /\ mixed \in BOOLEAN

\* The two names stand for two inodes, and a process in a Set has its key and
\* value, and a descriptor while it writes.
Descriptors ==
  /\ file # Absent => file # tmp
  /\ \A p \in Processes :
       /\ InSet(p) => sets[p] \in [key : Keys, value : Values]
       /\ fd[p] # Absent <=> pc[p] = "write"

\* What a Set that no other one overlaps has got done.
Progress(p) ==
  /\ pc[p] = "write" => fd[p] = tmp /\ content[tmp] = Empty
  /\ pc[p] = "rename" => tmp # Absent /\ content[tmp] = store[p]

OnItsOwn(p) ==
  /\ InSet(p) /\ Alone(p)
  /\ store[p][sets[p].key] = sets[p].value
  /\ \A k \in Keys : store[p][k] \in accept[k]
  /\ Progress(p)

CleanSet == \A p \in clean : OnItsOwn(p)

Overlap ==
  /\ \A p \in Processes : InSet(p) => p \in clean \/ mixed
  /\ mixed => \A k \in Keys : accept[k] = Anything

BeforeFile == file = Absent => \A p \in Processes, k \in Keys : store[p][k] \in accept[k]

FileIInv ==
  /\ FileTypeOK /\ Descriptors
  /\ CleanSet /\ Overlap /\ BeforeFile
  /\ FileIntact /\ UpdatesKept /\ GetsLatest

-----------------------------------------------------------------------------
HIDE BalanceAssumption
USE FileCacheAssumption

\* What maps and contents are to one another.
LEMMA MapFacts ==
  /\ NoEntries \in Maps
  /\ Empty \notin Maps /\ Torn \notin Maps /\ Empty # Torn
  /\ Absent \notin Inodes
  BY DEF NoEntries, Maps

\* os.WriteFile finds an inode for the temporary file: with n processes there
\* are n + 2, and no more than n + 1 are in use.
LEMMA UnusedInode ==
  ASSUME FileTypeOK, tmp = Absent
  PROVE  Unused \in Inodes /\ Unused # file
<1> DEFINE fds  == {fd[p] : p \in Processes}
           used == {file, tmp} \union fds
           n    == Cardinality(Processes)
<1>1. n \in Nat /\ IsFiniteSet(fds) /\ Cardinality(fds) <= n
  <2>1. n \in Nat
    BY FS_CardinalityType
  <2>2. fd \in Surjection(Processes, fds)
    BY DEF FileTypeOK, Surjection
  <2> QED
    BY <2>1, <2>2, FS_Surjection
<1>2. IsFiniteSet(fds \union {file}) /\ Cardinality(fds \union {file}) <= n + 1
  <2>1. Cardinality(fds) \in Nat
    BY <1>1, FS_CardinalityType
  <2>2. /\ IsFiniteSet(fds \union {file})
        /\ \/ Cardinality(fds \union {file}) = Cardinality(fds)
           \/ Cardinality(fds \union {file}) = Cardinality(fds) + 1
    BY <1>1, FS_AddElement
  <2> HIDE DEF fds, n
  <2> QED
    BY <1>1, <2>1, <2>2
<1>3. IsFiniteSet(Inodes) /\ Cardinality(Inodes) = n + 2
  BY <1>1, FS_Interval DEF Inodes
<1>4. ~(Inodes \subseteq fds \union {file})
  BY <1>1, <1>2, <1>3, FS_Subset, FS_CardinalityType
<1>5. \E i \in Inodes : i \notin used
  BY <1>4, MapFacts
<1>6. Unused \in Inodes /\ Unused \notin used
  BY <1>5 DEF Unused
<1> QED
  BY <1>6

\* While one process is in a Set on its own, no other one is in one.
LEMMA AloneFact ==
  ASSUME NEW p \in Processes, NEW q \in Processes, Alone(p), InSet(q)
  PROVE  q = p
  BY DEF Alone

\* What is read from the file is a map, and what may be in it.
LEMMA ReadLatest ==
  ASSUME FileIInv, NEW m \in Maps,
         file = Absent => \A k \in Keys : m[k] \in accept[k]
  PROVE  /\ ReadFileLocked(m) \in Maps
         /\ \A k \in Keys : ReadFileLocked(m)[k] \in accept[k]
<1>1. CASE Readable
  BY <1>1 DEF ReadFileLocked, Readable, FileIInv, UpdatesKept
<1>2. CASE ~Readable /\ file = Absent
  BY <1>2 DEF ReadFileLocked
<1>3. CASE ~Readable /\ file # Absent
  <2>1. \A k \in Keys : accept[k] = Anything
    BY <1>3 DEF FileIInv, FileIntact, Overlap
  <2> QED
    BY <1>3, <2>1 DEF ReadFileLocked, Maps, Anything
<1> QED
  BY <1>1, <1>2, <1>3

-----------------------------------------------------------------------------
LEMMA FileIInvInit == FileInit => FileIInv
<1> SUFFICES ASSUME FileInit PROVE FileIInv
  OBVIOUS
<1>1. FileTypeOK
  BY MapFacts DEF FileInit, FileTypeOK, Contents, Names, Anything
<1>2. Descriptors
  BY DEF FileInit, Descriptors, InSet
<1>3. CleanSet /\ Overlap
  BY DEF FileInit, CleanSet, Overlap, InSet
<1>4. BeforeFile /\ FileIntact /\ UpdatesKept /\ GetsLatest
  BY DEF FileInit, BeforeFile, FileIntact, UpdatesKept, GetsLatest, Readable, NoEntries
<1> QED
  BY <1>1, <1>2, <1>3, <1>4 DEF FileIInv

\* A device that is made reads the file, or starts with an empty map.
LEMMA NewDeviceStep ==
  ASSUME FileIInv, NEW p \in Processes, NewFileCacheDevice(p)
  PROVE  FileIInv'
<1> DEFINE m == ReadFileLocked(NoEntries)
<1>1. m \in Maps /\ \A k \in Keys : m[k] \in accept[k]
  <2>1. file = Absent => \A k \in Keys : NoEntries[k] \in accept[k]
    BY DEF FileIInv, UpdatesKept, NoEntries
  <2> QED
    BY <2>1, MapFacts, ReadLatest
<1> USE DEF NewFileCacheDevice
<1>2. FileTypeOK'
  BY <1>1 DEF FileIInv, FileTypeOK
<1>3. \A q \in Processes : InSet(q)' <=> InSet(q)
  BY DEF InSet, FileIInv, FileTypeOK
<1>4. Descriptors'
  BY <1>3 DEF FileIInv, FileTypeOK, Descriptors
<1>5. p \notin clean
  BY DEF FileIInv, CleanSet, OnItsOwn, InSet
<1>6. CleanSet'
  <2> SUFFICES ASSUME NEW q \in clean PROVE OnItsOwn(q)'
    BY DEF CleanSet
  <2>1. q \in Processes /\ q # p /\ store'[q] = store[q] /\ pc'[q] = pc[q]
    BY <1>5 DEF FileIInv, FileTypeOK
  <2> QED
    BY <1>3, <2>1 DEF FileIInv, CleanSet, OnItsOwn, Alone, Progress
<1>7. Overlap' /\ FileIntact' /\ UpdatesKept'
  BY <1>3 DEF FileIInv, Overlap, FileIntact, UpdatesKept, Readable
<1>8. BeforeFile' /\ GetsLatest'
  BY <1>1 DEF FileIInv, FileTypeOK, BeforeFile, GetsLatest
<1> QED
  BY <1>2, <1>4, <1>6, <1>7, <1>8 DEF FileIInv

\* A Set that nobody else's overlaps, and one that overlaps another.
LEMMA SetStep ==
  ASSUME FileIInv, NEW p \in Processes, NEW k \in Keys, NEW v \in Values, Set(p, k, v)
  PROVE  FileIInv'
<1> DEFINE m == ReadFileLocked(store[p])
<1> USE DEF Set
<1>1. m \in Maps /\ (\A j \in Keys : m[j] \in accept[j])
  <2>1. store[p] \in Maps /\ (file = Absent => \A j \in Keys : store[p][j] \in accept[j])
    BY DEF FileIInv, FileTypeOK, BeforeFile
  <2> QED
    BY <2>1, ReadLatest
<1>2. /\ Updated(p, k, v) \in Maps /\ Updated(p, k, v)[k] = v
      /\ \A j \in Keys : j # k => Updated(p, k, v)[j] = m[j]
  BY <1>1 DEF Updated, Maps
<1>3. /\ store'[p] = Updated(p, k, v) /\ pc'[p] = "open" /\ ~InSet(p) /\ InSet(p)'
      /\ sets'[p] = [key |-> k, value |-> v] /\ p \notin clean
      /\ \A q \in Processes \ {p} : store'[q] = store[q] /\ pc'[q] = pc[q] /\ sets'[q] = sets[q]
      /\ accept' \in [Keys -> SUBSET Anything]
      /\ \A j \in Keys : accept[j] \subseteq accept'[j] /\ v \in accept'[k]
  <2>1. pc'[p] = "open" /\ ~InSet(p) /\ InSet(p)' /\ p \notin clean
    BY DEF FileIInv, FileTypeOK, CleanSet, OnItsOwn, InSet
  <2>2. /\ accept' \in [Keys -> SUBSET Anything] /\ v \in accept'[k]
        /\ \A j \in Keys : accept[j] \subseteq accept'[j]
    BY DEF FileIInv, FileTypeOK, Anything
  <2> QED
    BY <2>1, <2>2 DEF FileIInv, FileTypeOK
<1>4. \A j \in Keys : store'[p][j] \in accept'[j]
  BY <1>1, <1>2, <1>3
<1>5. \A q \in Processes \ {p} : InSet(q)' <=> InSet(q)
  BY <1>3 DEF InSet
<1>6. FileTypeOK'
  <2>1. [key |-> k, value |-> v] \in [key : Keys, value : Values]
    OBVIOUS
  <2>2. clean' \in SUBSET Processes /\ mixed' \in BOOLEAN
    BY DEF FileIInv, FileTypeOK
  <2> QED
    BY <1>2, <1>3, <2>1, <2>2 DEF FileIInv, FileTypeOK
<1>7. Descriptors'
  BY <1>3, <1>5 DEF FileIInv, FileTypeOK, Descriptors, InSet
<1>8. CleanSet'
  <2>1. CASE ~Alone(p)
    BY <2>1 DEF CleanSet
  <2>2. CASE Alone(p)
    <3>1. Alone(p)'
      BY <1>5, <2>2 DEF Alone
    <3>2. sets'[p].key = k /\ sets'[p].value = v
      BY <1>3
    <3>3. store'[p][sets'[p].key] = sets'[p].value
      BY <1>2, <1>3, <3>2
    <3>4. OnItsOwn(p)'
      BY <1>3, <1>4, <3>1, <3>3 DEF OnItsOwn, Progress
    <3> QED
      BY <2>2, <3>4 DEF CleanSet
  <2> QED
    BY <2>1, <2>2
<1>9. Overlap'
  <2>1. CASE ~Alone(p)
    BY <2>1 DEF Overlap, Anything
  <2>2. CASE Alone(p)
    <3>1. \A q \in Processes : InSet(q)' => q = p
      BY <1>5, <2>2 DEF Alone
    <3>2. mixed => \A j \in Keys : accept[j] = Anything
      BY DEF FileIInv, Overlap
    <3>3. mixed => \A j \in Keys : accept'[j] = Anything
      BY <1>3, <3>2
    <3> QED
      BY <2>2, <3>1, <3>3 DEF Overlap
  <2> QED
    BY <2>1, <2>2
<1>10. BeforeFile'
  BY <1>3, <1>4 DEF FileIInv, BeforeFile
<1>11. FileIntact' /\ UpdatesKept'
  <2>1. mixed => mixed'
    OBVIOUS
  <2>2. Readable' <=> Readable
    BY DEF Readable
  <2> QED
    BY <1>3, <2>1, <2>2 DEF FileIInv, FileIntact, UpdatesKept
<1>12. GetsLatest'
  <2> SUFFICES ASSUME NEW q \in Processes, NEW j \in Keys, pc'[q] # "down", j \notin behind'[q]
               PROVE  store'[q][j] \in accept'[j]
    BY DEF GetsLatest
  <2>1. CASE q = p
    BY <1>4, <2>1
  <2>2. CASE q # p
    <3>1. pc'[q] = pc[q] /\ store'[q] = store[q] /\ behind'[q] = behind[q]
      BY <1>3, <2>2 DEF FileIInv, FileTypeOK
    <3> QED
      BY <1>3, <3>1 DEF FileIInv, GetsLatest
  <2> QED
    BY <2>1, <2>2
<1> QED
  BY <1>6, <1>7, <1>8, <1>9, <1>10, <1>11, <1>12 DEF FileIInv

\* os.WriteFile opens the temporary file; it never touches the file itself.
LEMMA OpenStep ==
  ASSUME FileIInv, NEW p \in Processes, OpenForWriting(p)
  PROVE  FileIInv'
<1> DEFINE i == IF tmp = Absent THEN Unused ELSE tmp
<1> USE DEF OpenForWriting, OpenTmp
<1>1. i \in Inodes /\ (file # Absent => i # file)
  BY UnusedInode DEF FileIInv, FileTypeOK, Descriptors, Names
<1>2. tmp' = i /\ content' = [content EXCEPT ![i] = Empty] /\ fd' = [fd EXCEPT ![p] = i]
  OBVIOUS
<1> HIDE DEF i
<1>3. /\ content' \in [Inodes -> Contents] /\ content'[i] = Empty
      /\ file # Absent => content'[file] = content[file]
      /\ Readable' <=> Readable
  BY <1>1, <1>2 DEF FileIInv, FileTypeOK, Contents, Names, Readable
<1>4. \A q \in Processes : InSet(q)' <=> InSet(q)
  BY DEF InSet, FileIInv, FileTypeOK
<1>5. FileTypeOK'
  BY <1>1, <1>2, <1>3 DEF FileIInv, FileTypeOK, Names
<1>6. Descriptors'
  BY <1>1, <1>2, <1>4, MapFacts DEF FileIInv, FileTypeOK, Descriptors
<1>7. CleanSet'
  <2> SUFFICES ASSUME NEW q \in clean PROVE OnItsOwn(q)'
    BY DEF CleanSet
  <2>1. q = p
    BY AloneFact DEF FileIInv, FileTypeOK, CleanSet, OnItsOwn, InSet
  <2>2. Progress(q)'
    BY <1>2, <1>3, <2>1 DEF FileIInv, FileTypeOK, Progress
  <2> QED
    BY <1>4, <2>1, <2>2 DEF FileIInv, CleanSet, OnItsOwn, Alone
<1>8. Overlap' /\ BeforeFile' /\ FileIntact' /\ UpdatesKept'
  BY <1>3, <1>4 DEF FileIInv, Overlap, BeforeFile, FileIntact, UpdatesKept, Readable
<1>9. GetsLatest'
  BY DEF FileIInv, FileTypeOK, GetsLatest
<1> QED
  BY <1>5, <1>6, <1>7, <1>8, <1>9 DEF FileIInv

\* The map is written, over the map of another Set perhaps as a mixture.
LEMMA WriteStep ==
  ASSUME FileIInv, NEW p \in Processes, Write(p)
  PROVE  FileIInv'
<1> USE DEF Write
<1>1. fd[p] \in Inodes
  BY DEF FileIInv, FileTypeOK, Descriptors, Names
<1>2. PICK c : /\ content' = [content EXCEPT ![fd[p]] = c]
               /\ c \in {store[p]} \union (IF content[fd[p]] = Empty THEN {} ELSE {Torn})
  BY Zenon
<1>3. c \in Contents /\ content' \in [Inodes -> Contents]
  BY <1>1, <1>2 DEF FileIInv, FileTypeOK, Contents
<1>4. \A q \in Processes : InSet(q)' <=> InSet(q)
  BY DEF InSet, FileIInv, FileTypeOK
<1>5. FileTypeOK'
  BY <1>3 DEF FileIInv, FileTypeOK, Names
<1>6. Descriptors'
  BY <1>4 DEF FileIInv, FileTypeOK, Descriptors
<1>7. p \in clean => fd[p] = tmp /\ content[tmp] = Empty
  BY DEF FileIInv, CleanSet, OnItsOwn, Progress
<1>8. CleanSet'
  <2> SUFFICES ASSUME NEW q \in clean PROVE OnItsOwn(q)'
    BY DEF CleanSet
  <2>1. q = p
    BY AloneFact DEF FileIInv, FileTypeOK, CleanSet, OnItsOwn, InSet
  <2>2. Progress(q)'
    BY <1>1, <1>2, <1>7, <2>1, MapFacts DEF FileIInv, FileTypeOK, Progress
  <2> QED
    BY <1>4, <2>1, <2>2 DEF FileIInv, CleanSet, OnItsOwn, Alone
<1>9. Overlap' /\ BeforeFile'
  BY <1>4 DEF FileIInv, Overlap, BeforeFile
<1>10. FileIntact' /\ UpdatesKept'
  <2>1. CASE mixed
    BY <1>3, <2>1, MapFacts DEF FileIInv, Overlap, FileIntact, UpdatesKept, Readable, Anything, Maps
  <2>2. CASE ~mixed
    <3>1. p \in clean
      BY <2>2 DEF FileIInv, Overlap, InSet
    <3>2. file # Absent => content'[file] = content[file]
      BY <1>1, <1>2, <1>7, <3>1 DEF FileIInv, FileTypeOK, Descriptors, Names
    <3> QED
      BY <3>2 DEF FileIInv, FileIntact, UpdatesKept, Readable
  <2> QED
    BY <2>1, <2>2 DEF FileIInv, FileTypeOK
<1>11. GetsLatest'
  BY DEF FileIInv, FileTypeOK, GetsLatest
<1> QED
  BY <1>5, <1>6, <1>8, <1>9, <1>10, <1>11 DEF FileIInv

-----------------------------------------------------------------------------
\* While p is in a Set no other process is in a Set of its own.
LEMMA OnlyCleanSet ==
  ASSUME FileIInv, NEW p \in Processes, InSet(p)
  PROVE  /\ clean \subseteq {p}
         /\ p \notin clean => mixed /\ \A k \in Keys : accept[k] = Anything
<1>1. \A q \in clean : q = p
  BY AloneFact DEF FileIInv, FileTypeOK, CleanSet, OnItsOwn
<1> QED
  BY <1>1 DEF FileIInv, Overlap

\* Set returns, whatever it has done to the files: what is kept in memory
\* and what the file may hold still agree.
LEMMA ReturnStep ==
  ASSUME FileIInv, NEW p \in Processes, InSet(p), NEW replaced \in BOOLEAN, Returns(p, replaced),
         UNCHANGED store, content' \in [Inodes -> Contents], file' \in Names, tmp' \in Names,
         file' # Absent => file' # tmp',
         file' = Absent => file = Absent /\ ~replaced
  PROVE  /\ FileTypeOK' /\ Descriptors' /\ CleanSet' /\ Overlap' /\ BeforeFile' /\ GetsLatest'
         /\ p \notin clean => mixed' /\ \A j \in Keys : accept'[j] = Anything
         /\ \A j \in Keys : p \in clean => store[p][j] \in accept'[j]
<1> DEFINE k == sets[p].key
<1>1. k \in Keys /\ sets[p].value \in Values
  BY DEF FileIInv, Descriptors
<1>2. clean' = {} /\ clean \subseteq {p}
  BY OnlyCleanSet DEF Returns
<1>3. /\ pc' = [pc EXCEPT ![p] = "idle"] /\ sets' = [sets EXCEPT ![p] = NoSet]
      /\ fd' = [fd EXCEPT ![p] = Absent]
      /\ behind' = [q \in Processes |-> IF q = p THEN {} ELSE behind[q] \union {k}]
  BY DEF Returns
<1>4. CASE ~(replaced /\ p \in clean)
  <2>1. accept' = accept /\ mixed' = mixed
    BY <1>4 DEF Returns
  <2>2. FileTypeOK'
    BY <1>1, <1>2, <1>3, <2>1 DEF FileIInv, FileTypeOK, Names
  <2>3. Descriptors' /\ CleanSet'
    BY <1>2, <1>3 DEF FileIInv, FileTypeOK, Descriptors, CleanSet, InSet
  <2>4. Overlap'
    <3>1. \A q \in Processes : InSet(q)' => q # p /\ InSet(q)
      BY <1>3 DEF FileIInv, FileTypeOK, InSet
    <3>2. \A q \in Processes : InSet(q)' => mixed
      BY <1>2, <3>1 DEF FileIInv, Overlap
    <3> QED
      BY <2>1, <3>2 DEF FileIInv, Overlap
  <2>5. BeforeFile'
    BY <2>1 DEF FileIInv, BeforeFile
  <2>6. \A j \in Keys : store[p][j] \in accept[j]
    <3>1. CASE p \in clean
      BY <3>1 DEF FileIInv, CleanSet, OnItsOwn
    <3>2. CASE p \notin clean
      BY <3>2, OnlyCleanSet DEF FileIInv, FileTypeOK, Maps, Anything
    <3> QED
      BY <3>1, <3>2
  <2>7. GetsLatest'
    BY <1>3, <2>1, <2>6 DEF FileIInv, FileTypeOK, GetsLatest
  <2> QED
    BY <2>1, <2>2, <2>3, <2>4, <2>5, <2>6, <2>7, OnlyCleanSet
<1>5. CASE replaced /\ p \in clean
  <2>1. accept' = [accept EXCEPT ![k] = {sets[p].value}] /\ mixed' = FALSE
    BY <1>5 DEF Returns
  <2>2. accept' \in [Keys -> SUBSET Anything]
    BY <1>1, <2>1 DEF FileIInv, FileTypeOK, Anything
  <2>3. FileTypeOK'
    BY <1>1, <1>2, <1>3, <2>1, <2>2 DEF FileIInv, FileTypeOK, Names
  <2>4. Descriptors' /\ CleanSet'
    BY <1>2, <1>3 DEF FileIInv, FileTypeOK, Descriptors, CleanSet, InSet
  <2>5. Overlap' /\ BeforeFile'
    <3>1. \A q \in Processes : ~InSet(q)'
      BY <1>3, <1>5 DEF FileIInv, FileTypeOK, InSet, CleanSet, OnItsOwn, Alone
    <3> QED
      BY <1>5, <2>1, <3>1 DEF Overlap, BeforeFile
  <2>6. \A j \in Keys : store[p][j] \in accept'[j]
    BY <1>1, <1>5, <2>1 DEF FileIInv, FileTypeOK, CleanSet, OnItsOwn
  <2>7. GetsLatest'
    <3> SUFFICES ASSUME NEW q \in Processes, NEW j \in Keys, pc'[q] # "down", j \notin behind'[q]
                 PROVE  store[q][j] \in accept'[j]
      BY DEF GetsLatest
    <3>1. CASE q = p
      BY <2>6, <3>1
    <3>2. CASE q # p
      <4>1. j # k /\ j \notin behind[q] /\ pc[q] # "down"
        BY <1>3, <3>2 DEF FileIInv, FileTypeOK
      <4>2. accept'[j] = accept[j]
        BY <2>1, <4>1 DEF FileIInv, FileTypeOK
      <4> QED
        BY <4>1, <4>2 DEF FileIInv, GetsLatest
    <3> QED
      BY <3>1, <3>2
  <2> QED
    BY <1>5, <2>3, <2>4, <2>5, <2>6, <2>7
<1> QED
  BY <1>4, <1>5

\* The temporary file takes the name of the file.
LEMMA RenameStep ==
  ASSUME FileIInv, NEW p \in Processes, Rename(p)
  PROVE  FileIInv'
<1> USE DEF Rename
<1>1. InSet(p) /\ Returns(p, tmp # Absent)
  BY DEF InSet
<1>2. CASE tmp = Absent
  <2>1. UNCHANGED <<content, file, tmp>>
    BY <1>2
  <2>2. p \notin clean
    BY <1>2 DEF FileIInv, CleanSet, OnItsOwn, Progress
  <2>3. /\ FileTypeOK' /\ Descriptors' /\ CleanSet' /\ Overlap' /\ BeforeFile' /\ GetsLatest'
        /\ mixed' /\ \A j \in Keys : accept'[j] = Anything
    <3>1. Returns(p, FALSE)
      BY <1>1, <1>2
    <3>2. /\ UNCHANGED store /\ content' \in [Inodes -> Contents] /\ file' \in Names
          /\ tmp' \in Names /\ (file' # Absent => file' # tmp')
      BY <2>1 DEF FileIInv, FileTypeOK, Descriptors
    <3> QED
      BY <1>1, <2>1, <2>2, <3>1, <3>2, ReturnStep
  <2>4. FileIntact' /\ UpdatesKept'
    BY <2>1, <2>3 DEF FileIInv, FileTypeOK, FileIntact, UpdatesKept, Readable, Maps, Anything
  <2> QED
    BY <2>3, <2>4 DEF FileIInv
<1>3. CASE tmp # Absent
  <2>1. /\ file' = tmp /\ tmp' = Absent /\ tmp \in Inodes /\ tmp # file
        /\ content' \in [Inodes -> Contents] /\ content'[tmp] = content[tmp]
    BY <1>3, MapFacts DEF FileIInv, FileTypeOK, Descriptors, Contents, Names
  <2>2. /\ FileTypeOK' /\ Descriptors' /\ CleanSet' /\ Overlap' /\ BeforeFile' /\ GetsLatest'
        /\ p \notin clean => mixed' /\ \A j \in Keys : accept'[j] = Anything
        /\ \A j \in Keys : p \in clean => store[p][j] \in accept'[j]
    <3>1. Returns(p, TRUE)
      BY <1>1, <1>3
    <3>2. UNCHANGED store /\ file' \in Names /\ tmp' \in Names
      BY <2>1 DEF Names
    <3> QED
      BY <1>1, <1>3, <2>1, <3>1, <3>2, ReturnStep
  <2>3. FileIntact' /\ UpdatesKept'
    <3>1. CASE p \notin clean
      BY <2>1, <2>2, <3>1 DEF FileIntact, UpdatesKept, Readable, Maps, Anything
    <3>2. CASE p \in clean
      <4>1. content'[file'] = store[p]
        BY <2>1, <3>2 DEF FileIInv, CleanSet, OnItsOwn, Progress
      <4>2. store[p] \in Maps
        BY DEF FileIInv, FileTypeOK
      <4> QED
        BY <1>3, <2>1, <2>2, <3>2, <4>1, <4>2 DEF FileIntact, UpdatesKept, Readable
    <3> QED
      BY <3>1, <3>2
  <2> QED
    BY <2>2, <2>3 DEF FileIInv
<1> QED
  BY <1>2, <1>3

\* A write that fails or is cut short spoils the temporary file at most,
\* unless another Set is under way too.
LEMMA TornWrite ==
  ASSUME FileIInv, NEW p \in Processes,
         \/ UNCHANGED content
         \/ pc[p] = "write" /\ content' = [content EXCEPT ![fd[p]] = Torn]
  PROVE  /\ content' \in [Inodes -> Contents]
         /\ ~mixed /\ file # Absent => content'[file] = content[file]
<1>1. CASE UNCHANGED content
  BY <1>1 DEF FileIInv, FileTypeOK
<1>2. CASE pc[p] = "write" /\ content' = [content EXCEPT ![fd[p]] = Torn]
  <2>1. fd[p] \in Inodes
    BY <1>2 DEF FileIInv, FileTypeOK, Descriptors, Names
  <2>2. ~mixed => p \in clean
    BY <1>2 DEF FileIInv, Overlap, InSet
  <2>3. ~mixed => fd[p] = tmp
    BY <1>2, <2>2 DEF FileIInv, CleanSet, OnItsOwn, Progress
  <2> QED
    BY <1>2, <2>1, <2>3 DEF FileIInv, FileTypeOK, Descriptors, Contents
<1> QED
  BY <1>1, <1>2

\* Set drops the errors of the file system.
LEMMA WriteFailsStep ==
  ASSUME FileIInv, NEW p \in Processes, WriteFails(p)
  PROVE  FileIInv'
<1> USE DEF WriteFails
<1>1. /\ content' \in [Inodes -> Contents]
      /\ ~mixed /\ file # Absent => content'[file] = content[file]
  BY TornWrite
<1>2. /\ FileTypeOK' /\ Descriptors' /\ CleanSet' /\ Overlap' /\ BeforeFile' /\ GetsLatest'
      /\ p \notin clean => mixed' /\ \A j \in Keys : accept'[j] = Anything
  <2>1. InSet(p) /\ Returns(p, FALSE) /\ UNCHANGED store /\ UNCHANGED <<file, tmp>>
    OBVIOUS
  <2>2. file' \in Names /\ tmp' \in Names /\ (file' # Absent => file' # tmp')
    BY <2>1 DEF FileIInv, FileTypeOK, Descriptors
  <2> QED
    BY <1>1, <2>1, <2>2, ReturnStep
<1>3. FileIntact' /\ UpdatesKept'
  <2>1. CASE mixed
    <3>1. mixed' /\ accept' = accept /\ \A j \in Keys : accept[j] = Anything
      BY <2>1 DEF Returns, FileIInv, Overlap
    <3> QED
      BY <1>1, <3>1 DEF FileIntact, UpdatesKept, Readable, Maps, Anything
  <2>2. CASE ~mixed
    BY <1>1, <2>2 DEF Returns, FileIInv, FileIntact, UpdatesKept, Readable
  <2> QED
    BY <2>1, <2>2
<1> QED
  BY <1>2, <1>3 DEF FileIInv

\* The process ends; what it had set stays acceptable.
LEMMA CrashStep ==
  ASSUME FileIInv, NEW p \in Processes, Crash(p)
  PROVE  FileIInv'
<1> USE DEF Crash
<1>1. /\ content' \in [Inodes -> Contents]
      /\ ~mixed /\ file # Absent => content'[file] = content[file]
  BY TornWrite
<1>2. FileTypeOK'
  BY <1>1, MapFacts DEF FileIInv, FileTypeOK, Names
<1>3. \A q \in Processes : InSet(q)' <=> q # p /\ InSet(q)
  BY DEF FileIInv, FileTypeOK, InSet
<1>4. Descriptors'
  BY <1>3 DEF FileIInv, FileTypeOK, Descriptors
<1>5. CleanSet'
  <2> SUFFICES ASSUME NEW q \in clean, q # p PROVE OnItsOwn(q)'
    BY DEF CleanSet
  <2>1. q \in Processes /\ ~InSet(p) /\ pc[p] # "write"
    BY DEF FileIInv, FileTypeOK, CleanSet, OnItsOwn, Alone, InSet
  <2>2. /\ content' = content /\ store'[q] = store[q] /\ pc'[q] = pc[q]
        /\ fd'[q] = fd[q] /\ sets'[q] = sets[q]
    BY <2>1 DEF FileIInv, FileTypeOK
  <2> QED
    BY <1>3, <2>1, <2>2 DEF FileIInv, CleanSet, OnItsOwn, Alone, Progress
<1>6. Overlap'
  BY <1>3 DEF FileIInv, Overlap
<1>7. BeforeFile'
  BY DEF FileIInv, FileTypeOK, BeforeFile, UpdatesKept, NoEntries
<1>8. FileIntact' /\ UpdatesKept'
  <2>1. CASE mixed
    <3>1. mixed' /\ accept' = accept /\ \A j \in Keys : accept[j] = Anything
      BY <2>1 DEF FileIInv, Overlap
    <3> QED
      BY <1>1, <3>1 DEF FileIntact, UpdatesKept, Readable, Maps, Anything
  <2>2. CASE ~mixed
    BY <1>1, <2>2 DEF FileIInv, FileIntact, UpdatesKept, Readable
  <2> QED
    BY <2>1, <2>2
<1>9. GetsLatest'
  BY DEF FileIInv, FileTypeOK, GetsLatest
<1> QED
  BY <1>2, <1>4, <1>5, <1>6, <1>7, <1>8, <1>9 DEF FileIInv

-----------------------------------------------------------------------------
LEMMA FileIInvNext == FileIInv /\ [FileNext]_fileVars => FileIInv'
<1> SUFFICES ASSUME FileIInv, [FileNext]_fileVars PROVE FileIInv'
  OBVIOUS
<1>1. CASE UNCHANGED fileVars
  BY <1>1 DEF fileVars, FileIInv, FileTypeOK, Descriptors, CleanSet, OnItsOwn, Progress, Alone, InSet,
              Overlap, BeforeFile, FileIntact, UpdatesKept, GetsLatest, Readable
<1>2. ASSUME NEW p \in Processes, NewFileCacheDevice(p) PROVE FileIInv'
  BY <1>2, NewDeviceStep
<1>3. ASSUME NEW p \in Processes, NEW k \in Keys, NEW v \in Values, Set(p, k, v) PROVE FileIInv'
  BY <1>3, SetStep
<1>4. ASSUME NEW p \in Processes, OpenForWriting(p) PROVE FileIInv'
  BY <1>4, OpenStep
<1>5. ASSUME NEW p \in Processes, Write(p) PROVE FileIInv'
  BY <1>5, WriteStep
<1>6. ASSUME NEW p \in Processes, Rename(p) PROVE FileIInv'
  BY <1>6, RenameStep
<1>7. ASSUME NEW p \in Processes, WriteFails(p) PROVE FileIInv'
  BY <1>7, WriteFailsStep
<1>8. ASSUME NEW p \in Processes, Crash(p) PROVE FileIInv'
  BY <1>8, CrashStep
<1> QED
  BY <1>1, <1>2, <1>3, <1>4, <1>5, <1>6, <1>7, <1>8 DEF FileNext

\* In every reachable state each file holds a map, nothing yet, or what no
\* reader can parse, and each process has at most one descriptor, which it has
\* while it writes (writeFileLocked).
THEOREM FileTypeCorrect == FileSpec => [](FileTypeOK /\ Descriptors)
<1>1. FileIInv => FileTypeOK /\ Descriptors
  BY DEF FileIInv
<1> QED
  BY <1>1, FileIInvInit, FileIInvNext, PTL DEF FileSpec

\* writeFileLocked replaces the file as a whole: wherever any number of
\* processes end or fail, the file can be parsed unless Sets have overlapped
\* and none has been on its own since.
THEOREM FileIntactAlways == FileSpec => []FileIntact
<1>1. FileIInv => FileIntact
  BY DEF FileIInv
<1> QED
  BY <1>1, FileIInvInit, FileIInvNext, PTL DEF FileSpec

\* Set reads the file before it changes its key: it never undoes what another
\* process has set for any other key, however often processes restart.
THEOREM UpdatesKeptAlways == FileSpec => []UpdatesKept
<1>1. FileIInv => UpdatesKept
  BY DEF FileIInv
<1> QED
  BY <1>1, FileIInvInit, FileIInvNext, PTL DEF FileSpec

\* Get answers from memory with the last value set for its key, as long as no
\* other process has set it since this one last read the file.
THEOREM GetsLatestAlways == FileSpec => []GetsLatest
<1>1. FileIInv => GetsLatest
  BY DEF FileIInv
<1> QED
  BY <1>1, FileIInvInit, FileIInvNext, PTL DEF FileSpec

-----------------------------------------------------------------------------
(***************************************************************************)
(* Proofs about CommitmentsSnapshot for any tree, any commitments, also    *)
(* ones that share an output, and any number of reorganisations.           *)
(*                                                                         *)
(* OutputsExact speaks of a service that has caught up only.  The          *)
(* inductive invariant says what holds before: the events handed over are  *)
(* in their leaves, and every output in the list has an owner, a known     *)
(* commitment that a client still has in a leaf and a server on the chain. *)
(* A client loses the output of a replaced leaf and the commitment with    *)
(* it, so what is left keeps its owner; a server replaces nothing.  The    *)
(* same is said of the stored snapshot.  Rehashing is a recursive function *)
(* of the level: a least counterexample shows that it writes one leaf.     *)
(***************************************************************************)
HIDE FileCacheAssumption
USE CommitmentsAssumption

LEMMA LeastNumber ==
  ASSUME NEW S \in SUBSET Nat, S # {}
  PROVE  \E n \in S : \A m \in S : n <= m
<1>1. PICK n \in S : \A m \in S : <<m, n>> \notin OpToRel(<, Nat)
  BY NatLessThanWellFounded, WFMin
<1>2. \A m \in S : ~(m < n)
  BY <1>1 DEF OpToRel
<1> QED
  BY <1>2

\* 2 ^ n is the number of subsets of 1 .. n.
LEMMA Powers ==
  ASSUME NEW n \in Nat
  PROVE  /\ 2 ^ n \in Nat \ {0}
         /\ n > 0 => 2 ^ n >= 2
<1>1. /\ IsFiniteSet(1 .. n) /\ Cardinality(1 .. n) = n
  BY FS_Interval
<1>2. /\ IsFiniteSet(SUBSET (1 .. n)) /\ Cardinality(SUBSET (1 .. n)) = 2 ^ n
  BY <1>1, FS_SUBSET
<1>3. 2 ^ n \in Nat
  BY <1>2, FS_CardinalityType
<1>4. 2 ^ n # 0
  BY <1>2, FS_EmptySet
<1>5. ASSUME n > 0 PROVE 2 ^ n >= 2
  <2>1. 1 \in 1 .. n /\ {{}, {1}} \subseteq SUBSET (1 .. n)
    BY <1>5
  <2>2. IsFiniteSet({{}, {1}}) /\ Cardinality({{}, {1}}) = 2
    <3> DEFINE T == {{1}}
    <3>1. IsFiniteSet(T) /\ Cardinality(T) = 1 /\ {} \notin T
      BY FS_Singleton
    <3>2. {{}, {1}} = T \cup {{}}
      OBVIOUS
    <3> HIDE DEF T
    <3>3. IsFiniteSet(T \cup {{}}) /\ Cardinality(T \cup {{}}) = Cardinality(T) + 1
      BY <3>1, FS_AddElement
    <3> DEFINE U == T \cup {{}}
    <3>4. IsFiniteSet(U) /\ Cardinality(U) = Cardinality(T) + 1
      BY <3>3
    <3> HIDE DEF U
    <3>5. Cardinality(U) = 2
      BY <3>1, <3>4
    <3> QED
      BY <3>2, <3>4, <3>5 DEF U
  <2> QED
    BY <1>2, <2>1, <2>2, FS_Subset
<1> QED
  BY <1>3, <1>4, <1>5

LEMMA StartIndex == GetStartIndex \in Nat /\ MaxLeaves \in Nat \ {0} /\ MaxLeaves <= GetStartIndex
<1>1. Levels - 1 \in Nat
  OBVIOUS
<1>2. 2 ^ (Levels - 1) \in Nat
  BY <1>1, Powers
<1> QED
  BY <1>2 DEF GetStartIndex

\* The height of a tree of so many leaves.
LEMMA Height ==
  ASSUME NEW n \in Nat, n <= MaxLeaves
  PROVE  Logarithm2(n) \in 0 .. Levels
<1> DEFINE P == {p \in 0 .. Levels : 2 ^ p >= n}
<1>1. Levels - 1 \in P
  BY StartIndex DEF GetStartIndex
<1>2. PICK p \in P : \A q \in P : p <= q
  <2>1. P # {}
    BY <1>1
  <2>2. P \subseteq 0 .. Levels
    OBVIOUS
  <2> HIDE DEF P
  <2>3. P \in SUBSET Nat
    BY <2>2
  <2> QED
    BY <2>1, <2>3, LeastNumber
<1>3. ASSUME p > 0 PROVE 2 ^ (p - 1) < n
  <2>1. p - 1 \in 0 .. Levels /\ p - 1 \notin P
    BY <1>2, <1>3
  <2>2. 2 ^ (p - 1) \in Nat
    BY <2>1, Powers
  <2> QED
    BY <2>1, <2>2
<1>4. \E q \in 0 .. Levels : 2 ^ q >= n /\ (q > 0 => 2 ^ (q - 1) < n)
  BY <1>2, <1>3
<1>5. CASE n <= 0
  BY <1>5 DEF Logarithm2
<1>6. CASE ~(n <= 0)
  BY <1>4, <1>6, Zenon DEF Logarithm2
<1> QED
  BY <1>5, <1>6

\* The nodes above a leaf are no leaves.
LEMMA AboveLeaf ==
  ASSUME NEW i \in 1 .. MaxLeaves, NEW h \in 1 .. Levels
  PROVE  Leaf(i) \div 2 ^ h \in Int /\ Leaf(i) \div 2 ^ h < GetStartIndex
<1> DEFINE d == 2 ^ h
           k == Leaf(i)
           q == k \div d
<1>1. d \in Nat /\ d >= 2
  BY Powers
<1>2. k \in Nat /\ k < 2 * GetStartIndex
  BY StartIndex DEF Leaf
<1> HIDE DEF d, k
<1>3. q \in Int /\ d * q <= k /\ q >= 0
  BY <1>1, <1>2
<1> HIDE DEF q
<1>4. ASSUME q >= GetStartIndex PROVE FALSE
  <2>1. d * q >= 2 * q
    BY <1>1, <1>3
  <2>2. 2 * q >= 2 * GetStartIndex
    BY <1>3, <1>4, StartIndex
  <2>3. d * q \in Int /\ 2 * q \in Int /\ 2 * GetStartIndex \in Int
    BY <1>1, <1>3, StartIndex
  <2> HIDE DEF q
  <2> QED
    BY <1>2, <1>3, <2>1, <2>2, <2>3
<1> QED
  BY <1>3, <1>4, StartIndex DEF d, k, q
-----------------------------------------------------------------------------
\* rehash of ForceInsert, for the leaf and nodes of leaf number k.
Rehashing(f, tree, value, k, n) ==
  f = [h \in 0 .. n |-> IF h = 0 THEN Put(tree, k, value)
                        ELSE Parent(f[h - 1], k \div 2 ^ h)]

LEMMA RehashExists ==
  ASSUME NEW tree, NEW value, NEW k, NEW n \in Nat
  PROVE  \E f : Rehashing(f, tree, value, k, n)
<1> DEFINE Bad == {m \in Nat : ~\E f : Rehashing(f, tree, value, k, m)}
<1>1. SUFFICES ASSUME Bad # {} PROVE FALSE
  OBVIOUS
<1>2. PICK m \in Bad : \A x \in Bad : m <= x
  <2>1. Bad \in SUBSET Nat
    OBVIOUS
  <2> HIDE DEF Bad
  <2> QED
    BY <1>1, <2>1, LeastNumber
<1>3. m # 0
  <2>1. Rehashing([h \in 0 .. 0 |-> Put(tree, k, value)], tree, value, k, 0)
    BY DEF Rehashing
  <2> QED
    BY <2>1
<1>4. PICK f : Rehashing(f, tree, value, k, m - 1)
  BY <1>2, <1>3
<1> DEFINE g == [h \in 0 .. m |-> IF h = m THEN Parent(f[m - 1], k \div 2 ^ m) ELSE f[h]]
<1>5. Rehashing(g, tree, value, k, m)
  <2>1. \A h \in 0 .. m - 1 :
          f[h] = IF h = 0 THEN Put(tree, k, value) ELSE Parent(f[h - 1], k \div 2 ^ h)
    BY <1>4 DEF Rehashing
  <2>2. ASSUME NEW h \in 0 .. m
        PROVE  g[h] = IF h = 0 THEN Put(tree, k, value) ELSE Parent(g[h - 1], k \div 2 ^ h)
    <3>1. CASE h = m
      BY <1>2, <1>3, <3>1
    <3>2. CASE h # m
      <4>1. h \in 0 .. m - 1 /\ g[h] = f[h] /\ (h # 0 => g[h - 1] = f[h - 1])
        BY <1>2, <3>2
      <4> QED
        BY <2>1, <4>1
    <3> QED
      BY <3>1, <3>2
  <2>3. g = [h \in 0 .. m |-> g[h]]
    OBVIOUS
  <2> HIDE DEF g
  <2> QED
    BY <2>2, <2>3 DEF Rehashing
<1> QED
  BY <1>2, <1>5

\* Of the leaves only number i is another one in new, and it is value.
OneLeaf(new, old, i, value) ==
  \A j \in Nat \ {0} :
    /\ Leaf(j) \in DOMAIN new <=> j = i \/ Leaf(j) \in DOMAIN old
    /\ j = i => new[Leaf(j)] = value
    /\ j # i /\ Leaf(j) \in DOMAIN old => new[Leaf(j)] = old[Leaf(j)]

\* Rehashing changes one leaf.
LEMMA RehashLeaves ==
  ASSUME NEW tree, NEW value, NEW i \in 1 .. MaxLeaves,
         NEW f, Rehashing(f, tree, value, Leaf(i), Levels)
  PROVE  \A h \in 0 .. Levels : OneLeaf(f[h], tree, i, value)
<1> DEFINE Good(h) == OneLeaf(f[h], tree, i, value)
           Bad == {h \in 0 .. Levels : ~Good(h)}
<1>1. \A j \in Nat \ {0} : Leaf(j) \in Nat /\ Leaf(j) >= GetStartIndex /\ (Leaf(j) = Leaf(i) => j = i)
  BY StartIndex DEF Leaf
<1>2. SUFFICES ASSUME Bad # {} PROVE FALSE
  OBVIOUS
<1>3. PICK h \in Bad : \A x \in Bad : h <= x
  <2>1. Bad \in SUBSET Nat
    OBVIOUS
  <2> HIDE DEF Bad
  <2> QED
    BY <1>2, <2>1, LeastNumber
<1>4. f[0] = Put(tree, Leaf(i), value)
  BY DEF Rehashing
<1>5. Good(0)
  BY <1>1, <1>4 DEF Put, OneLeaf
<1>6. h # 0 /\ h \in 1 .. Levels /\ h - 1 \in 0 .. Levels /\ h \in 0 .. Levels
  BY <1>3, <1>5
<1>7. Good(h - 1)
  BY <1>3, <1>6
<1> DEFINE n == Leaf(i) \div 2 ^ h
<1>8. f[h] = Parent(f[h - 1], n)
  BY <1>6 DEF Rehashing
<1>9. n \in Int /\ n < GetStartIndex
  BY <1>6, AboveLeaf
<1> HIDE DEF n
<1>10. \A j \in Nat \ {0} : Leaf(j) # n
  BY <1>1, <1>9, StartIndex
<1>11. \A x : /\ x \in DOMAIN f[h] <=> x = n \/ x \in DOMAIN f[h - 1]
              /\ x # n /\ x \in DOMAIN f[h - 1] => f[h][x] = f[h - 1][x]
  BY <1>8 DEF Parent, Put
<1>12. Good(h)
  BY <1>1, <1>7, <1>10, <1>11 DEF OneLeaf
<1> QED
  BY <1>3, <1>12

\* Leaf number i of a tree.
At(m, i) == Leaf(i) \in DOMAIN m.tree

\* The leaves are the first count ones, with no gap, and index follows them.
TreeOK(m) ==
  /\ m.count \in 0 .. MaxLeaves /\ m.index = GetStartIndex + m.count
  /\ DOMAIN m = {"tree", "reverseTree", "count", "index"}
  /\ \A i \in Nat \ {0} : At(m, i) <=> i <= m.count
  /\ \A i \in Nat \ {0} : At(m, i) => m.tree[Leaf(i)] \in Commitments

\* Insert writes one leaf and makes room for it.
LEMMA Inserted ==
  ASSUME NEW m, TreeOK(m), NEW c \in Commitments, NEW i \in 1 .. MaxLeaves,
         i <= m.count + 1, NEW t, t = Insert(m, c, Leaf(i))
  PROVE  /\ TreeOK(t)
         /\ OneLeaf(t.tree, m.tree, i, c)
<1> DEFINE x == IF Leaf(i) + 1 > m.index THEN Leaf(i) + 1 ELSE m.index
           w == [m EXCEPT !.count = CountWith(m, Leaf(i)), !.index = x]
           H == Logarithm2(x - GetStartIndex)
<1>1. Leaf(i) = GetStartIndex + i - 1 /\ x \in Nat /\ x > Leaf(i) /\ x >= m.index
      /\ x - GetStartIndex \in Nat /\ x - GetStartIndex <= MaxLeaves
      /\ m.count \in Nat /\ x = GetStartIndex + IF i <= m.count THEN m.count ELSE m.count + 1
  BY StartIndex DEF TreeOK, Leaf
<1>2. H \in 0 .. Levels
  <2> HIDE DEF x
  <2> QED
    BY <1>1, Height
<1>3. /\ w.tree = m.tree /\ w.index = x /\ w.count = CountWith(m, Leaf(i))
      /\ DOMAIN w = {"tree", "reverseTree", "count", "index"}
  BY DEF TreeOK
<1>4. t = ForceInsert(w, c, Leaf(i))
  BY DEF Insert
<1>5. PICK f : Rehashing(f, m.tree, c, Leaf(i), Levels) /\ t.tree = f[H]
  <2> HIDE DEF w
  <2>1. \E f : Rehashing(f, w.tree, c, Leaf(i), Levels)
    BY RehashExists
  <2>2. \E f : Rehashing(f, w.tree, c, Leaf(i), Levels)
               /\ t.tree = f[Logarithm2(w.index - GetStartIndex)]
    BY <1>3, <1>4, <2>1 DEF ForceInsert, Rehashing
  <2> QED
    BY <1>3, <2>2
<1>6. t.index = x /\ t.count = CountWith(m, Leaf(i))
      /\ DOMAIN t = {"tree", "reverseTree", "count", "index"}
  <2> HIDE DEF w, H
  <2> QED
    BY <1>3, <1>4 DEF ForceInsert
<1> HIDE DEF w, H, x
<1>7. OneLeaf(t.tree, m.tree, i, c)
  <2>1. \A h \in 0 .. Levels : OneLeaf(f[h], m.tree, i, c)
    BY <1>5, RehashLeaves
  <2> QED
    BY <1>2, <1>5, <2>1
<1>8. TreeOK(t)
  <2>1. t.count = IF i <= m.count THEN m.count ELSE m.count + 1
    BY <1>6 DEF CountWith, HasValue, TreeOK, At
  <2>2. t.count \in 0 .. MaxLeaves /\ t.index = GetStartIndex + t.count
    <3>1. CASE i <= m.count
      BY <1>1, <1>6, <2>1, <3>1 DEF TreeOK
    <3>2. CASE ~(i <= m.count)
      <4>1. i = m.count + 1 /\ t.count = i
        BY <1>1, <2>1, <3>2
      <4> QED
        BY <1>1, <1>6, <3>2, <4>1
    <3> QED
      BY <3>1, <3>2
  <2>3. i <= t.count /\ \A j \in Nat : j # i => (j <= t.count <=> j <= m.count)
    BY <1>1, <2>1
  <2>4. \A j \in Nat \ {0} : At(t, j) <=> j = i \/ At(m, j)
    BY <1>7 DEF At, OneLeaf
  <2>5. \A j \in Nat \ {0} : At(t, j) <=> j <= t.count
    BY <2>3, <2>4 DEF TreeOK
  <2>6. \A j \in Nat \ {0} : At(t, j) => t.tree[Leaf(j)] \in Commitments
    BY <1>7, <2>4 DEF At, OneLeaf, TreeOK
  <2> QED
    BY <1>6, <2>2, <2>5, <2>6 DEF TreeOK
<1> QED
  BY <1>7, <1>8
-----------------------------------------------------------------------------
(***************************************************************************)
(* The list of outputs.                                                    *)
(***************************************************************************)
Distinct(s) == \A i, j \in DOMAIN s : s[i] = s[j] => i = j

LEMMA WithoutFacts ==
  ASSUME NEW S, NEW s \in Seq(S), Distinct(s), NEW v
  PROVE  /\ Without(s, v) \in Seq(S)
         /\ Distinct(Without(s, v))
         /\ ToSet(Without(s, v)) = ToSet(s) \ {v}
<1> DEFINE hits == {i \in DOMAIN s : s[i] = v}
           r == Without(s, v)
<1>1. CASE hits = {}
  <2>1. r = s
    BY <1>1 DEF Without
  <2>2. v \notin ToSet(s)
    BY <1>1 DEF ToSet
  <2> QED
    BY <2>1, <2>2
<1>2. CASE hits # {}
  <2>1. PICK k \in hits : TRUE
    BY <1>2
  <2>2. \A i \in hits : i = k
    BY <2>1 DEF Distinct
  <2>3. k = CHOOSE i \in hits : \A j \in hits : i <= j
    BY <2>1, <2>2
  <2>4. r = SubSeq(s, 1, k - 1) \o SubSeq(s, k + 1, Len(s))
    BY <1>2, <2>3 DEF Without
  <2>5. k \in 1 .. Len(s) /\ Len(s) \in Nat /\ s[k] = v
    BY <2>1
  <2>6. /\ r \in Seq(S) /\ Len(r) = Len(s) - 1
        /\ \A i \in 1 .. Len(r) : r[i] = IF i < k THEN s[i] ELSE s[i + 1]
    <3>1. SubSeq(s, 1, k - 1) \in Seq(S) /\ Len(SubSeq(s, 1, k - 1)) = k - 1
          /\ \A i \in 1 .. k - 1 : SubSeq(s, 1, k - 1)[i] = s[i]
      BY <2>5
    <3>2. SubSeq(s, k + 1, Len(s)) \in Seq(S) /\ Len(SubSeq(s, k + 1, Len(s))) = Len(s) - k
          /\ \A i \in 1 .. Len(s) - k : SubSeq(s, k + 1, Len(s))[i] = s[k + i]
      BY <2>5
    <3> DEFINE a == SubSeq(s, 1, k - 1)
               b == SubSeq(s, k + 1, Len(s))
    <3>3. a \in Seq(S) /\ Len(a) = k - 1 /\ b \in Seq(S) /\ Len(b) = Len(s) - k
      BY <3>1, <3>2
    <3>4. r = a \o b
      BY <2>4
    <3>5. \A i \in 1 .. k - 1 : a[i] = s[i]
      BY <3>1
    <3>6. \A i \in 1 .. Len(s) - k : b[i] = s[k + i]
      BY <3>2
    <3> HIDE DEF a, b, r
    <3>7. r \in Seq(S) /\ Len(r) = Len(a) + Len(b)
          /\ \A i \in 1 .. Len(r) : r[i] = IF i <= Len(a) THEN a[i] ELSE b[i - Len(a)]
      <4>1. \A i \in 1 .. Len(a) + Len(b) :
              (a \o b)[i] = IF i <= Len(a) THEN a[i] ELSE b[i - Len(a)]
        BY <3>3
      <4>2. a \o b \in Seq(S) /\ Len(a \o b) = Len(a) + Len(b)
        BY <3>3, ConcatProperties
      <4> QED
        BY <3>4, <4>1, <4>2
    <3>8. Len(r) = Len(s) - 1
      BY <2>5, <3>3, <3>7
    <3>9. ASSUME NEW i \in 1 .. Len(r) PROVE r[i] = IF i < k THEN s[i] ELSE s[i + 1]
      <4>1. CASE i < k
        <5>1. i \in 1 .. k - 1 /\ i <= Len(a)
          BY <2>5, <3>3, <4>1
        <5> QED
          BY <3>5, <3>7, <4>1, <5>1
      <4>2. CASE ~(i < k)
        <5>1. i - Len(a) \in 1 .. Len(s) - k /\ ~(i <= Len(a)) /\ k + (i - Len(a)) = i + 1
          BY <2>5, <3>3, <3>8, <4>2
        <5> QED
          BY <3>6, <3>7, <4>2, <5>1
      <4> QED
        BY <4>1, <4>2
    <3> QED
      BY <3>7, <3>8, <3>9
  <2> DEFINE Old(i) == IF i < k THEN i ELSE i + 1
  <2>7. \A i \in DOMAIN r : Old(i) \in DOMAIN s /\ r[i] = s[Old(i)] /\ Old(i) # k
    BY <2>5, <2>6
  <2>8. \A i, j \in DOMAIN r : Old(i) = Old(j) => i = j
    BY <2>5, <2>6
  <2>9. \A m \in DOMAIN s : m # k => \E i \in DOMAIN r : Old(i) = m
    <3> TAKE m \in DOMAIN s
    <3>1. CASE m < k
      BY <2>5, <2>6, <3>1
    <3>2. CASE m > k
      <4>1. m - 1 \in DOMAIN r /\ Old(m - 1) = m
        BY <2>5, <2>6, <3>2
      <4> QED
        BY <4>1
    <3> QED
      BY <2>5, <3>1, <3>2
  <2> HIDE DEF r, Old
  <2>10. Distinct(r)
    BY <2>7, <2>8 DEF Distinct
  <2>11. ToSet(r) = ToSet(s) \ {v}
    <3>1. ASSUME NEW x \in ToSet(r) PROVE x \in ToSet(s) /\ x # v
      BY <2>2, <2>7, <3>1 DEF ToSet
    <3>2. ASSUME NEW x \in ToSet(s), x # v PROVE x \in ToSet(r)
      BY <2>5, <2>7, <2>9, <3>2 DEF ToSet
    <3> QED
      BY <3>1, <3>2
  <2> QED
    BY <2>6, <2>10, <2>11 DEF r
<1> QED
  BY <1>1, <1>2

LEMMA WithOutputFacts ==
  ASSUME NEW S, NEW s \in Seq(S), Distinct(s), NEW v \in S
  PROVE  /\ WithOutput(s, v) \in Seq(S)
         /\ Distinct(WithOutput(s, v))
         /\ ToSet(WithOutput(s, v)) = ToSet(s) \union {v}
<1>1. CASE v \in ToSet(s)
  BY <1>1 DEF WithOutput
<1>2. CASE v \notin ToSet(s)
  <2> DEFINE r == WithOutput(s, v)
  <2>1. r = Append(s, v)
    BY <1>2 DEF WithOutput
  <2>2. /\ r \in Seq(S) /\ Len(r) = Len(s) + 1 /\ r[Len(s) + 1] = v
        /\ \A i \in 1 .. Len(s) : r[i] = s[i]
        /\ Len(s) \in Nat
    BY <2>1
  <2> HIDE DEF r
  <2>3. \A i \in 1 .. Len(s) : s[i] # v
    BY <1>2 DEF ToSet
  <2>4. Distinct(r)
    BY <2>2, <2>3 DEF Distinct
  <2>5. ToSet(r) = ToSet(s) \union {v}
    BY <2>2 DEF ToSet
  <2> QED
    BY <2>2, <2>4, <2>5 DEF r
<1> QED
  BY <1>1, <1>2
-----------------------------------------------------------------------------
(***************************************************************************)
(* The invariant.  The first k events of chain ch are in tree m.           *)
(***************************************************************************)
Covered(m, ch, k) ==
  \A i \in 1 .. k : At(m, i) /\ m.tree[Leaf(i)] = ch[i]

\* Without a reorganisation the leaves are those of the chain.
SameLeaves(m, ch) ==
  \A i \in Nat \ {0} : At(m, i) => i <= Len(ch) /\ m.tree[Leaf(i)] = ch[i]

Known(by) == DOMAIN by \subseteq Commitments /\ \A c \in DOMAIN by : by[c] = OutputOf[c]

InTree(m, c) == \E i \in Nat \ {0} : At(m, i) /\ m.tree[Leaf(i)] = c

\* Every output in the list is that of a commitment which is known and, in a
\* server, on the chain, in a client a leaf of the tree.
Owned(server, m, ch, enc, by) ==
  \A o \in ToSet(enc) : \E c \in DOMAIN by :
    /\ OutputOf[c] = o
    /\ IF server THEN \E i \in DOMAIN ch : ch[i] = c
                 ELSE InTree(m, c)

\* The output of every leaf is in the list.
Listed(m, ch, enc) ==
  \A i \in Nat \ {0} : At(m, i) => OutputOf[m.tree[Leaf(i)]] \in ToSet(enc)

Emitted == {OutputOf[c] : c \in Commitments}

\* A service, or a snapshot of one, that has a tree, a list and a map.
ServiceOK(server, times, m, ch, enc, by) ==
  /\ TreeOK(m) /\ Known(by)
  /\ enc \in Seq(Emitted) /\ Distinct(enc)
  /\ Owned(server, m, ch, enc, by)
  /\ times = 0 => SameLeaves(m, ch) /\ Listed(m, ch, enc)

CommitmentsIInv ==
  /\ isServer \in BOOLEAN /\ reorgs \in Nat /\ (isServer => reorgs = 0)
  /\ chain \in Seq(Commitments) /\ Len(chain) <= MaxLeaves
  /\ scanned \in 0 .. Len(chain)
  /\ ServiceOK(isServer, reorgs, merkleTree, chain, encOutputs, byCommitment)
  /\ Covered(merkleTree, chain, scanned)
  /\ stored.block \in 0 .. Len(chain)
  /\ ~isServer => stored.block = 0 /\ stored.encOutputs = <<>>
  /\ ServiceOK(isServer, reorgs, FromJSON(stored.tree), chain, stored.encOutputs,
               stored.byCommitment)
  /\ Covered(FromJSON(stored.tree), chain, stored.block)
-----------------------------------------------------------------------------
\* What the invariant says of a tree depends on its nodes and its counters only.
SameNodes(t, m) ==
  /\ DOMAIN t = {"tree", "reverseTree", "count", "index"}
  /\ t.tree = m.tree /\ t.count = m.count /\ t.index = m.index

LEMMA NewTree ==
  TreeOK(New) /\ \A i \in Nat \ {0} : ~At(New, i)
<1>1. DOMAIN New.tree = {} /\ New.count = 0 /\ New.index = GetStartIndex
      /\ DOMAIN New = {"tree", "reverseTree", "count", "index"}
  BY DEF New
<1>2. \A i \in Nat \ {0} : ~At(New, i)
  BY <1>1 DEF At
<1> QED
  BY <1>1, <1>2, StartIndex DEF TreeOK

LEMMA ThroughJSON ==
  ASSUME NEW m, TreeOK(m), NEW lite \in BOOLEAN
  PROVE  SameNodes(FromJSON(IF lite THEN ToJSONLite(m) ELSE ToJSON(m)), m)
BY DEF SameNodes, FromJSON, ToJSON, ToJSONLite

LEMMA SameService ==
  ASSUME NEW t, NEW m, SameNodes(t, m), NEW server, NEW times, NEW ch, NEW enc, NEW by,
         ServiceOK(server, times, m, ch, enc, by)
  PROVE  /\ ServiceOK(server, times, t, ch, enc, by)
         /\ \A k : Covered(m, ch, k) => Covered(t, ch, k)
<1>1. \A i \in Nat \ {0} : At(t, i) <=> At(m, i)
  BY DEF SameNodes, At
<1>2. TreeOK(t)
  BY <1>1 DEF SameNodes, ServiceOK, TreeOK
<1>3. Owned(server, t, ch, enc, by)
  <2>1. \A c : InTree(t, c) <=> InTree(m, c)
    BY <1>1 DEF SameNodes, InTree
  <2> QED
    BY <2>1 DEF ServiceOK, Owned
<1>4. SameLeaves(m, ch) => SameLeaves(t, ch)
  BY <1>1 DEF SameNodes, SameLeaves
<1>5. Listed(m, ch, enc) => Listed(t, ch, enc)
  BY <1>1 DEF SameNodes, Listed
<1>6. \A k : Covered(m, ch, k) => Covered(t, ch, k)
  BY DEF SameNodes, Covered, At
<1> QED
  BY <1>2, <1>3, <1>4, <1>5, <1>6 DEF ServiceOK

\* An empty tree has what any chain promises.
LEMMA EmptyTree ==
  ASSUME NEW ch, NEW by, NEW enc
  PROVE  /\ SameLeaves(New, ch) /\ Listed(New, ch, enc) /\ Covered(New, ch, 0)
         /\ Owned(FALSE, New, ch, <<>>, by)
<1>1. ToSet(<<>>) = {}
  BY DEF ToSet
<1> QED
  BY <1>1, NewTree DEF SameLeaves, Listed, Covered, Owned

LEMMA GrowingChain ==
  ASSUME NEW server \in BOOLEAN, NEW times, NEW m, NEW ch \in Seq(Commitments), NEW enc, NEW by,
         ServiceOK(server, times, m, ch, enc, by), NEW c
  PROVE  /\ ServiceOK(server, times, m, Append(ch, c), enc, by)
         /\ \A k \in 0 .. Len(ch) : Covered(m, ch, k) => Covered(m, Append(ch, c), k)
<1> DEFINE new == Append(ch, c)
<1>1. Len(ch) \in Nat /\ Len(new) = Len(ch) + 1 /\ \A i \in 1 .. Len(ch) : new[i] = ch[i]
  OBVIOUS
<1>2. DOMAIN ch = 1 .. Len(ch) /\ DOMAIN new = 1 .. Len(ch) + 1
  BY <1>1
<1> HIDE DEF new
<1>3. Owned(server, m, new, enc, by)
  <2>1. \A x : (\E i \in DOMAIN ch : ch[i] = x) => \E i \in DOMAIN new : new[i] = x
    BY <1>1, <1>2
  <2> QED
    BY <2>1 DEF ServiceOK, Owned
<1>4. SameLeaves(m, ch) => SameLeaves(m, new)
  BY <1>1 DEF SameLeaves
<1>5. Listed(m, ch, enc) => Listed(m, new, enc)
  BY DEF Listed
<1>6. \A k \in 0 .. Len(ch) : Covered(m, ch, k) => Covered(m, new, k)
  BY <1>1 DEF Covered
<1> QED
  BY <1>3, <1>4, <1>5, <1>6 DEF ServiceOK, new

\* After a reorganisation nothing is promised of a client's tree and the rest
\* of the chain, and the owners of the outputs are in the tree.
LEMMA OtherChain ==
  ASSUME NEW server, ~server, NEW times, NEW m, NEW ch, NEW enc, NEW by,
         ServiceOK(server, times, m, ch, enc, by), NEW more \in Nat \ {0}, NEW new
  PROVE  ServiceOK(server, more, m, new, enc, by)
<1>1. Owned(server, m, new, enc, by)
  BY DEF ServiceOK, Owned
<1> QED
  BY <1>1 DEF ServiceOK

-----------------------------------------------------------------------------
\* A commitment that is still known after leaf number i is written.
Remaining(m, i, c) == \E j \in Nat \ {0} : j # i /\ At(m, j) /\ m.tree[Leaf(j)] = c

\* Every output in list s is that of a commitment that is kept.
StillOwned(server, m, ch, i, s, kept) ==
  \A o \in ToSet(s) : \E d \in kept :
    /\ OutputOf[d] = o
    /\ IF server THEN \E j \in DOMAIN ch : ch[j] = d ELSE Remaining(m, i, d)

\* What is written when a leaf is: a list s and a map of the commitments kept,
\* from which the output and the entry of the leaf replaced are gone.
LEMMA Written ==
  ASSUME NEW server \in BOOLEAN, NEW times, NEW m, TreeOK(m),
         NEW ch \in Seq(Commitments), NEW i \in DOMAIN ch, Len(ch) <= MaxLeaves,
         i <= m.count + 1, NEW by, Known(by), NEW kept \in SUBSET DOMAIN by,
         NEW s \in Seq(Emitted), Distinct(s),
         StillOwned(server, m, ch, i, s, kept),
         times = 0 => SameLeaves(m, ch) /\ Listed(m, ch, s),
         NEW t, t = Insert(m, ch[i], Leaf(i)),
         NEW enc, enc = WithOutput(s, OutputOf[ch[i]]),
         NEW new, new = Put([d \in kept |-> by[d]], ch[i], OutputOf[ch[i]])
  PROVE  ServiceOK(server, times, t, ch, enc, new)
<1> DEFINE c == ch[i]
<1>1. i \in 1 .. MaxLeaves /\ i \in Nat \ {0} /\ i <= Len(ch) /\ c \in Commitments
  OBVIOUS
<1>2. TreeOK(t) /\ OneLeaf(t.tree, m.tree, i, c)
  BY <1>1, Inserted
<1>3. OutputOf[c] \in Emitted
  BY <1>1 DEF Emitted
<1>4. enc \in Seq(Emitted) /\ Distinct(enc) /\ ToSet(enc) = ToSet(s) \union {OutputOf[c]}
  BY <1>3, WithOutputFacts
<1>5. /\ DOMAIN new = kept \union {c}
      /\ \A d \in DOMAIN new : d = c \/ (d # c /\ d \in kept)
      /\ new[c] = OutputOf[c] /\ \A d \in kept : d # c => new[d] = by[d]
  BY DEF Put
<1>6. Known(new)
  BY <1>1, <1>5, Zenon DEF Known
<1>7. /\ \A j \in Nat \ {0} : At(t, j) <=> j = i \/ At(m, j)
      /\ t.tree[Leaf(i)] = c
      /\ \A j \in Nat \ {0} : j # i /\ At(m, j) => t.tree[Leaf(j)] = m.tree[Leaf(j)]
  BY <1>1, <1>2 DEF OneLeaf, At
<1> HIDE DEF c
<1>8. InTree(t, c)
  BY <1>1, <1>7 DEF InTree
<1>9. \A d : Remaining(m, i, d) => InTree(t, d)
  BY <1>7 DEF InTree, Remaining
<1>10. Owned(server, t, ch, enc, new)
  <2>1. ASSUME NEW o \in ToSet(enc)
        PROVE  \E d \in DOMAIN new : OutputOf[d] = o
                 /\ IF server THEN \E j \in DOMAIN ch : ch[j] = d ELSE InTree(t, d)
    <3>1. CASE o = OutputOf[c]
      <4>1. \E j \in DOMAIN ch : ch[j] = c
        BY DEF c
      <4> QED
        BY <1>5, <1>8, <3>1, <4>1
    <3>2. CASE o \in ToSet(s)
      BY <1>5, <1>9, <3>2 DEF StillOwned
    <3> QED
      BY <1>4, <2>1, <3>1, <3>2
  <2> QED
    BY <2>1 DEF Owned
<1>11. ASSUME times = 0 PROVE SameLeaves(t, ch) /\ Listed(t, ch, enc)
  <2>1. SameLeaves(t, ch)
    BY <1>1, <1>7, <1>11 DEF SameLeaves, c
  <2>2. Listed(t, ch, enc)
    BY <1>1, <1>4, <1>7, <1>11 DEF Listed
  <2> QED
    BY <2>1, <2>2
<1> QED
  BY <1>2, <1>4, <1>6, <1>10, <1>11 DEF ServiceOK

LEMMA CoveredCounted ==
  ASSUME NEW m, TreeOK(m), NEW ch, NEW k \in Nat, Covered(m, ch, k)
  PROVE  k <= m.count
<1>1. CASE k = 0
  BY <1>1 DEF TreeOK
<1>2. CASE k # 0
  <2>1. k \in 1 .. k /\ k \in Nat \ {0}
    BY <1>2
  <2>2. At(m, k)
    BY <2>1 DEF Covered
  <2> QED
    BY <2>1, <2>2 DEF TreeOK
<1> QED
  BY <1>1, <1>2

\* The leaves up to the event that is written are those of the chain.
LEMMA CoveredNext ==
  ASSUME NEW m, TreeOK(m), NEW ch \in Seq(Commitments), Len(ch) <= MaxLeaves,
         NEW k \in 0 .. Len(ch), Covered(m, ch, k),
         NEW i \in DOMAIN ch, i <= k + 1,
         NEW t, t = Insert(m, ch[i], Leaf(i)) \/ (t = m /\ At(m, i) /\ m.tree[Leaf(i)] = ch[i]),
         NEW l, l = IF i > k THEN i ELSE k
  PROVE  l \in 0 .. Len(ch) /\ Covered(t, ch, l)
<1>1. i \in 1 .. MaxLeaves /\ i \in Nat \ {0} /\ i <= Len(ch) /\ ch[i] \in Commitments
      /\ i <= m.count + 1
  <2>1. k \in Nat /\ k <= m.count /\ m.count \in Nat
    BY CoveredCounted DEF TreeOK
  <2> QED
    BY <2>1
<1>2. \A j \in 1 .. l : j \in Nat \ {0} /\ (j = i \/ j \in 1 .. k)
  BY <1>1
<1>3. l \in 0 .. Len(ch)
  BY <1>1
<1>4. CASE t = Insert(m, ch[i], Leaf(i))
  <2>1. OneLeaf(t.tree, m.tree, i, ch[i])
    BY <1>1, <1>4, Inserted
  <2>2. \A j \in 1 .. l : At(t, j) /\ t.tree[Leaf(j)] = ch[j]
    BY <1>2, <2>1 DEF OneLeaf, Covered, At
  <2> QED
    BY <1>3, <2>2 DEF Covered
<1>5. CASE t = m /\ At(m, i) /\ m.tree[Leaf(i)] = ch[i]
  BY <1>2, <1>3, <1>5 DEF Covered
<1> QED
  BY <1>4, <1>5

\* AcceptEvent: an event handed over again, a leaf that is free, and, in a
\* client after a reorganisation, one that holds another commitment.
LEMMA AcceptOK ==
  ASSUME CommitmentsIInv, NEW i \in 1 .. MaxLeaves, AcceptEvent(i)
  PROVE  /\ ServiceOK(isServer, reorgs, merkleTree', chain, encOutputs', byCommitment')
         /\ scanned' \in 0 .. Len(chain)
         /\ Covered(merkleTree', chain, scanned')
<1> DEFINE m == merkleTree
           c == chain[i]
           existing == GetValue(m, Leaf(i))
<1>1. /\ chain \in Seq(Commitments) /\ Len(chain) <= MaxLeaves /\ i \in DOMAIN chain
      /\ i <= scanned + 1 /\ scanned \in 0 .. Len(chain) /\ Covered(m, chain, scanned)
      /\ scanned' = IF i > scanned THEN i ELSE scanned
      /\ isServer \in BOOLEAN /\ (isServer => reorgs = 0)
  BY DEF CommitmentsIInv, AcceptEvent, ScannedWith
<1>2. /\ ServiceOK(isServer, reorgs, m, chain, encOutputs, byCommitment)
      /\ TreeOK(m) /\ Known(byCommitment) /\ encOutputs \in Seq(Emitted) /\ Distinct(encOutputs)
      /\ Owned(isServer, m, chain, encOutputs, byCommitment)
      /\ reorgs = 0 => SameLeaves(m, chain) /\ Listed(m, chain, encOutputs)
  BY DEF CommitmentsIInv, ServiceOK
<1>3. i \in Nat \ {0} /\ (HasValue(m, Leaf(i)) <=> At(m, i)) /\ existing = m.tree[Leaf(i)]
      /\ i <= m.count + 1
  BY <1>1, <1>2, CoveredCounted DEF HasValue, GetValue, At, TreeOK
<1>4. CASE HasValue(m, Leaf(i)) /\ existing = c
  <2>1. UNCHANGED serviceVars
    BY <1>4 DEF AcceptEvent
  <2>2. At(m, i) /\ m.tree[Leaf(i)] = chain[i] /\ merkleTree' = m
    BY <1>3, <1>4, <2>1 DEF serviceVars
  <2> QED
    BY <1>1, <1>2, <2>1, <2>2, CoveredNext DEF serviceVars
<1>5. CASE ~(HasValue(m, Leaf(i)) /\ existing = c)
  <2> DEFINE exists == HasValue(m, Leaf(i))
             kept == IF exists THEN DOMAIN byCommitment \ {existing} ELSE DOMAIN byCommitment
             s == IF exists THEN WithoutReplaced(encOutputs, existing) ELSE encOutputs
  <2>1. /\ merkleTree' = Insert(m, chain[i], Leaf(i))
        /\ encOutputs' = WithOutput(s, OutputOf[chain[i]])
        /\ byCommitment' = Put([d \in kept |-> byCommitment[d]], chain[i], OutputOf[chain[i]])
    BY <1>5 DEF AcceptEvent
  <2>2. kept \in SUBSET DOMAIN byCommitment
    OBVIOUS
  <2>3. /\ s \in Seq(Emitted) /\ Distinct(s)
        /\ StillOwned(isServer, m, chain, i, s, kept)
        /\ reorgs = 0 => SameLeaves(m, chain) /\ Listed(m, chain, s)
    <3>1. CASE ~exists
      <4>1. s = encOutputs /\ kept = DOMAIN byCommitment
        BY <3>1
      <4>2. \A d : InTree(m, d) => Remaining(m, i, d)
        BY <1>3, <3>1 DEF InTree, Remaining
      <4>3. StillOwned(isServer, m, chain, i, s, kept)
        BY <1>2, <4>1, <4>2 DEF Owned, StillOwned
      <4> HIDE DEF s, kept
      <4> QED
        BY <1>2, <4>1, <4>3
    <3>2. CASE exists
      <4>1. ~isServer /\ reorgs # 0
        <5>1. ~SameLeaves(m, chain)
          BY <1>3, <1>5, <3>2 DEF SameLeaves
        <5> QED
          BY <1>1, <1>2, <5>1
      <4>2. s = WithoutReplaced(encOutputs, existing) /\ kept = DOMAIN byCommitment \ {existing}
        BY <3>2
      <4>3. /\ s \in Seq(Emitted) /\ Distinct(s) /\ ToSet(s) \subseteq ToSet(encOutputs)
            /\ existing \in DOMAIN byCommitment => OutputOf[existing] \notin ToSet(s)
        <5>1. CASE existing \in DOMAIN byCommitment
          <6>1. s = Without(encOutputs, OutputOf[existing])
            BY <1>2, <4>2, <5>1 DEF WithoutReplaced, Known
          <6> HIDE DEF s, existing
          <6> QED
            BY <1>2, <6>1, WithoutFacts
        <5>2. CASE existing \notin DOMAIN byCommitment
          BY <1>2, <4>2, <5>2 DEF WithoutReplaced
        <5> QED
          BY <5>1, <5>2
      <4>4. ASSUME NEW o \in ToSet(s) PROVE \E d \in kept : OutputOf[d] = o /\ Remaining(m, i, d)
        <5> HIDE DEF s, kept, existing
        <5>1. PICK d \in DOMAIN byCommitment : OutputOf[d] = o /\ InTree(m, d)
          BY <1>2, <4>1, <4>3, <4>4 DEF Owned
        <5>2. d # existing
          BY <4>3, <4>4, <5>1
        <5>3. Remaining(m, i, d)
          BY <1>3, <5>1, <5>2 DEF InTree, Remaining
        <5> QED
          BY <4>2, <5>1, <5>2, <5>3
      <4> HIDE DEF s, kept
      <4>5. StillOwned(isServer, m, chain, i, s, kept)
        BY <4>1, <4>4 DEF StillOwned
      <4> QED
        BY <4>1, <4>3, <4>5
    <3> QED
      BY <3>1, <3>2
  <2> HIDE DEF s, kept, exists
  <2>4. ServiceOK(isServer, reorgs, merkleTree', chain, encOutputs', byCommitment')
    BY <1>1, <1>2, <1>3, <2>1, <2>2, <2>3, Written
  <2>5. scanned' \in 0 .. Len(chain) /\ Covered(merkleTree', chain, scanned')
    BY <1>1, <1>2, <2>1, CoveredNext
  <2> QED
    BY <2>4, <2>5
<1> QED
  BY <1>4, <1>5

LEMMA InitOK ==
  ASSUME CommitmentsInit
  PROVE  CommitmentsIInv
<1>1. /\ chain \in Seq(Commitments) /\ Len(chain) = 0
      /\ <<>> \in Seq(Emitted) /\ Distinct(<<>>) /\ ToSet(<<>>) = {}
      /\ Known(<<>>)
  BY DEF CommitmentsInit, Distinct, ToSet, Known
<1>2. TreeOK(New) /\ SameLeaves(New, chain) /\ Listed(New, chain, <<>>)
      /\ Covered(New, chain, 0)
  BY NewTree, EmptyTree
<1>3. ServiceOK(isServer, reorgs, New, chain, <<>>, <<>>)
  BY <1>1, <1>2 DEF ServiceOK, Owned
<1>4. SameNodes(FromJSON(ToJSON(New)), New)
  <2>1. SameNodes(FromJSON(IF FALSE THEN ToJSONLite(New) ELSE ToJSON(New)), New)
    BY <1>2, ThroughJSON
  <2> QED
    BY <2>1
<1>5. ServiceOK(isServer, reorgs, FromJSON(ToJSON(New)), chain, <<>>, <<>>)
      /\ Covered(FromJSON(ToJSON(New)), chain, 0)
  BY <1>2, <1>3, <1>4, SameService
<1> QED
  BY <1>1, <1>2, <1>3, <1>5, StartIndex DEF CommitmentsInit, CommitmentsIInv

LEMMA NewCommitmentOK ==
  ASSUME CommitmentsIInv, NEW c \in Commitments, NewCommitment(c)
  PROVE  CommitmentsIInv'
<1>1. /\ chain' = Append(chain, c) /\ Len(chain) < MaxLeaves
      /\ UNCHANGED <<isServer, reorgs, scanned, merkleTree, encOutputs, byCommitment, stored>>
  BY DEF NewCommitment, serviceVars
<1>2. chain \in Seq(Commitments) /\ Len(chain) \in Nat
  BY DEF CommitmentsIInv
<1>3. chain' \in Seq(Commitments) /\ Len(chain') = Len(chain) + 1
  BY <1>1, <1>2
<1>4. ServiceOK(isServer, reorgs, merkleTree, chain', encOutputs, byCommitment)
      /\ Covered(merkleTree, chain', scanned)
  BY <1>1, <1>2, GrowingChain DEF CommitmentsIInv
<1>5. ServiceOK(isServer, reorgs, FromJSON(stored.tree), chain', stored.encOutputs, stored.byCommitment)
      /\ Covered(FromJSON(stored.tree), chain', stored.block)
  BY <1>1, <1>2, GrowingChain DEF CommitmentsIInv
<1>6. scanned \in 0 .. Len(chain') /\ stored.block \in 0 .. Len(chain') /\ Len(chain') <= MaxLeaves
  BY <1>1, <1>2, <1>3, StartIndex DEF CommitmentsIInv
<1> QED
  BY <1>1, <1>3, <1>4, <1>5, <1>6 DEF CommitmentsIInv

LEMMA ReorgOK ==
  ASSUME CommitmentsIInv, NEW n \in 0 .. MaxLeaves, Reorg(n)
  PROVE  CommitmentsIInv'
<1>1. /\ ~isServer /\ n \in Nat /\ n < Len(chain)
      /\ chain' = SubSeq(chain, 1, n)
      /\ scanned' = IF scanned > n THEN n ELSE scanned
      /\ reorgs' = reorgs + 1
      /\ UNCHANGED <<isServer, merkleTree, encOutputs, byCommitment, stored>>
  BY DEF Reorg, serviceVars
<1>2. /\ chain \in Seq(Commitments) /\ Len(chain) \in Nat /\ Len(chain) <= MaxLeaves
      /\ reorgs \in Nat /\ scanned \in 0 .. Len(chain)
      /\ stored.block = 0 /\ stored.encOutputs = <<>>
  BY <1>1 DEF CommitmentsIInv
<1>3. chain' \in Seq(Commitments) /\ Len(chain') = n
  BY <1>1, <1>2
<1>4. scanned' \in 0 .. n /\ scanned' <= scanned /\ scanned \in Nat
  BY <1>1, <1>2
<1>5. /\ ServiceOK(isServer, reorgs, merkleTree, chain, encOutputs, byCommitment)
      /\ Covered(merkleTree, chain, scanned)
      /\ ServiceOK(isServer, reorgs, FromJSON(stored.tree), chain, <<>>, stored.byCommitment)
      /\ Covered(FromJSON(stored.tree), chain, 0)
  BY <1>2 DEF CommitmentsIInv
<1>6. reorgs' \in Nat \ {0} /\ 0 \in 0 .. n /\ 0 \in Nat
  BY <1>1, <1>2
<1> DEFINE tree == FromJSON(stored.tree)
           enc == stored.encOutputs
           by == stored.byCommitment
<1>7. ServiceOK(isServer, reorgs, tree, chain, enc, by)
  BY <1>2, <1>5
<1> HIDE DEF tree, enc, by
<1>8. ServiceOK(isServer, reorgs', merkleTree, chain', encOutputs, byCommitment)
      /\ ServiceOK(isServer, reorgs', tree, chain', enc, by)
  BY <1>1, <1>5, <1>6, <1>7, OtherChain
<1>9. Covered(merkleTree, chain', scanned') /\ Covered(tree, chain', 0)
  <2>1. \A i \in 1 .. scanned' : i \in 1 .. scanned /\ chain'[i] = chain[i]
    BY <1>1, <1>2, <1>4
  <2> QED
    BY <1>5, <2>1 DEF Covered
<1>10. ServiceOK(isServer', reorgs', merkleTree', chain', encOutputs', byCommitment')
       /\ Covered(merkleTree', chain', scanned')
  BY <1>1, <1>2, <1>8, <1>9
<1>11. ServiceOK(isServer', reorgs', FromJSON(stored'.tree), chain', stored'.encOutputs,
                 stored'.byCommitment)
       /\ Covered(FromJSON(stored'.tree), chain', stored'.block)
  BY <1>1, <1>2, <1>8, <1>9 DEF tree, enc, by
<1> QED
  BY <1>1, <1>2, <1>3, <1>4, <1>6, <1>10, <1>11 DEF CommitmentsIInv

LEMMA AcceptEventOK ==
  ASSUME CommitmentsIInv, NEW i \in 1 .. MaxLeaves, AcceptEvent(i)
  PROVE  CommitmentsIInv'
<1>1. UNCHANGED <<isServer, chain, reorgs, stored>>
  BY DEF AcceptEvent
<1> QED
  BY <1>1, AcceptOK DEF CommitmentsIInv

LEMMA SaveSnapshotOK ==
  ASSUME CommitmentsIInv, NEW block \in 0 .. MaxLeaves, NEW lite \in BOOLEAN,
         SaveSnapshot(block, lite)
  PROVE  CommitmentsIInv'
<1> DEFINE tree == IF lite THEN ToJSONLite(merkleTree) ELSE ToJSON(merkleTree)
<1>1. /\ isServer /\ block <= scanned
      /\ stored' = [block |-> block, tree |-> tree,
                    encOutputs |-> encOutputs, byCommitment |-> byCommitment]
      /\ UNCHANGED <<isServer, chain, reorgs, scanned, merkleTree, encOutputs, byCommitment>>
  BY DEF SaveSnapshot, serviceVars
<1>2. SameNodes(FromJSON(tree), merkleTree)
  BY ThroughJSON DEF CommitmentsIInv, ServiceOK
<1> HIDE DEF tree
<1>3. Covered(merkleTree, chain, block)
  BY <1>1 DEF CommitmentsIInv, Covered
<1>4. ServiceOK(isServer, reorgs, FromJSON(tree), chain, encOutputs, byCommitment)
      /\ Covered(FromJSON(tree), chain, block)
  BY <1>2, <1>3, SameService DEF CommitmentsIInv
<1>5. block \in 0 .. Len(chain)
  BY <1>1 DEF CommitmentsIInv
<1> QED
  BY <1>1, <1>4, <1>5 DEF CommitmentsIInv

LEMMA LoadSnapshotOK ==
  ASSUME CommitmentsIInv, LoadSnapshot
  PROVE  CommitmentsIInv'
<1>1. /\ merkleTree' = IF stored.block > 0 THEN FromJSON(stored.tree) ELSE New
      /\ encOutputs' = stored.encOutputs /\ byCommitment' = stored.byCommitment
      /\ scanned' = stored.block
      /\ UNCHANGED <<isServer, chain, reorgs, stored>>
  BY DEF LoadSnapshot, StoredOutputs
<1>2. ServiceOK(isServer, reorgs, merkleTree', chain, encOutputs', byCommitment')
      /\ Covered(merkleTree', chain, scanned')
  <2>1. CASE stored.block > 0
    BY <1>1, <2>1 DEF CommitmentsIInv
  <2>2. CASE ~(stored.block > 0)
    <3>1. stored.block = 0 /\ merkleTree' = New
      BY <1>1, <2>2 DEF CommitmentsIInv
    <3>2. Owned(isServer, New, chain, stored.encOutputs, stored.byCommitment)
      <4>1. CASE isServer
        BY <4>1 DEF CommitmentsIInv, ServiceOK, Owned
      <4>2. CASE ~isServer
        <5>1. isServer = FALSE /\ stored.encOutputs = <<>>
          BY <4>2 DEF CommitmentsIInv
        <5> QED
          BY <5>1, EmptyTree
      <4> QED
        BY <4>1, <4>2
    <3> QED
      BY <1>1, <3>1, <3>2, NewTree, EmptyTree DEF CommitmentsIInv, ServiceOK
  <2> QED
    BY <2>1, <2>2
<1> QED
  BY <1>1, <1>2 DEF CommitmentsIInv

\* What the service holds follows the chain: each event up to the last one
\* handed over is in its leaf, and every output in the list has an owner.
THEOREM CommitmentsInvariant == CommitmentsSpec => []CommitmentsIInv
<1>1. CommitmentsInit => CommitmentsIInv
  BY InitOK
<1>2. CommitmentsIInv /\ [CommitmentsNext]_commitmentsVars => CommitmentsIInv'
  <2>1. SUFFICES ASSUME CommitmentsIInv, [CommitmentsNext]_commitmentsVars PROVE CommitmentsIInv'
    OBVIOUS
  <2>2. CASE \E c \in Commitments : NewCommitment(c)
    BY <2>1, <2>2, NewCommitmentOK
  <2>3. CASE \E n \in 0 .. MaxLeaves : Reorg(n)
    BY <2>1, <2>3, ReorgOK
  <2>4. CASE \E i \in 1 .. MaxLeaves : AcceptEvent(i)
    BY <2>1, <2>4, AcceptEventOK
  <2>5. CASE \E block \in 0 .. MaxLeaves, lite \in BOOLEAN : SaveSnapshot(block, lite)
    BY <2>1, <2>5, SaveSnapshotOK
  <2>6. CASE LoadSnapshot
    BY <2>1, <2>6, LoadSnapshotOK
  <2>7. CASE UNCHANGED commitmentsVars
    BY <2>1, <2>7 DEF commitmentsVars, serviceVars, CommitmentsIInv
  <2> QED
    BY <2>1, <2>2, <2>3, <2>4, <2>5, <2>6, <2>7 DEF CommitmentsNext
<1> QED
  BY <1>1, <1>2, PTL DEF CommitmentsSpec

\* No leaf is counted twice and none is skipped, so the tree never refuses a
\* root or a path.
THEOREM NeverIncompleteAlways == CommitmentsSpec => []NeverIncomplete
<1>1. CommitmentsIInv => NeverIncomplete
  BY StartIndex DEF CommitmentsIInv, ServiceOK, TreeOK, NeverIncomplete, IsComplete
<1> QED
  BY <1>1, CommitmentsInvariant, PTL

\* Once every event is handed over and no leaf of a longer chain is left, the
\* leaves are those of the chain.
LEMMA LeavesOfChain ==
  ASSUME CommitmentsIInv, CaughtUp
  PROVE  /\ \A c : InTree(merkleTree, c) => c \in OnChain
         /\ \A i \in DOMAIN chain : At(merkleTree, i) /\ merkleTree.tree[Leaf(i)] = chain[i]
<1>1. chain \in Seq(Commitments) /\ Len(chain) \in Nat /\ DOMAIN chain = 1 .. Len(chain)
  BY DEF CommitmentsIInv
<1>2. \A i \in DOMAIN chain : At(merkleTree, i) /\ merkleTree.tree[Leaf(i)] = chain[i]
  BY <1>1 DEF CommitmentsIInv, CaughtUp, Covered
<1>3. \A i \in Nat \ {0} : At(merkleTree, i) => i \in DOMAIN chain
  <2>1. TreeOK(merkleTree) /\ merkleTree.index = GetStartIndex + Len(chain)
    BY DEF CommitmentsIInv, CaughtUp, ServiceOK
  <2>2. merkleTree.count = Len(chain)
    BY <1>1, <2>1, StartIndex DEF TreeOK
  <2> QED
    BY <1>1, <2>1, <2>2 DEF TreeOK
<1> QED
  BY <1>2, <1>3 DEF InTree, OnChain

\* The list of outputs is exactly that of the chain: no output of an orphaned
\* commitment and none twice, and none missing without a reorganisation.
THEOREM OutputsExactAlways == CommitmentsSpec => []OutputsExact
<1>1. ASSUME CommitmentsIInv PROVE OutputsExact
  <2>1. ASSUME CaughtUp PROVE /\ ToSet(encOutputs) \subseteq {OutputOf[c] : c \in OnChain}
                              /\ \A i, j \in DOMAIN encOutputs : encOutputs[i] = encOutputs[j] => i = j
    <3>1. \A i, j \in DOMAIN encOutputs : encOutputs[i] = encOutputs[j] => i = j
      BY <1>1 DEF CommitmentsIInv, ServiceOK, Distinct
    <3>2. ASSUME NEW o \in ToSet(encOutputs) PROVE \E c \in OnChain : o = OutputOf[c]
      BY <1>1, <2>1, <3>2, LeavesOfChain DEF CommitmentsIInv, ServiceOK, Owned, OnChain
    <3> QED
      BY <3>1, <3>2
  <2>2. ASSUME CaughtUp, reorgs = 0
        PROVE  {OutputOf[c] : c \in OnChain} \subseteq ToSet(encOutputs)
    <3>1. Listed(merkleTree, chain, encOutputs)
      BY <1>1, <2>2 DEF CommitmentsIInv, ServiceOK
    <3>2. \A i \in DOMAIN chain : i \in Nat \ {0}
      BY <1>1 DEF CommitmentsIInv
    <3> QED
      BY <1>1, <2>2, <3>1, <3>2, LeavesOfChain DEF Listed, OnChain
  <2> QED
    BY <2>1, <2>2 DEF OutputsExact, NoOrphanOutputs, NoOutputMissing
<1> QED
  BY <1>1, CommitmentsInvariant, PTL
=============================================================================
