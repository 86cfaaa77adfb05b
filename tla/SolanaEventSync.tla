-------------------------- MODULE SolanaEventSync --------------------------
(***************************************************************************)
(* The Solana emitter (eventservice/solana_emitter.go) and the snapshots   *)
(* of commitments and nullifiers that it feeds (snapshot/solana_*.go), as  *)
(* a client runs them.                                                     *)
(*                                                                         *)
(* A scan asks for the confirmed slot, pages backwards through the         *)
(* signatures of the program and reads every transaction; one it cannot    *)
(* read is left out although the slot counts as scanned.  Next to it a     *)
(* listener polls the snapshot server, which runs the same emitter and     *)
(* stays behind the slots that may still be rolled back.                   *)
(*                                                                         *)
(* A transaction creates one commitment, whose index is its place on the   *)
(* chain, and one nullifier; id stands for both.  Chain and snapshot       *)
(* server are external.                                                    *)
(***************************************************************************)
EXTENDS Integers, Sequences, SequencesExt

CONSTANTS
  Depth,      \* solanaReorgDepth
  Limit,      \* solanaBatchLimitMin
  InitLimit,  \* solanaBatchLimitMax
  MaxSlot,    \* bound: last slot
  MaxTxs,     \* bound: transactions that ever are on the chain
  MaxForks,   \* bound: rollbacks
  MaxSkips    \* bound: transactions that cannot be read

ASSUME SolanaAssumption ==
  /\ Depth \in Nat \ {0} /\ Limit \in Nat \ {0} /\ InitLimit \in Nat \ {0}
  /\ MaxSlot \in Nat /\ MaxTxs \in Nat /\ MaxForks \in Nat /\ MaxSkips \in Nat
  /\ MaxSlot >= Depth

VARIABLES
  txs,         \* the chain: Seq of [slot, id]
  head,        \* the confirmed slot
  born, forks, \* ids and rollbacks so far
  late,        \* ids a rollback brought into an old slot
  srv,         \* the slot up to which the snapshot server is complete
  phase,       \* "new", "loaded", then "ready"
  latest,      \* latestSlot
  tree,        \* merkleTree: a function from indexes to ids
  outs,        \* encOutputs and byCommitment
  nulls,       \* nullifiers
  job,         \* the scan under way
  listenFrom,  \* where the listener began, 0 if it was not started
  fetchFrom,   \* its next slot
  poll,        \* the answer it is about to process
  skipped      \* ids a scan could not read

chainVars == <<txs, head, born, forks, late>>
storeVars == <<tree, outs, nulls>>
listenVars == <<listenFrom, fetchFrom, poll>>
vars == <<chainVars, srv, phase, latest, storeVars, job, listenVars, skipped>>

NoJob == [pc |-> "idle", from |-> 0, to |-> 0, limit |-> Limit, start |-> FALSE,
          sigs |-> <<>>, more |-> FALSE, cut |-> FALSE, evs |-> {}]
NoPoll == [pc |-> "idle", evs |-> {}, to |-> 0]

Event(i) == [idx |-> i, id |-> txs[i].id]
OnChain(from, to) == {Event(i) : i \in {j \in DOMAIN txs : txs[j].slot \in from .. to}}

\* The last slot that no rollback reaches.
SafeSlot == head - Depth + 1

GetLastSlot(isServer) == IF isServer THEN head - Depth + 1 ELSE head

Init ==
  /\ txs = <<>> /\ head = Depth /\ born = 0 /\ forks = 0 /\ late = {} /\ srv = 0
  /\ phase = "new" /\ latest = 0
  /\ tree = <<>> /\ outs = {} /\ nulls = {}
  /\ job = NoJob
  /\ listenFrom = 0 /\ fetchFrom = 0 /\ poll = NoPoll
  /\ skipped = {}

-----------------------------------------------------------------------------
(***************************************************************************)
(* The chain and the snapshot server.                                      *)
(***************************************************************************)
NewSlot(n) ==
  /\ head < MaxSlot /\ born + n <= MaxTxs
  /\ head' = head + 1 /\ born' = born + n
  /\ txs' = txs \o [k \in 1 .. n |-> [slot |-> head + 1, id |-> born + k]]
  /\ UNCHANGED <<forks, late, srv, phase, latest, storeVars, job, listenVars, skipped>>

\* A rollback: the transactions from the k-th on are dropped; another one
\* may take the place of the first of them.
Fork(k, again) ==
  LET slot == txs[k].slot
  IN  /\ forks < MaxForks /\ slot > SafeSlot
      /\ again => born < MaxTxs
      /\ forks' = forks + 1
      /\ born' = IF again THEN born + 1 ELSE born
      /\ late' = IF again THEN late \union {born + 1} ELSE late
      /\ txs' = SubSeq(txs, 1, k - 1) \o (IF again THEN <<[slot |-> slot, id |-> born + 1]>> ELSE <<>>)
      /\ UNCHANGED <<head, srv, phase, latest, storeVars, job, listenVars, skipped>>

\* A server scans up to its last slot, unless it is there already.
ServerScans ==
  /\ GetLastSlot(TRUE) > srv
  /\ srv' = GetLastSlot(TRUE)
  /\ UNCHANGED <<chainVars, phase, latest, storeVars, job, listenVars, skipped>>

-----------------------------------------------------------------------------
(***************************************************************************)
(* Loading.  The two snapshots may be of different slots; scanning starts  *)
(* at the lower one (SyncFromAtMost).                                      *)
(***************************************************************************)
SyncFromAtMost(a, b) == IF a < b THEN a ELSE b

LoadSnapshots(a, b) ==
  /\ job.pc = "idle" /\ poll.pc = "idle"
  /\ phase' = "loaded"
  /\ latest' = SyncFromAtMost(a, b)
  /\ tree' = [i \in {e.idx : e \in OnChain(0, a)} |-> txs[i].id]
  /\ outs' = {e.id : e \in OnChain(0, a)}
  /\ nulls' = {e.id : e \in OnChain(0, b)}
  /\ listenFrom' = 0 /\ fetchFrom' = 0
  /\ skipped' = {}
  /\ UNCHANGED <<chainVars, srv, job, poll>>

-----------------------------------------------------------------------------
(***************************************************************************)
(* A scan.  The slot it starts from is read before the lock is taken.      *)
(***************************************************************************)
Call(from, limit, start) ==
  /\ job.pc = "idle"
  /\ job' = [NoJob EXCEPT !.pc = "called", !.from = from, !.limit = limit, !.start = start]
  /\ UNCHANGED <<chainVars, srv, latest, storeVars, listenVars, skipped>>

\* resetMerkleTreeForChain, and the first scan of the emitter's Init, which
\* is followed by the listener.
FirstRetrieve(start) ==
  /\ phase = "loaded"
  /\ phase' = "ready"
  /\ Call(latest + 1, IF start THEN InitLimit ELSE Limit, start)

RetrieveEventsFromLatestBlock ==
  phase = "ready" /\ Call(latest, Limit, FALSE) /\ UNCHANGED phase

\* The signatures of a page, newest first, from place n downwards.
Signatures(n, limit) ==
  Reverse(SubSeq([i \in DOMAIN txs |-> [slot |-> txs[i].slot, idx |-> i, id |-> txs[i].id]],
                 IF n > limit THEN n - limit + 1 ELSE 1, n))

\* A plausible slip: a page that ends within the first slot is the last one.
StopWithinSlot(sigs, page, limit, from) == Len(page) >= limit /\ Last(sigs).slot > from

\* Another page is needed while pages are full and the oldest signature is
\* not below the slot the scan starts from.
WantsMore(sigs, page, limit, from) == Len(page) >= limit /\ Last(sigs).slot >= from

\* retrieveEvents takes the lock, asks for the confirmed slot and the first page.
StartScan ==
  LET page == Signatures(Len(txs), job.limit)
  IN  /\ job.pc = "called"
      /\ IF GetLastSlot(FALSE) < job.from
         THEN job' = NoJob
         ELSE job' = [job EXCEPT !.pc = "paging", !.to = GetLastSlot(FALSE), !.sigs = page,
                                 !.more = WantsMore(page, page, job.limit, job.from)]
      /\ UNCHANGED <<chainVars, srv, phase, latest, storeVars, listenVars, skipped>>

\* The next page begins before the last signature.  A node that no longer
\* knows that signature answers with an empty page.
NextPage ==
  LET last  == Last(job.sigs)
      known == last.idx \in DOMAIN txs /\ txs[last.idx].id = last.id
      page  == IF known THEN Signatures(last.idx - 1, job.limit) ELSE <<>>
      sigs  == job.sigs \o page
  IN  /\ job.pc = "paging" /\ job.more
      /\ job' = [job EXCEPT !.sigs = sigs, !.cut = ~known,
                            !.more = page # <<>> /\ WantsMore(sigs, page, job.limit, job.from)]
      /\ UNCHANGED <<chainVars, srv, phase, latest, storeVars, listenVars, skipped>>

\* getProgramEvents reads the transactions between the two slots.  One that
\* is gone, or whose request fails, is left out.
ReadTransactions(failing) ==
  LET found == {e \in {[idx |-> s.idx, id |-> s.id] : s \in {job.sigs[k] : k \in DOMAIN job.sigs}} :
                  e \in OnChain(job.from, job.to)}
      unread == IF job.cut THEN {e.id : e \in OnChain(job.from, job.to) \ found} ELSE {}
  IN  /\ job.pc = "paging" /\ ~job.more
      /\ failing \subseteq {e.id : e \in found}
      /\ Cardinality(skipped \union failing) <= MaxSkips \/ failing = {}
      /\ job' = [job EXCEPT !.pc = "process", !.evs = {e \in found : e.id \notin failing}]
      /\ skipped' = skipped \union failing \union unread
      /\ UNCHANGED <<chainVars, srv, phase, latest, storeVars, listenVars>>

ScanFails ==
  /\ job.pc \in {"called", "paging"}
  /\ job' = NoJob
  /\ UNCHANGED <<chainVars, srv, phase, latest, storeVars, listenVars, skipped>>

-----------------------------------------------------------------------------
(***************************************************************************)
(* AcceptEvent of the two snapshots, for events of different indexes.      *)
(***************************************************************************)
Replaced(evs) == {tree[e.idx] : e \in {x \in evs : x.idx \in DOMAIN tree /\ tree[x.idx] # x.id}}

\* Outputs that go with the commitments they belonged to.
Dropped(evs) == Replaced(evs)

AcceptEvents(evs) ==
  /\ tree' = [i \in DOMAIN tree \union {e.idx : e \in evs} |->
                IF \E e \in evs : e.idx = i THEN (CHOOSE e \in evs : e.idx = i).id ELSE tree[i]]
  /\ outs' = (outs \ Dropped(evs)) \union {e.id : e \in evs}
  /\ nulls' = nulls \union {e.id : e \in evs}

\* The end of a scan: its slot becomes the latest one, even if the listener
\* has been further.  Init starts the listener now.
ProcessScan ==
  /\ job.pc = "process"
  /\ AcceptEvents(job.evs)
  /\ latest' = job.to
  /\ job' = NoJob
  /\ listenFrom' = IF job.start THEN job.to + 1 ELSE listenFrom
  /\ fetchFrom' = IF job.start THEN job.to + 1 ELSE fetchFrom
  /\ UNCHANGED <<chainVars, srv, phase, poll, skipped>>

-----------------------------------------------------------------------------
(***************************************************************************)
(* The listener.                                                           *)
(***************************************************************************)
PollFrom == fetchFrom

PollServer ==
  /\ listenFrom > 0 /\ poll.pc = "idle" /\ srv >= fetchFrom
  /\ poll' = [pc |-> "got", evs |-> OnChain(PollFrom, srv), to |-> srv]
  /\ UNCHANGED <<chainVars, srv, phase, latest, storeVars, job, listenFrom, fetchFrom, skipped>>

\* A plausible slip: events are processed without the lock.
NoLock == TRUE

\* eventsFetchingMutex.
Unlocked == job.pc \in {"idle", "called"}

\* A plausible slip: an answer without events does not move the listener on.
AdvanceWithEvents(p) == IF p.evs # {} THEN p.to + 1 ELSE fetchFrom

AdvanceFetchFrom(p) == IF p.to >= fetchFrom THEN p.to + 1 ELSE fetchFrom

\* ProcessExternalEvents takes the lock; an answer without events only
\* advances the latest slot.
ProcessExternalEvents ==
  /\ poll.pc = "got"
  /\ poll.evs # {} => Unlocked
  /\ AcceptEvents(poll.evs)
  /\ latest' = IF poll.to > latest THEN poll.to ELSE latest
  /\ fetchFrom' = AdvanceFetchFrom(poll)
  /\ poll' = NoPoll
  /\ UNCHANGED <<chainVars, srv, phase, job, listenFrom, skipped>>

-----------------------------------------------------------------------------
Next ==
  \/ \E n \in 0 .. 2 : NewSlot(n)
  \/ \E k \in DOMAIN txs, again \in BOOLEAN : Fork(k, again)
  \/ ServerScans
  \/ \E a, b \in 0 .. srv : LoadSnapshots(a, b)
  \/ \E start \in BOOLEAN : FirstRetrieve(start)
  \/ RetrieveEventsFromLatestBlock
  \/ StartScan
  \/ NextPage
  \/ \E failing \in SUBSET {job.sigs[k].id : k \in DOMAIN job.sigs} : ReadTransactions(failing)
  \/ ScanFails
  \/ ProcessScan
  \/ PollServer
  \/ ProcessExternalEvents

Spec == Init /\ [][Next]_vars

\* Requests are answered or fail, the server keeps scanning, the listener's
\* ticker keeps ticking, and a sync.Mutex lets everyone have it in the end.
LiveSpec ==
  Spec /\ WF_vars(StartScan) /\ WF_vars(NextPage) /\ WF_vars(ReadTransactions({}))
       /\ WF_vars(ProcessScan) /\ WF_vars(ServerScans)
       /\ WF_vars(PollServer) /\ SF_vars(ProcessExternalEvents)

-----------------------------------------------------------------------------
\* Everything on the chain up to the latest slot is in both snapshots, but
\* for what getProgramEvents could not read and what a rollback brought into
\* a slot later: paging loses nothing where a page ends within a slot, and
\* snapshots of different slots leave no gap.
ScannedComplete ==
  \A e \in OnChain(0, latest) :
    e.id \notin skipped \union late =>
      e.idx \in DOMAIN tree /\ tree[e.idx] = e.id /\ e.id \in nulls

\* The encrypted outputs are those of the leaves: AcceptEvent removes the
\* output of a commitment it replaces.
OutputsOfLeaves == outs = {tree[i] : i \in DOMAIN tree}

\* What the listener went through is in the snapshots exactly as it is on the
\* chain: also what a scan left out, and also where a scan had stored a
\* commitment that a rollback removed, whose output goes with it.  The
\* listener goes on from its own fetchFrom, not from the latest slot, and the
\* lock keeps a scan that read such a commitment from storing it afterwards.
ListenedExact ==
  /\ OutputsOfLeaves
  /\ listenFrom > 0 =>
       \A e \in OnChain(listenFrom, fetchFrom - 1) :
         e.idx \in DOMAIN tree /\ tree[e.idx] = e.id /\ e.id \in nulls

\* Every slot the server is through with is eventually processed by a
\* listener that keeps running.
SolanaListenerCatchesUp ==
  \A s \in 1 .. MaxSlot :
    (listenFrom > 0 /\ srv >= s) ~> (fetchFrom > s \/ listenFrom = 0)
=============================================================================
