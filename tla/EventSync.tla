----------------------------- MODULE EventSync -----------------------------
(***************************************************************************)
(* The event emitter of one chain and the snapshot services it feeds       *)
(* (internal/data-structures/eventservice).                                *)
(*                                                                         *)
(* A BlockchainEventEmitter keeps the highest block it has scanned         *)
(* (latestBlockNumber).  Its eventProcessors are the snapshot services, in *)
(* the order they were constructed: 1 is NewCommitment, 2 is Nullified.    *)
(* Several goroutines drive it: callers of RetrieveEvents, and the         *)
(* delegate's listener, which polls the RPC node ("polling") or the        *)
(* snapshot server ("client").  RetrieveEvents and ProcessExternalEvents   *)
(* hold eventsFetchingMutex; LatestBlockNumber, AdvanceLatestBlockNumber   *)
(* and the choice of fromBlock do not.                                     *)
(*                                                                         *)
(* An event is <<block, fork>>: fork tells the event of an orphaned block  *)
(* from the one that replaced it.  What an event carries is modelled in    *)
(* CommitmentsSnapshot; here a service is the set of events it applied.    *)
(***************************************************************************)
EXTENDS Integers, FiniteSets

CONSTANTS
  ServiceCount,        \* number of registered event processors
  Callers,             \* goroutines that call RetrieveEvents
  Listener,            \* the goroutine of the emitter's delegate
  None,                \* no holder of the mutex
  Delegate,            \* "polling" or "client"
  IsServer,            \* isServer: stay ReorgDepth behind the head, persist
  InitialBlockNumber,  \* initialBlockNumber of the emitter
  ReorgDepth,          \* constants.GetReorgDepth
  SaveDepth,           \* constants.GetSaveDepth
  WordSize,            \* 2^64: block numbers are uint64
  InitialHead,         \* height of the chain when the behaviour starts
  MaxReorg,            \* deepest reorganisation of the chain
  RpcLag,              \* how far the RPC node may be behind the head
  MaxBlock,            \* bound on the height of the chain
  MaxForks,            \* bound on the number of reorganisations
  MaxFailures          \* bound on failed calls and crashes

Services == 1 .. ServiceCount
Threads  == Callers \cup {Listener}
Nil      == -1         \* latestBlockNumber == nil, and fetchFrom unset

ASSUME ConstantsAssumption ==
  /\ ServiceCount \in Nat \ {0}
  /\ Listener \notin Callers
  /\ None \notin Threads
  /\ Delegate \in {"polling", "client"}
  /\ IsServer \in BOOLEAN
  /\ Delegate = "client" => ~IsServer   \* ClientBlockchainEventEmitter has no isServer
  /\ {InitialBlockNumber, ReorgDepth, SaveDepth, WordSize, InitialHead,
      MaxReorg, RpcLag, MaxBlock, MaxForks, MaxFailures} \subseteq Nat
  /\ ReorgDepth < WordSize

(***************************************************************************)
(* A server only reads blocks that a reorganisation cannot reach, which    *)
(* needs a reorganisation shallower than ReorgDepth and a chain that is    *)
(* higher than ReorgDepth: below it latest - reorgDepth + 1 wraps around.  *)
(* A client reads up to the head; what a reorganisation does to it is      *)
(* repaired by resetMerkleTrees.                                           *)
(***************************************************************************)
ASSUME ReorgAssumption ==
  IF IsServer
    THEN MaxReorg < ReorgDepth /\ ReorgDepth + RpcLag <= InitialHead + 1
    ELSE MaxReorg = 0

VARIABLES
  head,               \* height of the canonical chain
  fork,               \* number of reorganisations so far
  emits,              \* emits[s]: events of service s on the canonical chain
  latestBlockNumber,  \* emitter: last block scanned, or Nil
  accepted,           \* accepted[s]: events service s has applied
  savedLatestBlock,   \* savedLatestBlock[s]: block of its last SaveSnapshot
  store,              \* store[s]: the snapshot FetchSnapshot would return
  loaded,             \* how many services have loaded their snapshot
  phase,              \* emitter: Init has not been called, isReady is set, or
                      \* go delegate.StartUpdateListener has been issued
  mutex,              \* holder of eventsFetchingMutex
  job,                \* job[t]: what goroutine t is doing
  fetchFrom,          \* listener: next block to ask for, or Nil: not started
  failures            \* failed calls and crashes so far

chainVars   == <<head, fork, emits>>
emitterVars == <<latestBlockNumber, phase, mutex, fetchFrom>>
serviceVars == <<accepted, savedLatestBlock, store>>
vars == <<chainVars, emitterVars, serviceVars, loaded, job, failures>>

Event    == Nat \X Nat
Snapshot == [block : Nat, payload : SUBSET Event]
NoEvents == [s \in Services |-> {}]

Job == [pc    : {"idle", "waiting", "processing", "commit",
                 "advance", "assign"},
        from  : Nat,                      \* fromBlock
        last  : Nat,                      \* lastBlock, or the server's answer
        batch : [Services -> SUBSET Event],
        next  : 1 .. ServiceCount + 1,    \* next event processor to run
        why   : {"update", "init"}]       \* Init starts the listener after it

IdleJob == [pc |-> "idle", from |-> 0, last |-> 0, batch |-> NoEvents,
            next |-> 1, why |-> "update"]

LatestBlockNumber ==
  IF latestBlockNumber = Nil THEN InitialBlockNumber ELSE latestBlockNumber

\* Mutant: the newest block is counted among the safe ones.
SafeBlockTooHigh(h) == h - ReorgDepth + 2

\* Mutant: the + 1 is lost.
SafeBlockTooLow(h) == h - ReorgDepth

\* uint64 arithmetic of latest - reorgDepth + 1.
SafeBlock(h) ==
  IF h + 1 >= ReorgDepth THEN h - ReorgDepth + 1
                         ELSE h - ReorgDepth + 1 + WordSize

GetLastBlockNumberForEventRequest(h) ==
  IF ~IsServer THEN h
  ELSE IF LatestBlockNumber > SafeBlock(h) THEN LatestBlockNumber
                                           ELSE SafeBlock(h)

\* FilterLogs over both contracts, page by page: every event in the range.
GetEventsInRange(from, to) ==
  [s \in Services |-> {e \in emits[s] : e[1] \in from .. to}]

-----------------------------------------------------------------------------
Init ==
  /\ head = InitialHead /\ fork = 0 /\ emits = NoEvents
  /\ latestBlockNumber = Nil /\ phase = "new"
  /\ mutex = None /\ fetchFrom = Nil
  /\ accepted = NoEvents
  /\ savedLatestBlock = [s \in Services |-> 0]
  /\ store = [s \in Services |-> [block |-> 0, payload |-> {}]]
  /\ loaded = 0
  /\ job = [t \in Threads |-> IdleJob]
  /\ failures = 0

(***************************************************************************)
(* The chain (external): a block is appended, or the top k blocks are      *)
(* replaced by k + 1 others.                                               *)
(***************************************************************************)
ChainGrows(S) ==
  /\ head < MaxBlock
  /\ head' = head + 1
  /\ emits' = [s \in Services |->
                 IF s \in S THEN emits[s] \cup {<<head + 1, fork>>}
                            ELSE emits[s]]
  /\ UNCHANGED <<fork, emitterVars, serviceVars, loaded, job, failures>>

Reorg(k, blocks) ==
  /\ head < MaxBlock /\ fork < MaxForks
  /\ k <= head
  /\ head' = head + 1
  /\ fork' = fork + 1
  /\ emits' = [s \in Services |->
                 {e \in emits[s] : e[1] <= head - k}
                   \cup {<<b, fork + 1>> : b \in blocks[s]}]
  /\ UNCHANGED <<emitterVars, serviceVars, loaded, job, failures>>

(***************************************************************************)
(* The snapshot server (external), as a client sees it: the stored         *)
(* snapshot of a service is replaced by one that holds every event up to   *)
(* its block and perhaps later ones, which is what SaveSnapshot below      *)
(* writes on the server (StoreCovers).  Only what is stored while services *)
(* load their snapshots is ever read.                                      *)
(***************************************************************************)
SnapshotServerSaves(s, b, late) ==
  /\ ~IsServer /\ loaded < ServiceCount
  /\ store' = [store EXCEPT ![s] =
       [block |-> b,
        payload |-> {e \in emits[s] : e[1] <= b} \cup (late \cap emits[s])]]
  /\ UNCHANGED <<chainVars, emitterVars, accepted, savedLatestBlock, loaded,
                 job, failures>>

-----------------------------------------------------------------------------
\* Mutant: the newest of the loaded snapshots decides where to read on.
SyncFromNewest(b) ==
  IF b > latestBlockNumber THEN b ELSE latestBlockNumber

SyncFromAtMost(b) ==
  IF latestBlockNumber = Nil \/ b < latestBlockNumber THEN b
                                                      ELSE latestBlockNumber

\* Mutant: the payload of the snapshot is dropped.
PopulateNothing(s) == {}

PopulateSnapshot(s) == store[s].payload

(***************************************************************************)
(* SnapshotService.loadSnapshot of the next service: the payload replaces  *)
(* the service's state and SyncFromAtMost lowers latestBlockNumber to the  *)
(* oldest snapshot loaded.  The services are loaded one after the other    *)
(* before anything drives the emitter.                                     *)
(***************************************************************************)
LoadSnapshot ==
  LET s == loaded + 1 IN
  /\ loaded < ServiceCount
  /\ accepted' = [accepted EXCEPT ![s] = PopulateSnapshot(s)]
  /\ latestBlockNumber' = SyncFromAtMost(store[s].block)
  /\ savedLatestBlock' = [savedLatestBlock EXCEPT ![s] = store[s].block]
  /\ loaded' = s
  /\ UNCHANGED <<chainVars, phase, mutex, fetchFrom, store, job, failures>>

(***************************************************************************)
(* A call of RetrieveEvents evaluates its fromBlock before it asks for the *)
(* mutex: LatestBlockNumber() from a poll tick or from                     *)
(* RetrieveEventsFromLatestBlock, LatestBlockNumber()+1 from Init and from *)
(* resetMerkleTreeForChain.                                                *)
(***************************************************************************)
CallRetrieve(t, from, why) ==
  /\ loaded = ServiceCount
  /\ job[t].pc = "idle"
  /\ job' = [job EXCEPT ![t] =
               [IdleJob EXCEPT !.pc = "waiting", !.from = from, !.why = why]]

RetrieveEventsFromLatestBlock(t) ==
  /\ t \in Callers
  /\ CallRetrieve(t, LatestBlockNumber, "update")
  /\ UNCHANGED <<chainVars, emitterVars, serviceVars, loaded, failures>>

ResetRetrieve(t) ==
  /\ t \in Callers
  /\ CallRetrieve(t, LatestBlockNumber + 1, "update")
  /\ UNCHANGED <<chainVars, emitterVars, serviceVars, loaded, failures>>

\* Init refuses a second call, and stays ready when its retrieval fails.
EmitterInit(t) ==
  /\ t \in Callers
  /\ phase = "new"
  /\ phase' = "ready"
  /\ CallRetrieve(t, LatestBlockNumber + 1, "init")
  /\ UNCHANGED <<chainVars, latestBlockNumber, mutex, fetchFrom, serviceVars,
                 loaded, failures>>

PollTick ==
  /\ Delegate = "polling" /\ fetchFrom # Nil
  /\ CallRetrieve(Listener, LatestBlockNumber, "update")
  /\ UNCHANGED <<chainVars, emitterVars, serviceVars, loaded, failures>>

\* inProgress is set and cleared under the mutex, so the holder never sees it
\* set.  A lagging node may report a head below the one it reported before.
\* A call with nothing to read returns nil, on which Init starts the listener.
StartFetch(t, lag) ==
  LET last == GetLastBlockNumberForEventRequest(head - lag) IN
  /\ job[t].pc = "waiting" /\ (t = Listener => Delegate = "polling")
  /\ mutex = None
  /\ IF last < job[t].from
       THEN /\ job' = [job EXCEPT ![t] = IdleJob]
            /\ phase' = IF job[t].why = "init" THEN "starting" ELSE phase
            /\ UNCHANGED mutex
       ELSE /\ job' = [job EXCEPT ![t].pc = "processing", ![t].last = last,
                       ![t].batch = GetEventsInRange(job[t].from, last)]
            /\ mutex' = t
            /\ UNCHANGED phase
  /\ UNCHANGED <<chainVars, latestBlockNumber, fetchFrom, serviceVars,
                 loaded, failures>>

\* BlockNumber or FilterLogs fails: the call returns without a trace.
FetchFails(t) ==
  /\ job[t].pc = "waiting" /\ (t = Listener => Delegate = "polling")
  /\ mutex = None
  /\ failures < MaxFailures
  /\ failures' = failures + 1
  /\ job' = [job EXCEPT ![t] = IdleJob]
  /\ UNCHANGED <<chainVars, emitterVars, serviceVars, loaded>>

(***************************************************************************)
(* processEvents runs the processors one by one.  A processor applies the  *)
(* events of its own name and then, when something was new or the last     *)
(* save is SaveDepth behind, saves a snapshot under the block number that  *)
(* the emitter has now, which is still the one before this batch.  A       *)
(* client's persistFn does nothing.  A failing persistFn leaves the events *)
(* applied and aborts the batch.                                           *)
(***************************************************************************)
Applied(t, s) == accepted[s] \cup job[t].batch[s]

MustSave(t, s) ==
  \/ Applied(t, s) # accepted[s]
  \/ savedLatestBlock[s] + SaveDepth < LatestBlockNumber

\* Mutant: the snapshot is taken before the batch and labelled with its end.
SnapshotBeforeBatch(t, s) ==
  [block |-> job[t].last, payload |-> accepted[s]]

SaveSnapshot(t, s) ==
  [block |-> LatestBlockNumber, payload |-> Applied(t, s)]

AfterProcessor(s) == IF s = ServiceCount THEN "commit" ELSE "processing"

ProcessPage(t) ==
  LET s == job[t].next IN
  /\ job[t].pc = "processing" /\ mutex = t
  /\ accepted' = [accepted EXCEPT ![s] = Applied(t, s)]
  /\ IF MustSave(t, s)
       THEN /\ savedLatestBlock' = [savedLatestBlock EXCEPT ![s] = LatestBlockNumber]
            /\ store' = IF IsServer THEN [store EXCEPT ![s] = SaveSnapshot(t, s)]
                                    ELSE store
       ELSE UNCHANGED <<savedLatestBlock, store>>
  /\ job' = [job EXCEPT ![t].next = s + 1, ![t].pc = AfterProcessor(s)]
  /\ UNCHANGED <<chainVars, emitterVars, loaded, failures>>

PersistFails(t) ==
  LET s == job[t].next IN
  /\ job[t].pc = "processing" /\ mutex = t
  /\ IsServer /\ MustSave(t, s)
  /\ failures < MaxFailures
  /\ failures' = failures + 1
  /\ accepted' = [accepted EXCEPT ![s] = Applied(t, s)]
  /\ savedLatestBlock' = [savedLatestBlock EXCEPT ![s] = LatestBlockNumber]
  /\ job' = [job EXCEPT ![t] = IdleJob]
  /\ mutex' = None
  /\ UNCHANGED <<chainVars, latestBlockNumber, phase, fetchFrom,
                 store, loaded>>

\* The end of RetrieveEvents assigns lastBlock, whatever the value was.
CommitRetrieve(t) ==
  /\ job[t].pc = "commit" /\ (t = Listener => Delegate = "polling")
  /\ latestBlockNumber' = job[t].last
  /\ mutex' = None
  /\ phase' = IF job[t].why = "init" THEN "starting" ELSE phase
  /\ job' = [job EXCEPT ![t] = IdleJob]
  /\ UNCHANGED <<chainVars, fetchFrom, serviceVars, loaded, failures>>

-----------------------------------------------------------------------------
\* Mutant: the listener starts one block too late.
StartListenerLate ==
  /\ phase = "starting"
  /\ phase' = "ready"
  /\ fetchFrom' = LatestBlockNumber + 2
  /\ UNCHANGED <<chainVars, latestBlockNumber, mutex, serviceVars,
                 loaded, job, failures>>

(***************************************************************************)
(* The listener.  StartUpdateListener runs in its own goroutine and reads  *)
(* LatestBlockNumber once; the client delegate then asks the snapshot      *)
(* server for everything from fetchFrom on.                                *)
(***************************************************************************)
StartUpdateListener ==
  /\ phase = "starting"
  /\ phase' = "ready"
  /\ fetchFrom' = LatestBlockNumber + 1
  /\ UNCHANGED <<chainVars, latestBlockNumber, mutex, serviceVars,
                 loaded, job, failures>>

\* Mutant: an answer that ends at fetchFrom itself counts as old.
PollServerLater(b) ==
  LET batch == GetEventsInRange(fetchFrom, b) IN
  /\ Delegate = "client" /\ fetchFrom # Nil
  /\ job[Listener].pc = "idle"
  /\ b > fetchFrom
  /\ job' = [job EXCEPT ![Listener] =
               [IdleJob EXCEPT !.pc = IF batch = NoEvents THEN "advance" ELSE "waiting",
                               !.from = fetchFrom, !.last = b, !.batch = batch]]
  /\ UNCHANGED <<chainVars, emitterVars, serviceVars, loaded, failures>>

\* The answer of the snapshot server, which has scanned up to block b.
PollServer(b) ==
  LET batch == GetEventsInRange(fetchFrom, b) IN
  /\ Delegate = "client" /\ fetchFrom # Nil
  /\ job[Listener].pc = "idle"
  /\ b >= fetchFrom
  /\ job' = [job EXCEPT ![Listener] =
               [IdleJob EXCEPT !.pc = IF batch = NoEvents THEN "advance" ELSE "waiting",
                               !.from = fetchFrom, !.last = b, !.batch = batch]]
  /\ UNCHANGED <<chainVars, emitterVars, serviceVars, loaded, failures>>

\* ProcessExternalEvents: lock, processEvents, AdvanceLatestBlockNumber.
LockExternal ==
  /\ Delegate = "client" /\ job[Listener].pc = "waiting"
  /\ mutex = None
  /\ mutex' = Listener
  /\ job' = [job EXCEPT ![Listener].pc = "processing"]
  /\ UNCHANGED <<chainVars, latestBlockNumber, phase, fetchFrom,
                 serviceVars, loaded, failures>>

\* blockNumber > *latestBlockNumber
Advances(b) == latestBlockNumber = Nil \/ b > latestBlockNumber

CommitExternal ==
  /\ Delegate = "client" /\ job[Listener].pc = "commit"
  /\ latestBlockNumber' = IF Advances(job[Listener].last) THEN job[Listener].last
                                                          ELSE latestBlockNumber
  /\ mutex' = None
  /\ job' = [job EXCEPT ![Listener].pc = "advance"]
  /\ UNCHANGED <<chainVars, phase, fetchFrom, serviceVars, loaded,
                 failures>>

\* The second AdvanceLatestBlockNumber holds no lock: the comparison and the
\* assignment are two steps, and a RetrieveEvents may commit between them.
AdvanceCompare ==
  /\ job[Listener].pc = "advance"
  /\ fetchFrom' = job[Listener].last + 1
  /\ job' = [job EXCEPT ![Listener] =
               IF Advances(job[Listener].last) THEN [@ EXCEPT !.pc = "assign"]
                                               ELSE IdleJob]
  /\ UNCHANGED <<chainVars, latestBlockNumber, phase, mutex,
                 serviceVars, loaded, failures>>

AdvanceAssign ==
  /\ job[Listener].pc = "assign"
  /\ latestBlockNumber' = job[Listener].last
  /\ job' = [job EXCEPT ![Listener] = IdleJob]
  /\ UNCHANGED <<chainVars, phase, mutex, fetchFrom, serviceVars,
                 loaded, failures>>

(***************************************************************************)
(* The process stops and starts again: only the stored snapshots remain.   *)
(* For a client this is also resetMerkleTreeForChain, which discards the   *)
(* emitter and its services and builds new ones.                           *)
(***************************************************************************)
Restart ==
  /\ failures < MaxFailures
  /\ failures' = failures + 1
  /\ latestBlockNumber' = Nil /\ phase' = "new"
  /\ mutex' = None /\ fetchFrom' = Nil
  /\ accepted' = NoEvents
  /\ savedLatestBlock' = [s \in Services |-> 0]
  /\ loaded' = 0
  /\ job' = [t \in Threads |-> IdleJob]
  /\ UNCHANGED <<chainVars, store>>

-----------------------------------------------------------------------------
Chain ==
  \/ \E S \in SUBSET Services : ChainGrows(S)
  \/ \E k \in 1 .. MaxReorg :
       \E blocks \in [Services -> SUBSET (head - k + 1 .. head + 1)] :
         Reorg(k, blocks)
  \/ \E s \in Services, b \in 0 .. head :
       \E late \in SUBSET emits[s] : SnapshotServerSaves(s, b, late)

Retrieve(t) ==
  \/ RetrieveEventsFromLatestBlock(t)
  \/ ResetRetrieve(t)
  \/ EmitterInit(t)
  \/ \E lag \in 0 .. RpcLag : lag <= head /\ StartFetch(t, lag)
  \/ FetchFails(t)
  \/ ProcessPage(t)
  \/ PersistFails(t)
  \/ CommitRetrieve(t)

Listen ==
  \/ StartUpdateListener
  \/ PollTick
  \/ \E b \in 0 .. head : PollServer(b)
  \/ LockExternal
  \/ CommitExternal
  \/ AdvanceCompare
  \/ AdvanceAssign

Next ==
  \/ Chain
  \/ \E t \in Threads : Retrieve(t)
  \/ Listen
  \/ LoadSnapshot
  \/ Restart

Spec == Init /\ [][Next]_vars

(***************************************************************************)
(* Fairness: goroutines that can run do run, a started listener ticks, and *)
(* the snapshot server answers with its newest block again and again.      *)
(***************************************************************************)
Fairness ==
  /\ WF_vars(LoadSnapshot)
  /\ WF_vars(StartUpdateListener)
  /\ WF_vars(PollTick)
  /\ WF_vars(PollServer(head))
  /\ SF_vars(LockExternal)
  /\ WF_vars(CommitExternal)
  /\ WF_vars(AdvanceCompare)
  /\ WF_vars(AdvanceAssign)
  /\ \A t \in Threads : /\ SF_vars(StartFetch(t, 0))
                        /\ WF_vars(ProcessPage(t))
                        /\ WF_vars(CommitRetrieve(t))

FairSpec == Spec /\ Fairness

-----------------------------------------------------------------------------
JobsOK ==
  /\ job \in [Threads -> Job]
  /\ \A t \in Threads :
       job[t].pc \in {"waiting", "processing"} => job[t].next \in Services

TypeOK ==
  /\ head \in Nat /\ fork \in Nat
  /\ emits \in [Services -> SUBSET Event]
  /\ latestBlockNumber \in Nat \cup {Nil}
  /\ accepted \in [Services -> SUBSET Event]
  /\ savedLatestBlock \in [Services -> Nat]
  /\ store \in [Services -> Snapshot]
  /\ loaded \in 0 .. ServiceCount
  /\ phase \in {"new", "ready", "starting"}
  /\ mutex \in Threads \cup {None}
  /\ JobsOK
  /\ fetchFrom \in Nat \cup {Nil}
  /\ failures \in Nat

\* Every canonical event of service s up to block b is in set.
Holds(s, b, set) == \A e \in emits[s] : e[1] <= b => e \in set

(***************************************************************************)
(* No event is lost: once the services are loaded, every event of a block  *)
(* up to LatestBlockNumber has been applied by its service, whatever the   *)
(* interleaving of retrievals, listener and stale fromBlocks, and whatever *)
(* processor failed half way through a batch (emitter.go RetrieveEvents,   *)
(* ProcessExternalEvents, AdvanceLatestBlockNumber, SyncFromAtMost).       *)
(***************************************************************************)
NoEventLost ==
  loaded = ServiceCount =>
    \A s \in Services : Holds(s, LatestBlockNumber, accepted[s])

(***************************************************************************)
(* A stored snapshot is never older than the block number it claims, even  *)
(* though it is written in the middle of a batch (snapshot.go              *)
(* SaveSnapshot, called before latestBlockNumber moves), so that loading   *)
(* it and reading on from its block misses nothing.                        *)
(***************************************************************************)
StoreCovers ==
  \A s \in Services : Holds(s, store[s].block, store[s].payload)

(***************************************************************************)
(* The listener's private cursor never skips an unapplied event            *)
(* (client.go fetchFrom): it survives failed batches and a latestBlock-    *)
(* Number that a retrieval moved meanwhile.                                *)
(***************************************************************************)
ListenerNeverSkips ==
  fetchFrom # Nil => \A s \in Services : Holds(s, fetchFrom - 1, accepted[s])

(***************************************************************************)
(* A server never applies or stores an event that a reorganisation later   *)
(* removes from the chain (emitter.go GetLastBlockNumberForEventRequest).  *)
(***************************************************************************)
NoOrphans ==
  \A s \in Services : /\ accepted[s] \subseteq emits[s]
                      /\ store[s].payload \subseteq emits[s]

(***************************************************************************)
(* A server's stored snapshot only gains events, over failed batches,      *)
(* restarts and saves under an older block number.                         *)
(***************************************************************************)
StoreGrows ==
  [][IsServer => \A s \in Services : store[s].payload \subseteq store'[s].payload]_vars

\* The block up to which the emitter has to read: the head, or the newest
\* block a server may trust.
Target == IF IsServer THEN head - ReorgDepth + 1 ELSE head

(***************************************************************************)
(* A running listener catches up with the chain (polling.go, client.go):   *)
(* from the moment it is started, unless the process restarts, every event *)
(* of the blocks the emitter has to read is applied.  latestBlockNumber    *)
(* itself need not get there: a retrieval that was overtaken by the        *)
(* listener commits an older block number, and the client's listener only  *)
(* raises it with the next block.                                          *)
(***************************************************************************)
ListenerCatchesUp ==
  fetchFrom # Nil ~> \/ \A s \in Services : Holds(s, Target, accepted[s])
                     \/ fetchFrom = Nil
=============================================================================
