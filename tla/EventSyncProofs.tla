--------------------------- MODULE EventSyncProofs ---------------------------
(***************************************************************************)
(* Proofs about EventSync for any number of services, callers and blocks.  *)
(*                                                                         *)
(* NoEventLost is not inductive: it says nothing of what a goroutine has   *)
(* already read when it commits, of the snapshots a restart will load, or  *)
(* of the blocks a reorganisation can still change.  IInv adds those.      *)
(***************************************************************************)
EXTENDS EventSync, TLAPS

\* Blocks up to here are never reorganised any more.
Stable == head - MaxReorg

AppliedUpTo(b) == \A s \in Services : Holds(s, b, accepted[s])

\* Nothing that has been scanned or saved lies above Stable.
BelowStable ==
  /\ head >= InitialHead
  /\ \A s \in Services : \A e \in emits[s] : e[1] <= head
  /\ latestBlockNumber <= Stable
  /\ \A s \in Services : store[s].block <= Stable
  /\ \A t \in Threads : job[t].last <= Stable /\ job[t].from - 1 <= Stable
  /\ fetchFrom # Nil => fetchFrom - 1 <= Stable

\* Whatever was applied, stored or fetched is canonical and stable.
Final(s, set) == \A e \in set : e \in emits[s] /\ e[1] <= Stable

OnlyFinal ==
  \A s \in Services : /\ Final(s, accepted[s])
                      /\ Final(s, store[s].payload)
                      /\ \A t \in Threads : Final(s, job[t].batch[s])

\* Until every service has loaded its snapshot nothing drives the emitter,
\* and the services loaded so far hold everything up to latestBlockNumber.
LoadPhase ==
  /\ loaded = 0 => latestBlockNumber = Nil
  /\ loaded > 0 => latestBlockNumber # Nil
  /\ loaded < ServiceCount =>
       /\ \A t \in Threads : job[t].pc = "idle"
       /\ fetchFrom = Nil /\ phase = "new"
  /\ \A s \in Services : s <= loaded => Holds(s, latestBlockNumber, accepted[s])

\* The batch of a goroutine holds the events it stands for.
Complete(j) ==
  \A s \in Services : \A e \in emits[s] :
    j.from <= e[1] /\ e[1] <= j.last => e \in j.batch[s]

\* A goroutine has seen everything below its fromBlock applied, and the
\* processors it has run have applied everything up to its lastBlock.
JobInv(t, j) ==
  /\ j.pc # "idle" => AppliedUpTo(j.from - 1)
  /\ \/ j.pc \in {"processing", "commit"}
     \/ Delegate = "client" /\ t = Listener /\ j.pc = "waiting"
     => Complete(j)
  /\ j.pc \in {"processing", "commit"} =>
       \A s \in Services : s < j.next => Holds(s, j.last, accepted[s])
  /\ j.pc = "waiting" => j.next = 1
  /\ j.pc = "commit" => j.next = ServiceCount + 1
  /\ j.pc \in {"advance", "assign"} => t = Listener /\ AppliedUpTo(j.last)

JobsInv == \A t \in Threads : JobInv(t, job[t])

IInv ==
  /\ TypeOK
  /\ BelowStable
  /\ OnlyFinal
  /\ StoreCovers
  /\ LoadPhase
  /\ JobsInv
  /\ ListenerNeverSkips

-----------------------------------------------------------------------------
USE ConstantsAssumption

\* The scalars among the constants, in the form the provers use.
LEMMA ScalarConstants ==
  /\ ServiceCount \in Nat /\ ServiceCount >= 1
  /\ InitialBlockNumber \in Nat /\ ReorgDepth \in Nat /\ SaveDepth \in Nat
  /\ WordSize \in Nat /\ InitialHead \in Nat /\ MaxReorg \in Nat
  /\ RpcLag \in Nat /\ MaxBlock \in Nat /\ MaxForks \in Nat
  /\ MaxFailures \in Nat /\ ReorgDepth < WordSize
  BY ConstantsAssumption

\* The blocks that are read off the emitter and the RPC node are naturals.
LEMMA BlockTypes ==
  ASSUME TypeOK
  PROVE  /\ LatestBlockNumber \in Nat
         /\ \A h \in Nat : SafeBlock(h) \in Nat
         /\ \A h \in Nat : GetLastBlockNumberForEventRequest(h) \in Nat
  BY ScalarConstants
     DEF TypeOK, LatestBlockNumber, SafeBlock, GetLastBlockNumberForEventRequest, Nil

\* A batch is a set of canonical events, one for each service.
LEMMA BatchType ==
  ASSUME TypeOK, NEW from \in Nat, NEW to \in Nat
  PROVE  GetEventsInRange(from, to) \in [Services -> SUBSET Event]
  BY DEF TypeOK, GetEventsInRange

LEMMA IdleJobType ==
  /\ IdleJob \in Job
  /\ IdleJob.pc = "idle" /\ IdleJob.last = 0 /\ IdleJob.batch = NoEvents
  /\ IdleJob.next = 1 /\ 1 \in Services
  BY ScalarConstants DEF IdleJob, Job, NoEvents, Event, Services

(***************************************************************************)
(* Type correctness.                                                       *)
(***************************************************************************)
LEMMA TypeInit == Init => TypeOK
<1> SUFFICES ASSUME Init PROVE TypeOK
  OBVIOUS
<1>1. JobsOK
  BY IdleJobType DEF Init, JobsOK
<1>2. store \in [Services -> Snapshot] /\ NoEvents \in [Services -> SUBSET Event]
  BY DEF Init, Snapshot, NoEvents
<1> QED
  BY <1>1, <1>2, ScalarConstants DEF Init, TypeOK, Threads

\* The ways a step changes the table of jobs keep it well typed.
LEMMA SetJobsOK ==
  ASSUME JobsOK, NEW t \in Threads, NEW j \in Job,
         j.pc \in {"waiting", "processing"} => j.next \in Services,
         job' = [job EXCEPT ![t] = j]
  PROVE  JobsOK'
  BY DEF JobsOK

LEMMA IdleJobsOK ==
  ASSUME JobsOK, NEW t \in Threads, job' = [job EXCEPT ![t] = IdleJob]
  PROVE  JobsOK'
  BY IdleJobType DEF JobsOK

LEMMA CallRetrieveJobsOK ==
  ASSUME JobsOK, NEW t \in Threads, NEW from \in Nat, NEW why \in {"update", "init"},
         CallRetrieve(t, from, why)
  PROVE  JobsOK'
<1> DEFINE j == [IdleJob EXCEPT !.pc = "waiting", !.from = from, !.why = why]
<1>1. j \in Job /\ j.next = 1
  BY IdleJobType DEF Job, IdleJob
<1>2. job' = [job EXCEPT ![t] = j]
  BY DEF CallRetrieve
<1> HIDE DEF j
<1> QED
  BY <1>1, <1>2, IdleJobType, SetJobsOK

LEMMA PcJobsOK ==
  ASSUME JobsOK, NEW t \in Threads,
         NEW pc \in {"processing", "commit", "advance", "assign"},
         pc = "processing" => job[t].next \in Services,
         job' = [job EXCEPT ![t].pc = pc]
  PROVE  JobsOK'
<1> DEFINE j == [job[t] EXCEPT !.pc = pc]
<1>1. job[t] \in Job
  BY DEF JobsOK
<1>2. j \in Job /\ j.pc = pc /\ j.next = job[t].next
  BY <1>1 DEF Job
<1>3. job' = [job EXCEPT ![t] = j]
  BY DEF JobsOK
<1> HIDE DEF j
<1>4. j.pc \in {"waiting", "processing"} => j.next \in Services
  BY <1>2
<1> QED
  BY <1>2, <1>3, <1>4, SetJobsOK

LEMMA TypeStep == TypeOK /\ [Next]_vars => TypeOK'
<1> SUFFICES ASSUME TypeOK, [Next]_vars PROVE TypeOK'
  OBVIOUS
<1> USE ScalarConstants
<1>0. JobsOK
  BY DEF TypeOK
<1>1. ASSUME NEW S \in SUBSET Services, ChainGrows(S) PROVE TypeOK'
  BY <1>1 DEF ChainGrows, TypeOK, JobsOK, Event, emitterVars, serviceVars
<1>2. ASSUME NEW k \in 1 .. MaxReorg,
             NEW blocks \in [Services -> SUBSET (head - k + 1 .. head + 1)],
             Reorg(k, blocks)
      PROVE  TypeOK'
  BY <1>2 DEF Reorg, TypeOK, JobsOK, Event, emitterVars, serviceVars
<1>3. ASSUME NEW s \in Services, NEW b \in 0 .. head,
             NEW late \in SUBSET emits[s], SnapshotServerSaves(s, b, late)
      PROVE  TypeOK'
  BY <1>3 DEF SnapshotServerSaves, TypeOK, JobsOK, Snapshot, chainVars, emitterVars
<1>4. ASSUME LoadSnapshot PROVE TypeOK'
  BY <1>4 DEF LoadSnapshot, TypeOK, JobsOK, Snapshot, Services, PopulateSnapshot,
              SyncFromAtMost, chainVars, Nil
<1>5. ASSUME Restart PROVE TypeOK'
  <2>1. JobsOK'
    BY <1>5, IdleJobType DEF Restart, JobsOK
  <2>2. NoEvents \in [Services -> SUBSET Event]
    BY DEF NoEvents
  <2> QED
    BY <1>5, <2>1, <2>2 DEF Restart, TypeOK, chainVars
<1>6. ASSUME NEW t \in Threads, Retrieve(t) PROVE TypeOK'
  <2>1. CASE RetrieveEventsFromLatestBlock(t) \/ ResetRetrieve(t)
    <3>1. JobsOK'
      BY <1>0, <2>1, BlockTypes, CallRetrieveJobsOK
         DEF RetrieveEventsFromLatestBlock, ResetRetrieve
    <3> QED
      BY <2>1, <3>1 DEF RetrieveEventsFromLatestBlock, ResetRetrieve, TypeOK,
                        chainVars, emitterVars, serviceVars
  <2>2. CASE EmitterInit(t)
    <3>1. JobsOK'
      BY <1>0, <2>2, BlockTypes, CallRetrieveJobsOK DEF EmitterInit
    <3> QED
      BY <2>2, <3>1 DEF EmitterInit, TypeOK, chainVars, serviceVars
  <2>3. ASSUME NEW lag \in 0 .. RpcLag, lag <= head, StartFetch(t, lag)
        PROVE  TypeOK'
    <3> DEFINE last == GetLastBlockNumberForEventRequest(head - lag)
    <3>1. last \in Nat
      BY <2>3, BlockTypes DEF TypeOK
    <3>2. GetEventsInRange(job[t].from, last) \in [Services -> SUBSET Event]
      BY <1>0, <3>1, BatchType DEF JobsOK, Job
    <3>3. CASE last < job[t].from
      BY <1>0, <2>3, <3>3, IdleJobsOK DEF StartFetch, TypeOK, chainVars, serviceVars
    <3>4. CASE ~(last < job[t].from)
      <4> HIDE DEF last
      <4>1. job[t] \in Job /\ job[t].next \in Services
        BY <1>0, <2>3 DEF StartFetch, JobsOK
      <4> DEFINE j == [job[t] EXCEPT !.pc = "processing", !.last = last,
                                     !.batch = GetEventsInRange(job[t].from, last)]
      <4>2. JobsOK'
        <5>1. j \in Job /\ j.next \in Services
          BY <3>1, <3>2, <4>1 DEF Job
        <5>2. job' = [job EXCEPT ![t] = j]
          BY <2>3, <3>4 DEF StartFetch, last
        <5> QED
          BY <1>0, <5>1, <5>2, SetJobsOK
      <4> QED
        BY <2>3, <3>4, <4>2 DEF StartFetch, TypeOK, chainVars, serviceVars, last
    <3> QED
      BY <3>3, <3>4
  <2>4. CASE FetchFails(t)
    <3>1. JobsOK'
      BY <1>0, <2>4, IdleJobsOK DEF FetchFails
    <3> QED
      BY <2>4, <3>1 DEF FetchFails, TypeOK, chainVars, emitterVars, serviceVars
  <2>5. CASE ProcessPage(t)
    <3>1. job[t].next \in Services /\ job[t] \in Job
      BY <1>0, <2>5 DEF ProcessPage, JobsOK
    <3>2. JobsOK'
      <4> DEFINE j == [job[t] EXCEPT !.next = job[t].next + 1,
                                     !.pc = AfterProcessor(job[t].next)]
      <4>0. /\ job[t].next + 1 \in 1 .. ServiceCount + 1
            /\ AfterProcessor(job[t].next) \in {"processing", "commit"}
            /\ AfterProcessor(job[t].next) = "processing" => job[t].next + 1 \in Services
        BY <3>1 DEF AfterProcessor, Services
      <4>1. j \in Job /\ (j.pc \in {"waiting", "processing"} => j.next \in Services)
        BY <3>1, <4>0 DEF Job
      <4>2. job' = [job EXCEPT ![t] = j]
        BY <2>5 DEF ProcessPage
      <4> QED
        BY <1>0, <4>1, <4>2, SetJobsOK
    <3>3. Applied(t, job[t].next) \in SUBSET Event
      BY <3>1 DEF Applied, TypeOK, Job
    <3>4. accepted' \in [Services -> SUBSET Event]
      BY <2>5, <3>1, <3>3 DEF ProcessPage, TypeOK
    <3>5. savedLatestBlock' \in [Services -> Nat]
      BY <2>5, BlockTypes DEF ProcessPage, TypeOK
    <3>6. SaveSnapshot(t, job[t].next) \in Snapshot
      BY <3>3, BlockTypes DEF SaveSnapshot, Snapshot
    <3>7. store' \in [Services -> Snapshot]
      BY <2>5, <3>6 DEF ProcessPage, TypeOK
    <3> QED
      BY <2>5, <3>2, <3>4, <3>5, <3>7 DEF ProcessPage, TypeOK, chainVars, emitterVars
  <2>6. CASE PersistFails(t)
    <3>1. job[t].next \in Services /\ job[t] \in Job
      BY <1>0, <2>6 DEF PersistFails, JobsOK
    <3>2. JobsOK'
      BY <1>0, <2>6, IdleJobsOK DEF PersistFails
    <3> QED
      BY <2>6, <3>1, <3>2, BlockTypes DEF PersistFails, TypeOK, Job, Applied, chainVars
  <2>7. CASE CommitRetrieve(t)
    <3>1. JobsOK'
      BY <1>0, <2>7, IdleJobsOK DEF CommitRetrieve
    <3>2. job[t].last \in Nat /\ job[t].why \in {"update", "init"}
      BY <1>0 DEF JobsOK, Job
    <3> QED
      BY <2>7, <3>1, <3>2 DEF CommitRetrieve, TypeOK, chainVars, serviceVars
  <2> QED
    BY <1>6, <2>1, <2>2, <2>3, <2>4, <2>5, <2>6, <2>7 DEF Retrieve
<1>7. ASSUME Listen PROVE TypeOK'
  <2>0. Listener \in Threads /\ job[Listener] \in Job
    BY <1>0 DEF Threads, JobsOK
  <2>1. CASE StartUpdateListener
    BY <2>1, BlockTypes DEF StartUpdateListener, TypeOK, JobsOK, chainVars, serviceVars
  <2>2. CASE PollTick
    <3>1. JobsOK'
      BY <1>0, <2>0, <2>2, BlockTypes, CallRetrieveJobsOK DEF PollTick
    <3> QED
      BY <2>2, <3>1 DEF PollTick, TypeOK, chainVars, emitterVars, serviceVars
  <2>3. ASSUME NEW b \in 0 .. head, PollServer(b) PROVE TypeOK'
    <3>1. b \in Nat /\ fetchFrom \in Nat
      BY <2>3 DEF PollServer, TypeOK
    <3>2. GetEventsInRange(fetchFrom, b) \in [Services -> SUBSET Event]
      BY <3>1, BatchType
    <3>3. JobsOK'
      BY <1>0, <2>0, <2>3, <3>1, <3>2, IdleJobType DEF PollServer, JobsOK, Job, IdleJob
    <3> QED
      BY <2>3, <3>3 DEF PollServer, TypeOK, chainVars, emitterVars, serviceVars
  <2>4. CASE LockExternal
    <3>1. JobsOK'
      BY <1>0, <2>0, <2>4, PcJobsOK DEF LockExternal, JobsOK
    <3> QED
      BY <2>0, <2>4, <3>1 DEF LockExternal, TypeOK, chainVars, serviceVars
  <2>5. CASE CommitExternal
    <3>1. JobsOK'
      BY <1>0, <2>0, <2>5, PcJobsOK DEF CommitExternal
    <3> QED
      BY <2>0, <2>5, <3>1 DEF CommitExternal, TypeOK, Job, chainVars, serviceVars
  <2>6. CASE AdvanceCompare
    <3>1. JobsOK'
      <4>1. CASE Advances(job[Listener].last)
        BY <1>0, <2>0, <2>6, <4>1, PcJobsOK DEF AdvanceCompare
      <4>2. CASE ~Advances(job[Listener].last)
        BY <1>0, <2>0, <2>6, <4>2, IdleJobsOK DEF AdvanceCompare
      <4> QED
        BY <4>1, <4>2
    <3> QED
      BY <2>0, <2>6, <3>1 DEF AdvanceCompare, TypeOK, Job, chainVars, serviceVars
  <2>7. CASE AdvanceAssign
    <3>1. JobsOK'
      BY <1>0, <2>0, <2>7, IdleJobsOK DEF AdvanceAssign
    <3> QED
      BY <2>0, <2>7, <3>1 DEF AdvanceAssign, TypeOK, Job, chainVars, serviceVars
  <2> QED
    BY <1>7, <2>1, <2>2, <2>3, <2>4, <2>5, <2>6, <2>7 DEF Listen
<1>8. CASE UNCHANGED vars
  BY <1>8 DEF vars, TypeOK, JobsOK, chainVars, emitterVars, serviceVars
<1> QED
  BY <1>1, <1>2, <1>3, <1>4, <1>5, <1>6, <1>7, <1>8 DEF Next, Chain

\* Every state of the emitter, its services and its goroutines is well typed.
THEOREM TypeCorrect == Spec => []TypeOK
  BY TypeInit, TypeStep, PTL DEF Spec

-----------------------------------------------------------------------------
(***************************************************************************)
(* The inductive invariant.                                                *)
(***************************************************************************)
LEMMA StableType ==
  ASSUME TypeOK, head >= InitialHead
  PROVE  Stable \in Nat
  BY ScalarConstants, ReorgAssumption DEF Stable, TypeOK

LEMMA IInvInit == Init => IInv
<1> SUFFICES ASSUME Init PROVE IInv
  OBVIOUS
<1> USE ScalarConstants
<1>1. TypeOK
  BY TypeInit
<1>2. Stable \in Nat
  BY <1>1, StableType DEF Init
<1>3. BelowStable
  BY <1>2 DEF Init, BelowStable, Nil, NoEvents, IdleJob
<1>4. OnlyFinal
  BY IdleJobType DEF Init, OnlyFinal, Final, NoEvents
<1>5. StoreCovers
  BY DEF Init, StoreCovers, Holds, NoEvents
<1>6. LoadPhase
  BY IdleJobType DEF Init, LoadPhase, Services
<1>7. JobsInv
  BY IdleJobType DEF Init, JobsInv, JobInv
<1>8. ListenerNeverSkips
  BY DEF Init, ListenerNeverSkips
<1> QED
  BY <1>1, <1>3, <1>4, <1>5, <1>6, <1>7, <1>8 DEF IInv

\* Stated on its own, because the provers lose track of head and head' in
\* one sum.
LEMMA SubtractMonotone ==
  ASSUME NEW x \in Nat, NEW y \in Nat, NEW m \in Nat, y >= x, x - m \in Nat
  PROVE  y - m >= x - m /\ y - m \in Nat
  OBVIOUS

LEMMA StableGrows ==
  ASSUME head \in Nat, head' \in Nat, head' >= head, Stable \in Nat
  PROVE  Stable' >= Stable /\ Stable' \in Nat
<1>1. MaxReorg \in Nat
  BY ScalarConstants
<1> QED
  BY <1>1, SubtractMonotone, Zenon DEF Stable

\* What the chain does leaves the stable blocks, and so the invariant, alone.
LEMMA ChainKeepsIInv ==
  ASSUME IInv, TypeOK', head' >= head,
         \A s \in Services : \A e \in emits'[s] : e[1] <= head',
         \A s \in Services : \A e \in Event :
           e[1] <= Stable => (e \in emits'[s] <=> e \in emits[s]),
         UNCHANGED <<emitterVars, serviceVars, loaded, job>>
  PROVE  IInv'
<1> USE ScalarConstants
<1>0. /\ UNCHANGED <<latestBlockNumber, phase, mutex, fetchFrom>>
      /\ UNCHANGED <<accepted, savedLatestBlock, store, loaded, job>>
  BY DEF emitterVars, serviceVars
<1>1. TypeOK /\ Stable \in Nat /\ Stable' >= Stable /\ Stable' \in Nat
  <2>1. TypeOK /\ head >= InitialHead
    BY DEF IInv, BelowStable
  <2>2. Stable \in Nat
    BY <2>1, StableType
  <2>3. head \in Nat /\ head' \in Nat
    BY <2>1 DEF TypeOK
  <2>4. Stable' >= Stable /\ Stable' \in Nat
    BY <2>2, <2>3, StableGrows
  <2> QED
    BY <2>1, <2>2, <2>4
<1>2. BelowStable'
  BY <1>0, <1>1 DEF IInv, BelowStable, TypeOK, JobsOK, Job, Snapshot
<1>3. \A s \in Services, set \in SUBSET Event : Final(s, set) => Final(s, set)'
  BY <1>1 DEF Final, Event, TypeOK
<1>4. OnlyFinal'
  BY <1>0, <1>1, <1>3 DEF IInv, OnlyFinal, TypeOK, JobsOK, Job, Snapshot
<1>5. \A s \in Services, b \in Int, set \in SUBSET Event :
        b <= Stable /\ Holds(s, b, set) => Holds(s, b, set)'
  BY <1>1 DEF Holds, TypeOK, Event
<1>6. StoreCovers'
  BY <1>0, <1>1, <1>5 DEF IInv, StoreCovers, BelowStable, TypeOK, Snapshot
<1>7. LoadPhase'
  <2>1. \A s \in Services : s <= loaded => Holds(s, latestBlockNumber, accepted[s])'
    BY <1>0, <1>1, <1>5 DEF IInv, LoadPhase, BelowStable, TypeOK, Nil
  <2> QED
    BY <1>0, <2>1 DEF IInv, LoadPhase
<1>8. \A b \in Int : b <= Stable /\ AppliedUpTo(b) => AppliedUpTo(b)'
  BY <1>0, <1>1, <1>5 DEF AppliedUpTo, TypeOK
<1>9. JobsInv'
  <2> SUFFICES ASSUME NEW t \in Threads PROVE JobInv(t, job[t])'
    BY <1>0 DEF JobsInv
  <2> DEFINE j == job[t]
  <2>1. /\ j \in Job /\ j.last <= Stable /\ j.from - 1 <= Stable /\ JobInv(t, j)
        /\ job'[t] = j /\ j.last \in Nat /\ j.from - 1 \in Int
    BY <1>0 DEF IInv, JobsInv, BelowStable, TypeOK, JobsOK, Job
  <2>2. Complete(j) => Complete(job[t])'
    BY <1>0, <1>1, <2>1 DEF Complete, TypeOK, Event
  <2>3. \A s \in Services : Holds(s, j.last, accepted[s]) => Holds(s, job[t].last, accepted[s])'
    BY <1>0, <1>1, <1>5, <2>1 DEF TypeOK
  <2>4. /\ AppliedUpTo(j.last) => AppliedUpTo(job[t].last)'
        /\ AppliedUpTo(j.from - 1) => AppliedUpTo(job[t].from - 1)'
    BY <1>0, <1>8, <2>1
  <2> QED
    BY <2>1, <2>2, <2>3, <2>4 DEF JobInv
<1>10. ListenerNeverSkips'
  BY <1>0, <1>1, <1>5 DEF IInv, ListenerNeverSkips, BelowStable, TypeOK, Nil
<1> QED
  BY <1>2, <1>4, <1>6, <1>7, <1>9, <1>10 DEF IInv
LEMMA ChainGrowsIInv ==
  ASSUME IInv, TypeOK', NEW S \in SUBSET Services, ChainGrows(S)
  PROVE  IInv'
<1>1. head \in Nat /\ Stable \in Nat /\ Stable <= head
  BY StableType, ScalarConstants DEF IInv, BelowStable, TypeOK, Stable
<1>2. \A s \in Services : \A e \in emits[s] : e \in Event /\ e[1] <= head
  BY DEF IInv, BelowStable, TypeOK
<1>3. head' = head + 1 /\ head' >= head
  BY <1>1 DEF ChainGrows
<1>4. \A s \in Services : \A e \in emits'[s] : e \in emits[s] \/ e = <<head + 1, fork>>
  BY DEF ChainGrows
<1>5. \A s \in Services : \A e \in emits'[s] : e[1] <= head'
  BY <1>1, <1>2, <1>3, <1>4 DEF Event
<1>6. \A s \in Services : \A e \in Event :
        e[1] <= Stable => (e \in emits'[s] <=> e \in emits[s])
  <2> SUFFICES ASSUME NEW s \in Services, NEW e \in Event, e[1] <= Stable
               PROVE  e \in emits'[s] <=> e \in emits[s]
    OBVIOUS
  <2>1. e # <<head + 1, fork>>
    BY <1>1 DEF Event
  <2>2. e \in emits[s] => e \in emits'[s]
    BY DEF ChainGrows
  <2> QED
    BY <1>4, <2>1, <2>2
<1> QED
  BY <1>3, <1>5, <1>6, ChainKeepsIInv DEF ChainGrows

LEMMA ReorgIInv ==
  ASSUME IInv, TypeOK', NEW k \in 1 .. MaxReorg,
         NEW blocks \in [Services -> SUBSET (head - k + 1 .. head + 1)],
         Reorg(k, blocks)
  PROVE  IInv'
<1>1. head \in Nat /\ Stable \in Nat /\ Stable <= head - k /\ k \in Nat
  BY StableType, ScalarConstants DEF IInv, BelowStable, TypeOK, Stable
<1>2. \A s \in Services : \A e \in emits[s] : e \in Event /\ e[1] <= head
  BY DEF IInv, BelowStable, TypeOK
<1>3. head' = head + 1 /\ head' >= head
  BY <1>1 DEF Reorg
<1>4. \A s \in Services : emits'[s] = {e \in emits[s] : e[1] <= head - k}
                                       \cup {<<b, fork + 1>> : b \in blocks[s]}
  BY DEF Reorg
<1>5. \A s \in Services : \A b \in blocks[s] : b \in Int /\ b > Stable /\ b <= head + 1
  BY <1>1
<1>6. \A s \in Services : \A e \in emits'[s] : e[1] <= head'
  BY <1>1, <1>2, <1>3, <1>4, <1>5 DEF Event
<1>7. \A s \in Services : \A e \in Event :
        e[1] <= Stable => (e \in emits'[s] <=> e \in emits[s])
  <2> SUFFICES ASSUME NEW s \in Services, NEW e \in Event, e[1] <= Stable
               PROVE  e \in emits'[s] <=> e \in emits[s]
    OBVIOUS
  <2>1. e \notin {<<b, fork + 1>> : b \in blocks[s]}
    BY <1>1, <1>5 DEF Event
  <2>2. e[1] <= head - k
    BY <1>1 DEF Event
  <2> QED
    BY <1>4, <2>1, <2>2
<1> QED
  BY <1>3, <1>6, <1>7, ChainKeepsIInv DEF Reorg
\* A step that leaves the chain alone and only adds to what was applied keeps
\* what a goroutine knows.
LEMMA JobInvFrame ==
  ASSUME UNCHANGED emits, \A s \in Services : accepted[s] \subseteq accepted'[s],
         NEW t, NEW j, JobInv(t, j)
  PROVE  JobInv(t, j)'
<1>1. \A s \in Services : \A b : Holds(s, b, accepted[s]) => Holds(s, b, accepted[s])'
  BY DEF Holds
<1>2. \A b : AppliedUpTo(b) => AppliedUpTo(b)'
  BY <1>1 DEF AppliedUpTo
<1>3. Complete(j) => Complete(j)'
  BY DEF Complete
<1> QED
  BY <1>1, <1>2, <1>3 DEF JobInv

(***************************************************************************)
(* A step of one goroutine t of the loaded emitter: t's new job j, the new *)
(* block numbers, the applied and the stored events have to be justified;  *)
(* everything else is carried over.                                        *)
(***************************************************************************)
LEMMA EmitterStep ==
  ASSUME IInv, TypeOK', loaded = ServiceCount, UNCHANGED <<head, emits, loaded>>,
         \A s \in Services : accepted[s] \subseteq accepted'[s] /\ Final(s, accepted'[s]),
         \A s \in Services : /\ store'[s].block <= Stable
                             /\ Final(s, store'[s].payload)
                             /\ Holds(s, store'[s].block, store'[s].payload),
         latestBlockNumber' \in Nat, latestBlockNumber' <= Stable,
         \A s \in Services : Holds(s, latestBlockNumber', accepted'[s]),
         fetchFrom' # Nil => /\ fetchFrom' - 1 <= Stable
                             /\ \A s \in Services : Holds(s, fetchFrom' - 1, accepted'[s]),
         NEW t \in Threads, NEW j \in Job, job' = [job EXCEPT ![t] = j],
         j.last <= Stable, j.from - 1 <= Stable,
         \A s \in Services : Final(s, j.batch[s]),
         JobInv(t, j)'
  PROVE  IInv'
<1> USE ScalarConstants
<1>1. Stable' = Stable
  BY DEF Stable
<1>2. \A u \in Threads : u # t => job'[u] = job[u]
  BY DEF IInv, TypeOK, JobsOK
<1>3. job'[t] = j
  BY DEF IInv, TypeOK, JobsOK
<1>4. BelowStable'
  <2>1. \A u \in Threads : job'[u].last <= Stable /\ job'[u].from - 1 <= Stable
    BY <1>2, <1>3 DEF IInv, BelowStable
  <2> QED
    BY <1>1, <2>1 DEF IInv, BelowStable
<1>5. \A s \in Services : \A set : Final(s, set) => Final(s, set)'
  BY <1>1 DEF Final
<1>6. OnlyFinal'
  <2>1. \A s \in Services : \A u \in Threads : Final(s, job'[u].batch[s])
    BY <1>2, <1>3 DEF IInv, OnlyFinal
  <2> QED
    BY <1>5, <2>1 DEF OnlyFinal
<1>7. \A s \in Services : \A b, set : Holds(s, b, set) => Holds(s, b, set)'
  BY DEF Holds
<1>8. StoreCovers'
  BY <1>7 DEF StoreCovers
<1>9. LoadPhase'
  BY <1>7 DEF LoadPhase, Nil
<1>10. JobsInv'
  <2> SUFFICES ASSUME NEW u \in Threads PROVE JobInv(u, job[u])'
    BY DEF JobsInv
  <2>1. CASE u = t
    BY <1>3, <2>1
  <2>2. CASE u # t
    <3>1. JobInv(u, job[u])
      BY DEF IInv, JobsInv
    <3>2. PICK k : k = job[u]
      OBVIOUS
    <3>3. JobInv(u, k)'
      BY <3>1, <3>2, JobInvFrame
    <3> QED
      BY <1>2, <2>2, <3>2, <3>3
  <2> QED
    BY <2>1, <2>2
<1>11. ListenerNeverSkips'
  BY <1>7 DEF ListenerNeverSkips
<1> QED
  BY <1>4, <1>6, <1>8, <1>9, <1>10, <1>11 DEF IInv
\* Once the services are loaded the emitter has a block number, and
\* everything up to it is applied.
LEMMA LoadedEmitter ==
  ASSUME IInv, loaded = ServiceCount
  PROVE  /\ latestBlockNumber \in Nat /\ LatestBlockNumber = latestBlockNumber
         /\ latestBlockNumber <= Stable
         /\ AppliedUpTo(latestBlockNumber)
         /\ \A s \in Services : Holds(s, latestBlockNumber, accepted[s])
<1>1. latestBlockNumber \in Nat
  BY ScalarConstants DEF IInv, LoadPhase, TypeOK
<1>2. \A s \in Services : s <= loaded
  BY DEF Services
<1> QED
  BY <1>1, <1>2 DEF IInv, LoadPhase, BelowStable, LatestBlockNumber, AppliedUpTo, Nil

LEMMA BusyEmitter ==
  ASSUME IInv, (\E t \in Threads : job[t].pc # "idle") \/ fetchFrom # Nil \/ phase # "new"
  PROVE  loaded = ServiceCount
  BY ScalarConstants DEF IInv, LoadPhase, TypeOK

\* A step that applies and stores nothing.
LEMMA QuietStep ==
  ASSUME IInv, TypeOK', loaded = ServiceCount,
         UNCHANGED <<head, emits, loaded, accepted, store>>,
         \/ latestBlockNumber' = latestBlockNumber
         \/ /\ latestBlockNumber' \in Nat /\ latestBlockNumber' <= Stable
            /\ AppliedUpTo(latestBlockNumber'),
         \/ fetchFrom' = fetchFrom
         \/ fetchFrom' - 1 <= Stable /\ AppliedUpTo(fetchFrom' - 1),
         NEW t \in Threads, NEW j \in Job, job' = [job EXCEPT ![t] = j],
         j.last <= Stable, j.from - 1 <= Stable,
         \A s \in Services : Final(s, j.batch[s]),
         JobInv(t, j)
  PROVE  IInv'
<1>1. \A s \in Services : accepted[s] \subseteq accepted'[s] /\ Final(s, accepted'[s])
  BY DEF IInv, OnlyFinal
<1>2. \A s \in Services : /\ store'[s].block <= Stable
                          /\ Final(s, store'[s].payload)
                          /\ Holds(s, store'[s].block, store'[s].payload)
  BY DEF IInv, OnlyFinal, BelowStable, StoreCovers
<1>3. /\ latestBlockNumber' \in Nat /\ latestBlockNumber' <= Stable
      /\ \A s \in Services : Holds(s, latestBlockNumber', accepted'[s])
  BY LoadedEmitter DEF AppliedUpTo
<1>4. fetchFrom' # Nil => /\ fetchFrom' - 1 <= Stable
                          /\ \A s \in Services : Holds(s, fetchFrom' - 1, accepted'[s])
  <2>1. CASE fetchFrom' = fetchFrom
    BY <2>1 DEF IInv, BelowStable, ListenerNeverSkips
  <2>2. CASE fetchFrom' - 1 <= Stable /\ AppliedUpTo(fetchFrom' - 1)
    BY <2>2 DEF AppliedUpTo
  <2> QED
    BY <2>1, <2>2
<1>5. JobInv(t, j)'
  BY <1>1, JobInvFrame
<1> QED
  BY <1>1, <1>2, <1>3, <1>4, <1>5, EmitterStep

\* The idle goroutine knows nothing.
LEMMA IdleJobInv ==
  ASSUME IInv, NEW t \in Threads
  PROVE  /\ IdleJob \in Job /\ IdleJob.last <= Stable /\ IdleJob.from - 1 <= Stable
         /\ \A s \in Services : Final(s, IdleJob.batch[s])
         /\ JobInv(t, IdleJob)
<1>1. Stable \in Nat
  BY StableType DEF IInv, BelowStable
<1>2. IdleJob.last <= Stable /\ IdleJob.from - 1 <= Stable
  BY <1>1 DEF IdleJob
<1> QED
  BY <1>2, IdleJobType DEF JobInv, Final, NoEvents

LEMMA CallRetrieveIInv ==
  ASSUME IInv, TypeOK', NEW t \in Threads,
         NEW from \in {LatestBlockNumber, LatestBlockNumber + 1},
         NEW why \in {"update", "init"},
         Delegate = "client" => t # Listener,
         CallRetrieve(t, from, why),
         UNCHANGED <<chainVars, latestBlockNumber, fetchFrom, serviceVars, loaded>>
  PROVE  IInv'
<1>1. loaded = ServiceCount
  BY DEF CallRetrieve
<1>2. PICK j : j = [IdleJob EXCEPT !.pc = "waiting", !.from = from, !.why = why]
  OBVIOUS
<1>3. from \in Nat /\ from - 1 <= Stable /\ Stable \in Nat
  BY <1>1, LoadedEmitter, StableType DEF IInv, BelowStable
<1>4. /\ j \in Job /\ j.pc = "waiting" /\ j.from = from /\ j.last = 0
      /\ j.batch = NoEvents /\ j.next = 1
  BY <1>2, <1>3, IdleJobType DEF IdleJob, Job
<1>5. AppliedUpTo(from - 1)
  <2>1. from - 1 \in Int /\ from - 1 <= latestBlockNumber /\ latestBlockNumber \in Nat
    BY <1>1, LoadedEmitter
  <2>2. \A s \in Services : \A e \in emits[s] : e[1] \in Nat
    BY DEF IInv, TypeOK, Event
  <2> QED
    BY <1>1, <2>1, <2>2, LoadedEmitter DEF AppliedUpTo, Holds
<1>6. JobInv(t, j)
  BY <1>4, <1>5 DEF JobInv
<1>7. \A s \in Services : Final(s, j.batch[s])
  BY <1>4 DEF Final, NoEvents
<1>8. job' = [job EXCEPT ![t] = j]
  BY <1>2 DEF CallRetrieve
<1>9. j.last <= Stable /\ j.from - 1 <= Stable
  BY <1>3, <1>4
<1> QED
  BY <1>1, <1>4, <1>6, <1>7, <1>8, <1>9, QuietStep DEF chainVars, serviceVars

\* What a fetch may read: never above Stable, whatever node answers.
LEMMA LastIsStable ==
  ASSUME IInv, loaded = ServiceCount, NEW lag \in 0 .. RpcLag, lag <= head
  PROVE  /\ GetLastBlockNumberForEventRequest(head - lag) \in Nat
         /\ GetLastBlockNumberForEventRequest(head - lag) <= Stable
<1> USE ScalarConstants
<1>1. head \in Nat /\ head >= InitialHead /\ lag \in Nat /\ lag <= RpcLag
  BY DEF IInv, TypeOK, BelowStable
<1>2. CASE IsServer
  <2>1. MaxReorg < ReorgDepth /\ ReorgDepth + RpcLag <= InitialHead + 1
    BY <1>2, ReorgAssumption
  <2>2. SafeBlock(head - lag) = head - lag - ReorgDepth + 1
    BY <1>1, <2>1 DEF SafeBlock
  <2>3. SafeBlock(head - lag) <= Stable /\ SafeBlock(head - lag) \in Nat
    BY <1>1, <2>1, <2>2 DEF Stable
  <2> QED
    BY <1>2, <2>3, LoadedEmitter DEF GetLastBlockNumberForEventRequest
<1>3. CASE ~IsServer
  BY <1>1, <1>3, ReorgAssumption DEF GetLastBlockNumberForEventRequest, Stable
<1> QED
  BY <1>2, <1>3

\* A page of events up to a stable block is final and complete.
LEMMA BatchIsFinal ==
  ASSUME IInv, NEW from \in Nat, NEW to \in Nat, to <= Stable
  PROVE  /\ \A s \in Services : Final(s, GetEventsInRange(from, to)[s])
         /\ \A s \in Services : \A e \in emits[s] :
              from <= e[1] /\ e[1] <= to => e \in GetEventsInRange(from, to)[s]
<1>1. Stable \in Nat
  BY StableType DEF IInv, BelowStable
<1>2. \A s \in Services : \A e \in emits[s] : e[1] \in Nat
  BY DEF IInv, TypeOK, Event
<1>3. \A s \in Services : GetEventsInRange(from, to)[s] = {e \in emits[s] : e[1] \in from .. to}
  BY DEF GetEventsInRange
<1> QED
  BY <1>1, <1>2, <1>3 DEF Final

LEMMA StartFetchIInv ==
  ASSUME IInv, TypeOK', NEW t \in Threads, NEW lag \in 0 .. RpcLag, lag <= head,
         StartFetch(t, lag)
  PROVE  IInv'
<1> DEFINE last == GetLastBlockNumberForEventRequest(head - lag)
<1>1. /\ job[t].pc = "waiting" /\ loaded = ServiceCount
      /\ t = Listener => Delegate = "polling"
  BY BusyEmitter DEF StartFetch
<1>2. last \in Nat /\ last <= Stable
  BY <1>1, LastIsStable
<1>3. UNCHANGED <<head, emits, loaded, accepted, store, latestBlockNumber, fetchFrom>>
  BY DEF StartFetch, chainVars, serviceVars
<1>4. CASE last < job[t].from
  <2>1. job' = [job EXCEPT ![t] = IdleJob]
    BY <1>4 DEF StartFetch
  <2> HIDE DEF last
  <2> QED
    BY <1>1, <1>3, <2>1, IdleJobInv, QuietStep
<1>5. CASE ~(last < job[t].from)
  <2>1. job[t] \in Job /\ JobInv(t, job[t]) /\ job[t].from - 1 <= Stable /\ job[t].from \in Nat
    BY DEF IInv, TypeOK, JobsOK, JobsInv, BelowStable, Job
  <2>2. PICK j : j = [job[t] EXCEPT !.pc = "processing", !.last = last,
                                    !.batch = GetEventsInRange(job[t].from, last)]
    OBVIOUS
  <2>3. job' = [job EXCEPT ![t] = j]
    BY <1>5, <2>2 DEF StartFetch
  <2> HIDE DEF last
  <2>4. GetEventsInRange(job[t].from, last) \in [Services -> SUBSET Event]
    BY <1>2, <2>1, BatchType DEF IInv
  <2>5. /\ j \in Job /\ j.pc = "processing" /\ j.last = last /\ j.from = job[t].from
        /\ j.batch = GetEventsInRange(job[t].from, last) /\ j.next = job[t].next
    BY <1>2, <2>1, <2>2, <2>4 DEF Job
  <2>6. /\ \A s \in Services : Final(s, j.batch[s])
        /\ Complete(j)
    BY <1>2, <2>1, <2>5, BatchIsFinal DEF Complete
  <2>7. j.next = 1 /\ AppliedUpTo(j.from - 1)
    BY <1>1, <2>1, <2>5 DEF JobInv
  <2>8. JobInv(t, j)
    BY <2>5, <2>6, <2>7 DEF JobInv, Services
  <2>9. j.last <= Stable /\ j.from - 1 <= Stable
    BY <1>2, <2>1, <2>5
  <2> QED
    BY <1>1, <1>3, <2>3, <2>5, <2>6, <2>8, <2>9, QuietStep
<1> QED
  BY <1>4, <1>5

\* The goroutine gives up or is done; a new block number is one it scanned.
LEMMA BecomeIdleIInv ==
  ASSUME IInv, TypeOK', NEW t \in Threads, loaded = ServiceCount,
         job' = [job EXCEPT ![t] = IdleJob],
         UNCHANGED <<head, emits, loaded, accepted, store, fetchFrom>>,
         \/ latestBlockNumber' = latestBlockNumber
         \/ latestBlockNumber' = job[t].last /\ AppliedUpTo(job[t].last)
  PROVE  IInv'
<1>1. job[t].last \in Nat /\ job[t].last <= Stable
  BY DEF IInv, TypeOK, JobsOK, Job, BelowStable
<1>2. \/ latestBlockNumber' = latestBlockNumber
      \/ /\ latestBlockNumber' \in Nat /\ latestBlockNumber' <= Stable
         /\ AppliedUpTo(latestBlockNumber')
  BY <1>1
<1> QED
  BY <1>2, IdleJobInv, QuietStep

\* When the last processor has run, every service has the whole range.
LEMMA CommitApplied ==
  ASSUME IInv, NEW t \in Threads, job[t].pc = "commit"
  PROVE  AppliedUpTo(job[t].last)
<1>1. JobInv(t, job[t])
  BY DEF IInv, JobsInv
<1>2. \A s \in Services : s < ServiceCount + 1
  BY ScalarConstants DEF Services
<1> QED
  BY <1>1, <1>2 DEF JobInv, AppliedUpTo

(***************************************************************************)
(* A processor has applied its part of the batch and perhaps stored a      *)
(* snapshot.  The service then holds everything up to lastBlock: what lies *)
(* below fromBlock was applied before, the rest is in the batch.           *)
(***************************************************************************)
LEMMA ApplyBatch ==
  ASSUME IInv, NEW t \in Threads, job[t].pc = "processing",
         NEW s \in Services, s = job[t].next,
         accepted' = [accepted EXCEPT ![s] = Applied(t, s)]
  PROVE  /\ loaded = ServiceCount
         /\ \A r \in Services : accepted[r] \subseteq accepted'[r] /\ Final(r, accepted'[r])
         /\ accepted'[s] = Applied(t, s)
         /\ Holds(s, job[t].last, accepted'[s])
         /\ \A r \in Services : Holds(r, latestBlockNumber, accepted'[r])
<1>1. loaded = ServiceCount
  BY BusyEmitter
<1>2. JobInv(t, job[t]) /\ job[t].from \in Nat /\ job[t].last \in Nat
  BY DEF IInv, JobsInv, TypeOK, JobsOK, Job
<1>3. accepted'[s] = Applied(t, s) /\ (\A r \in Services : r # s => accepted'[r] = accepted[r])
  BY DEF IInv, TypeOK
<1>4. Final(s, Applied(t, s))
  BY DEF IInv, OnlyFinal, Final, Applied
<1>5. \A r \in Services : accepted[r] \subseteq accepted'[r] /\ Final(r, accepted'[r])
  BY <1>3, <1>4 DEF Applied, IInv, OnlyFinal
<1>6. Holds(s, job[t].last, accepted'[s])
  <2>1. Complete(job[t]) /\ AppliedUpTo(job[t].from - 1)
    BY <1>2 DEF JobInv
  <2>2. SUFFICES ASSUME NEW e \in emits[s], e[1] <= job[t].last
                 PROVE  e \in Applied(t, s)
    BY <1>3 DEF Holds
  <2>3. e[1] \in Nat
    BY DEF IInv, TypeOK, Event
  <2>4. CASE e[1] <= job[t].from - 1
    BY <2>1, <2>4 DEF AppliedUpTo, Holds, Applied
  <2>5. CASE job[t].from <= e[1]
    BY <2>1, <2>2, <2>5 DEF Complete, Applied
  <2> QED
    BY <1>2, <2>3, <2>4, <2>5
<1>7. \A r \in Services : Holds(r, latestBlockNumber, accepted'[r])
  BY <1>1, <1>5, LoadedEmitter DEF Holds
<1> QED
  BY <1>1, <1>3, <1>5, <1>6, <1>7

\* The stored snapshots stay stable, final and complete for their block.
LEMMA StoreStep ==
  ASSUME IInv, TypeOK', NEW t \in Threads, NEW s \in Services, loaded = ServiceCount,
         Final(s, Applied(t, s)), Holds(s, latestBlockNumber, Applied(t, s)),
         store' = store \/ store' = [store EXCEPT ![s] = SaveSnapshot(t, s)]
  PROVE  \A r \in Services : /\ store'[r].block <= Stable
                             /\ Final(r, store'[r].payload)
                             /\ Holds(r, store'[r].block, store'[r].payload)
<1>1. \A r \in Services : store'[r] = store[r] \/ (r = s /\ store'[r] = SaveSnapshot(t, s))
  BY DEF IInv, TypeOK
<1>2. \A r \in Services : /\ store[r].block <= Stable
                          /\ Final(r, store[r].payload)
                          /\ Holds(r, store[r].block, store[r].payload)
  BY DEF IInv, OnlyFinal, BelowStable, StoreCovers
<1>3. /\ SaveSnapshot(t, s).block = latestBlockNumber
      /\ SaveSnapshot(t, s).payload = Applied(t, s)
  BY LoadedEmitter DEF SaveSnapshot
<1> QED
  BY <1>1, <1>2, <1>3, LoadedEmitter

LEMMA ProcessPageIInv ==
  ASSUME IInv, TypeOK', NEW t \in Threads, ProcessPage(t)
  PROVE  IInv'
<1>1. PICK s : s = job[t].next
  OBVIOUS
<1>2. /\ s \in Services /\ job[t] \in Job /\ job[t].pc = "processing" /\ JobInv(t, job[t])
      /\ job[t].last <= Stable /\ job[t].from - 1 <= Stable
      /\ \A r \in Services : Final(r, job[t].batch[r])
  BY <1>1 DEF ProcessPage, IInv, TypeOK, JobsOK, JobsInv, BelowStable, OnlyFinal
<1>3. accepted' = [accepted EXCEPT ![s] = Applied(t, s)]
  BY <1>1 DEF ProcessPage
<1>4. /\ loaded = ServiceCount
      /\ \A r \in Services : accepted[r] \subseteq accepted'[r] /\ Final(r, accepted'[r])
      /\ accepted'[s] = Applied(t, s)
      /\ Holds(s, job[t].last, accepted'[s])
      /\ \A r \in Services : Holds(r, latestBlockNumber, accepted'[r])
  BY <1>1, <1>2, <1>3, ApplyBatch
<1>5. store' = store \/ store' = [store EXCEPT ![s] = SaveSnapshot(t, s)]
  BY <1>1 DEF ProcessPage
<1>6. \A r \in Services : /\ store'[r].block <= Stable
                          /\ Final(r, store'[r].payload)
                          /\ Holds(r, store'[r].block, store'[r].payload)
  BY <1>2, <1>4, <1>5, StoreStep
<1>7. UNCHANGED <<head, emits, loaded, latestBlockNumber, fetchFrom>>
  BY DEF ProcessPage, chainVars, emitterVars
<1>8. fetchFrom' # Nil => /\ fetchFrom' - 1 <= Stable
                          /\ \A r \in Services : Holds(r, fetchFrom' - 1, accepted'[r])
  BY <1>4, <1>7 DEF IInv, BelowStable, ListenerNeverSkips, Holds
<1>9. PICK j : j = [job[t] EXCEPT !.next = s + 1, !.pc = AfterProcessor(s)]
  OBVIOUS
<1>10. job' = [job EXCEPT ![t] = j]
  BY <1>1, <1>9 DEF ProcessPage
<1>11. /\ s + 1 \in 1 .. ServiceCount + 1
       /\ AfterProcessor(s) \in {"processing", "commit"}
       /\ AfterProcessor(s) = "commit" => s = ServiceCount
  BY <1>2, ScalarConstants DEF AfterProcessor, Services
<1>12. /\ j \in Job /\ j.pc = AfterProcessor(s) /\ j.next = s + 1
       /\ j.last = job[t].last /\ j.from = job[t].from /\ j.batch = job[t].batch
  BY <1>2, <1>9, <1>11 DEF Job
<1>13. JobInv(t, j)'
  <2>1. JobInv(t, job[t]) /\ Complete(job[t]) /\ AppliedUpTo(job[t].from - 1)
    BY <1>2 DEF JobInv
  <2>2. AppliedUpTo(j.from - 1)'
    BY <1>4, <1>7, <1>12, <2>1 DEF AppliedUpTo, Holds
  <2>3. Complete(j)'
    BY <1>7, <1>12, <2>1 DEF Complete
  <2>4. \A r \in Services : r < s => Holds(r, job[t].last, accepted[r])
    BY <1>1, <1>2 DEF JobInv
  <2>5. \A r \in Services : r < s + 1 => r < s \/ r = s
    BY <1>2 DEF Services
  <2>6. \A r \in Services : r < j.next => Holds(r, j.last, accepted'[r])
    BY <1>4, <1>12, <2>4, <2>5 DEF Holds
  <2>7. \A r \in Services : r < j.next => Holds(r, j.last, accepted[r])'
    BY <1>7, <2>6 DEF Holds
  <2>8. /\ j.pc \in {"processing", "commit"}
        /\ j.pc = "commit" => j.next = ServiceCount + 1
    BY <1>11, <1>12
  <2> QED
    BY <2>2, <2>3, <2>7, <2>8 DEF JobInv
<1>14. /\ j.last <= Stable /\ j.from - 1 <= Stable
       /\ \A r \in Services : Final(r, j.batch[r])
  BY <1>2, <1>12
<1>15. /\ latestBlockNumber' \in Nat /\ latestBlockNumber' <= Stable
       /\ \A r \in Services : Holds(r, latestBlockNumber', accepted'[r])
  BY <1>4, <1>7, LoadedEmitter
<1> QED
  BY <1>4, <1>6, <1>7, <1>8, <1>10, <1>12, <1>13, <1>14, <1>15, EmitterStep

LEMMA PersistFailsIInv ==
  ASSUME IInv, TypeOK', NEW t \in Threads, PersistFails(t)
  PROVE  IInv'
<1>1. PICK s : s = job[t].next
  OBVIOUS
<1>2. s \in Services /\ job[t].pc = "processing"
  BY <1>1 DEF PersistFails, IInv, TypeOK, JobsOK
<1>3. accepted' = [accepted EXCEPT ![s] = Applied(t, s)]
  BY <1>1 DEF PersistFails
<1>4. /\ loaded = ServiceCount
      /\ \A r \in Services : accepted[r] \subseteq accepted'[r] /\ Final(r, accepted'[r])
      /\ \A r \in Services : Holds(r, latestBlockNumber, accepted'[r])
  BY <1>1, <1>2, <1>3, ApplyBatch
<1>5. UNCHANGED <<head, emits, loaded, latestBlockNumber, fetchFrom, store>>
  BY DEF PersistFails, chainVars
<1>6. \A r \in Services : /\ store'[r].block <= Stable
                          /\ Final(r, store'[r].payload)
                          /\ Holds(r, store'[r].block, store'[r].payload)
  BY <1>5 DEF IInv, OnlyFinal, BelowStable, StoreCovers
<1>7. fetchFrom' # Nil => /\ fetchFrom' - 1 <= Stable
                          /\ \A r \in Services : Holds(r, fetchFrom' - 1, accepted'[r])
  BY <1>4, <1>5 DEF IInv, BelowStable, ListenerNeverSkips, Holds
<1>8. job' = [job EXCEPT ![t] = IdleJob]
  BY DEF PersistFails
<1>9. JobInv(t, IdleJob)'
  BY <1>4, <1>5, IdleJobInv, JobInvFrame
<1>10. /\ latestBlockNumber' \in Nat /\ latestBlockNumber' <= Stable
       /\ \A r \in Services : Holds(r, latestBlockNumber', accepted'[r])
  BY <1>4, <1>5, LoadedEmitter
<1> QED
  BY <1>4, <1>5, <1>6, <1>7, <1>8, <1>9, <1>10, IdleJobInv, EmitterStep

\* The listener moves on in its program: same range, same batch.
LEMMA ListenerPcIInv ==
  ASSUME IInv, TypeOK', loaded = ServiceCount,
         NEW pc \in {"processing", "advance", "assign"},
         job' = [job EXCEPT ![Listener].pc = pc],
         UNCHANGED <<head, emits, loaded, accepted, store>>,
         \/ latestBlockNumber' = latestBlockNumber
         \/ latestBlockNumber' = job[Listener].last /\ AppliedUpTo(job[Listener].last),
         \/ fetchFrom' = fetchFrom
         \/ fetchFrom' = job[Listener].last + 1 /\ AppliedUpTo(job[Listener].last),
         job[Listener].pc # "idle",
         pc = "processing" => Delegate = "client" /\ job[Listener].pc = "waiting",
         pc # "processing" => AppliedUpTo(job[Listener].last)
  PROVE  IInv'
<1>1. /\ Listener \in Threads /\ job[Listener] \in Job /\ JobInv(Listener, job[Listener])
      /\ job[Listener].last <= Stable /\ job[Listener].from - 1 <= Stable
      /\ \A s \in Services : Final(s, job[Listener].batch[s])
  BY DEF Threads, IInv, TypeOK, JobsOK, JobsInv, BelowStable, OnlyFinal
<1>2. PICK j : j = [job[Listener] EXCEPT !.pc = pc]
  OBVIOUS
<1>3. job' = [job EXCEPT ![Listener] = j]
  BY <1>2
<1>4. /\ j \in Job /\ j.pc = pc /\ j.last = job[Listener].last
      /\ j.from = job[Listener].from /\ j.batch = job[Listener].batch
      /\ j.next = job[Listener].next
  BY <1>1, <1>2 DEF Job
<1>5. JobInv(Listener, j)
  <2>1. AppliedUpTo(j.from - 1)
    BY <1>1, <1>4 DEF JobInv
  <2>2. CASE pc = "processing"
    <3>1. Complete(j) /\ j.next = 1
      BY <1>1, <1>4, <2>2 DEF JobInv, Complete
    <3> QED
      BY <1>4, <2>1, <2>2, <3>1 DEF JobInv, Services
  <2>3. CASE pc # "processing"
    BY <1>4, <2>1, <2>3 DEF JobInv
  <2> QED
    BY <2>2, <2>3
<1>6. job[Listener].last \in Nat /\ job[Listener].last + 1 - 1 = job[Listener].last
  BY <1>1 DEF Job
<1>7. \/ latestBlockNumber' = latestBlockNumber
      \/ /\ latestBlockNumber' \in Nat /\ latestBlockNumber' <= Stable
         /\ AppliedUpTo(latestBlockNumber')
  BY <1>1, <1>6
<1>8. \/ fetchFrom' = fetchFrom
      \/ fetchFrom' - 1 <= Stable /\ AppliedUpTo(fetchFrom' - 1)
  BY <1>1, <1>6
<1>9. /\ j.last <= Stable /\ j.from - 1 <= Stable
      /\ \A s \in Services : Final(s, j.batch[s])
  BY <1>1, <1>4
<1> QED
  BY <1>1, <1>3, <1>4, <1>5, <1>7, <1>8, <1>9, QuietStep

LEMMA StartUpdateListenerIInv ==
  ASSUME IInv, TypeOK', StartUpdateListener
  PROVE  IInv'
<1>1. loaded = ServiceCount
  BY BusyEmitter DEF StartUpdateListener
<1>2. PICK j : j = job[Listener]
  OBVIOUS
<1>3. /\ Listener \in Threads /\ j \in Job /\ JobInv(Listener, j)
      /\ j.last <= Stable /\ j.from - 1 <= Stable
      /\ \A s \in Services : Final(s, j.batch[s])
      /\ job = [job EXCEPT ![Listener] = j]
  BY <1>2 DEF Threads, IInv, TypeOK, JobsOK, JobsInv, BelowStable, OnlyFinal
<1>4. fetchFrom' - 1 <= Stable /\ AppliedUpTo(fetchFrom' - 1)
  <2>1. fetchFrom' - 1 = latestBlockNumber
    BY <1>1, LoadedEmitter DEF StartUpdateListener
  <2> QED
    BY <1>1, <2>1, LoadedEmitter
<1> QED
  BY <1>1, <1>3, <1>4, QuietStep DEF StartUpdateListener, chainVars, serviceVars

LEMMA PollServerIInv ==
  ASSUME IInv, TypeOK', NEW b \in 0 .. head, PollServer(b)
  PROVE  IInv'
<1>1. /\ Delegate = "client" /\ fetchFrom \in Nat /\ b \in Nat /\ loaded = ServiceCount
      /\ Listener \in Threads /\ head \in Nat /\ b <= head /\ b >= fetchFrom
  BY BusyEmitter DEF PollServer, IInv, TypeOK, Threads
<1>2. Stable = head /\ b <= Stable
  BY <1>1, ReorgAssumption DEF Stable
<1>3. PICK batch : batch = GetEventsInRange(fetchFrom, b)
  OBVIOUS
<1>4. /\ batch \in [Services -> SUBSET Event]
      /\ \A s \in Services : Final(s, batch[s])
      /\ \A s \in Services : \A e \in emits[s] :
           fetchFrom <= e[1] /\ e[1] <= b => e \in batch[s]
  BY <1>1, <1>2, <1>3, BatchType, BatchIsFinal DEF IInv
<1>5. AppliedUpTo(fetchFrom - 1) /\ fetchFrom - 1 <= Stable
  BY <1>1 DEF IInv, ListenerNeverSkips, BelowStable, AppliedUpTo, Nil
<1>6. batch = NoEvents => AppliedUpTo(b)
  <2> SUFFICES ASSUME batch = NoEvents, NEW s \in Services, NEW e \in emits[s], e[1] <= b
               PROVE  e \in accepted[s]
    BY DEF AppliedUpTo, Holds
  <2>1. e \notin batch[s] /\ e[1] \in Nat
    BY DEF NoEvents, IInv, TypeOK, Event
  <2>2. e[1] <= fetchFrom - 1
    BY <1>1, <1>4, <2>1
  <2> QED
    BY <1>5, <2>2 DEF AppliedUpTo, Holds
<1>7. PICK pc \in {"advance", "waiting"} :
        pc = IF batch = NoEvents THEN "advance" ELSE "waiting"
  OBVIOUS
<1>8. PICK j : j = [IdleJob EXCEPT !.pc = pc, !.from = fetchFrom, !.last = b, !.batch = batch]
  OBVIOUS
<1>9. job' = [job EXCEPT ![Listener] = j]
  BY <1>3, <1>7, <1>8 DEF PollServer
<1>10. /\ j \in Job /\ j.pc = pc /\ j.from = fetchFrom /\ j.last = b
       /\ j.batch = batch /\ j.next = 1
  BY <1>1, <1>4, <1>8, IdleJobType DEF IdleJob, Job
<1>11. JobInv(Listener, j)
  <2>1. AppliedUpTo(j.from - 1) /\ Complete(j)
    BY <1>4, <1>5, <1>10 DEF Complete
  <2>2. j.pc \in {"advance", "waiting"} /\ (j.pc = "advance" => AppliedUpTo(j.last))
    BY <1>6, <1>7, <1>10
  <2> QED
    BY <1>10, <2>1, <2>2 DEF JobInv
<1>12. /\ j.last <= Stable /\ j.from - 1 <= Stable
       /\ \A s \in Services : Final(s, j.batch[s])
  BY <1>2, <1>4, <1>5, <1>10
<1>13. UNCHANGED <<head, emits, loaded, accepted, store, latestBlockNumber, fetchFrom>>
  BY DEF PollServer, chainVars, emitterVars, serviceVars
<1> QED
  BY <1>1, <1>9, <1>10, <1>11, <1>12, <1>13, QuietStep

\* The snapshot server replaces a snapshot while a client has not loaded all.
LEMMA SnapshotServerSavesIInv ==
  ASSUME IInv, TypeOK', NEW s \in Services, NEW b \in 0 .. head,
         NEW late \in SUBSET emits[s], SnapshotServerSaves(s, b, late)
  PROVE  IInv'
<1>1. /\ UNCHANGED <<head, emits, latestBlockNumber, phase, mutex, fetchFrom>>
      /\ UNCHANGED <<accepted, savedLatestBlock, loaded, job>>
  BY DEF SnapshotServerSaves, chainVars, emitterVars
<1>2. head \in Nat /\ b \in Nat /\ Stable = head /\ Stable' = Stable
  BY <1>1, ReorgAssumption DEF SnapshotServerSaves, IInv, TypeOK, Stable
<1>3. PICK p : p = {e \in emits[s] : e[1] <= b} \cup (late \cap emits[s])
  OBVIOUS
<1>4. \A r \in Services :
        store'[r] = IF r = s THEN [block |-> b, payload |-> p] ELSE store[r]
  BY <1>3 DEF SnapshotServerSaves, IInv, TypeOK
<1>5. Final(s, p) /\ Holds(s, b, p)
  BY <1>2, <1>3 DEF Final, Holds, IInv, BelowStable
<1>6. \A r \in Services : /\ store'[r].block <= Stable
                          /\ Final(r, store'[r].payload)
                          /\ Holds(r, store'[r].block, store'[r].payload)
  BY <1>2, <1>4, <1>5 DEF IInv, OnlyFinal, BelowStable, StoreCovers
<1>7. BelowStable'
  BY <1>1, <1>2, <1>6 DEF IInv, BelowStable
<1>8. OnlyFinal'
  <2>1. \A r \in Services : \A set : Final(r, set) => Final(r, set)'
    BY <1>1, <1>2 DEF Final
  <2> QED
    BY <1>1, <1>6, <2>1 DEF IInv, OnlyFinal
<1>9. \A r \in Services : \A c, set : Holds(r, c, set) => Holds(r, c, set)'
  BY <1>1 DEF Holds
<1>10. StoreCovers'
  BY <1>6, <1>9 DEF StoreCovers
<1>11. LoadPhase'
  BY <1>1, <1>9 DEF IInv, LoadPhase
<1>12. JobsInv'
  <2>1. \A t \in Threads : job'[t].pc = "idle"
    BY <1>1 DEF SnapshotServerSaves, IInv, LoadPhase
  <2> QED
    BY <2>1 DEF JobsInv, JobInv
<1>13. ListenerNeverSkips'
  BY <1>1, <1>9 DEF IInv, ListenerNeverSkips
<1> QED
  BY <1>7, <1>8, <1>10, <1>11, <1>12, <1>13 DEF IInv

LEMMA LoadSnapshotIInv ==
  ASSUME IInv, TypeOK', LoadSnapshot
  PROVE  IInv'
<1> USE ScalarConstants
<1>1. PICK s : s = loaded + 1
  OBVIOUS
<1>2. s \in Services /\ loaded \in Nat /\ loaded < ServiceCount /\ loaded' = s
  BY <1>1 DEF LoadSnapshot, IInv, TypeOK, Services
<1>3. UNCHANGED <<head, emits, phase, fetchFrom, store, job>>
  BY DEF LoadSnapshot, chainVars
<1>4. \A r \in Services :
        accepted'[r] = IF r = s THEN store[s].payload ELSE accepted[r]
  BY <1>1, <1>2 DEF LoadSnapshot, PopulateSnapshot, IInv, TypeOK
<1>5. store[s].block \in Nat
  BY <1>2 DEF IInv, TypeOK, Snapshot
<1>6. /\ latestBlockNumber' \in Nat
      /\ latestBlockNumber' <= store[s].block
      /\ latestBlockNumber # Nil => latestBlockNumber' <= latestBlockNumber
      /\ latestBlockNumber' = store[s].block \/ latestBlockNumber' = latestBlockNumber
  BY <1>1, <1>5 DEF LoadSnapshot, SyncFromAtMost, IInv, TypeOK, Nil
<1>7. Stable' = Stable
  BY <1>3 DEF Stable
<1>8. BelowStable'
  BY <1>2, <1>3, <1>6, <1>7 DEF IInv, BelowStable
<1>9. OnlyFinal'
  <2>1. \A r \in Services : \A set : Final(r, set) => Final(r, set)'
    BY <1>3, <1>7 DEF Final
  <2> QED
    BY <1>2, <1>3, <1>4, <2>1 DEF IInv, OnlyFinal
<1>10. \A r \in Services : \A c, set : Holds(r, c, set) => Holds(r, c, set)'
  BY <1>3 DEF Holds
<1>11. StoreCovers'
  BY <1>3, <1>10 DEF IInv, StoreCovers
<1>12. LoadPhase'
  <2>1. /\ \A t \in Threads : job'[t].pc = "idle"
        /\ fetchFrom' = Nil /\ phase' = "new"
    BY <1>2, <1>3 DEF IInv, LoadPhase
  <2>2. ASSUME NEW r \in Services, r <= loaded'
        PROVE  Holds(r, latestBlockNumber', accepted'[r])
    <3>1. \A e \in emits[r] : e[1] \in Nat
      BY DEF IInv, TypeOK, Event
    <3>2. CASE r = s
      <4>1. Holds(r, store[s].block, accepted'[r])
        BY <1>2, <1>4, <3>2 DEF IInv, StoreCovers
      <4> QED
        BY <1>5, <1>6, <3>1, <4>1 DEF Holds
    <3>3. CASE r # s
      <4>1. r <= loaded /\ loaded > 0
        BY <1>1, <1>2, <2>2, <3>3 DEF Services
      <4>2. Holds(r, latestBlockNumber, accepted'[r])
        BY <1>4, <3>3, <4>1 DEF IInv, LoadPhase
      <4>3. latestBlockNumber \in Nat /\ latestBlockNumber' <= latestBlockNumber
        BY <1>6, <4>1 DEF IInv, LoadPhase, TypeOK
      <4> QED
        BY <1>6, <3>1, <4>2, <4>3 DEF Holds
    <3> QED
      BY <3>2, <3>3
  <2>3. loaded' > 0 /\ latestBlockNumber' # Nil
    BY <1>1, <1>2, <1>6 DEF Nil
  <2>4. \A r \in Services : r <= loaded' => Holds(r, latestBlockNumber, accepted[r])'
    BY <1>10, <2>2
  <2> QED
    BY <2>1, <2>3, <2>4 DEF LoadPhase
<1>13. JobsInv'
  <2>1. \A t \in Threads : job'[t].pc = "idle"
    BY <1>2, <1>3 DEF IInv, LoadPhase
  <2> QED
    BY <2>1 DEF JobsInv, JobInv
<1>14. ListenerNeverSkips'
  <2>1. fetchFrom' = Nil
    BY <1>2, <1>3 DEF IInv, LoadPhase
  <2> QED
    BY <2>1 DEF ListenerNeverSkips
<1> QED
  BY <1>8, <1>9, <1>11, <1>12, <1>13, <1>14 DEF IInv

LEMMA RestartIInv ==
  ASSUME IInv, TypeOK', Restart
  PROVE  IInv'
<1> USE ScalarConstants
<1>1. UNCHANGED <<head, emits, store>>
  BY DEF Restart, chainVars
<1>2. Stable' = Stable /\ Stable \in Nat
  BY <1>1, StableType DEF Stable, IInv, BelowStable
<1>3. \A t \in Threads : job'[t] = IdleJob
  BY DEF Restart
<1>4. BelowStable'
  <2>1. latestBlockNumber' <= Stable
    BY <1>2 DEF Restart, Nil
  <2>2. IdleJob.last <= Stable /\ IdleJob.from - 1 <= Stable
    BY <1>2 DEF IdleJob
  <2> QED
    BY <1>1, <1>2, <1>3, <2>1, <2>2 DEF Restart, IInv, BelowStable
<1>5. OnlyFinal'
  <2>1. \A s \in Services : \A set : Final(s, set) => Final(s, set)'
    BY <1>1, <1>2 DEF Final
  <2>2. \A s \in Services : accepted'[s] = {} /\ (\A t \in Threads : job'[t].batch[s] = {})
    BY <1>3, IdleJobType DEF Restart, NoEvents
  <2>3. \A s \in Services : Final(s, {})
    BY DEF Final
  <2> QED
    BY <1>1, <2>1, <2>2, <2>3 DEF IInv, OnlyFinal
<1>6. StoreCovers'
  BY <1>1 DEF IInv, StoreCovers, Holds
<1>7. LoadPhase'
  <2>1. \A t \in Threads : job'[t].pc = "idle"
    BY <1>3, IdleJobType
  <2> QED
    BY <2>1 DEF Restart, LoadPhase, Services
<1>8. JobsInv'
  BY <1>3, IdleJobType DEF JobsInv, JobInv
<1>9. ListenerNeverSkips'
  BY DEF Restart, ListenerNeverSkips
<1> QED
  BY <1>4, <1>5, <1>6, <1>7, <1>8, <1>9 DEF IInv

-----------------------------------------------------------------------------
\* Every step of the emitter, its goroutines and its surroundings keeps IInv.
LEMMA IInvStep == IInv /\ [Next]_vars => IInv'
<1> SUFFICES ASSUME IInv, [Next]_vars PROVE IInv'
  OBVIOUS
<1>0. TypeOK'
  BY TypeStep DEF IInv
<1>1. CASE Chain
  BY <1>0, <1>1, ChainGrowsIInv, ReorgIInv, SnapshotServerSavesIInv DEF Chain
<1>2. ASSUME NEW t \in Threads, Retrieve(t) PROVE IInv'
  <2>1. CASE RetrieveEventsFromLatestBlock(t) \/ ResetRetrieve(t)
    <3>1. Delegate = "client" => t # Listener
      BY <2>1 DEF RetrieveEventsFromLatestBlock, ResetRetrieve
    <3> QED
      BY <1>0, <2>1, <3>1, CallRetrieveIInv
         DEF RetrieveEventsFromLatestBlock, ResetRetrieve, emitterVars
  <2>2. CASE EmitterInit(t)
    <3>1. Delegate = "client" => t # Listener
      BY <2>2 DEF EmitterInit
    <3> QED
      BY <1>0, <2>2, <3>1, CallRetrieveIInv DEF EmitterInit
  <2>3. ASSUME NEW lag \in 0 .. RpcLag, lag <= head, StartFetch(t, lag) PROVE IInv'
    BY <1>0, <2>3, StartFetchIInv
  <2>4. CASE FetchFails(t)
    <3>1. loaded = ServiceCount
      BY <2>4, BusyEmitter DEF FetchFails
    <3> QED
      BY <1>0, <2>4, <3>1, BecomeIdleIInv DEF FetchFails, chainVars, emitterVars, serviceVars
  <2>5. CASE ProcessPage(t)
    BY <1>0, <2>5, ProcessPageIInv
  <2>6. CASE PersistFails(t)
    BY <1>0, <2>6, PersistFailsIInv
  <2>7. CASE CommitRetrieve(t)
    <3>1. loaded = ServiceCount /\ AppliedUpTo(job[t].last)
      BY <2>7, BusyEmitter, CommitApplied DEF CommitRetrieve
    <3> QED
      BY <1>0, <2>7, <3>1, BecomeIdleIInv DEF CommitRetrieve, chainVars, serviceVars
  <2> QED
    BY <1>2, <2>1, <2>2, <2>3, <2>4, <2>5, <2>6, <2>7 DEF Retrieve
<1>3. CASE Listen
  <2>0. Listener \in Threads
    BY DEF Threads
  <2>1. CASE StartUpdateListener
    BY <1>0, <2>1, StartUpdateListenerIInv
  <2>2. CASE PollTick
    BY <1>0, <2>0, <2>2, CallRetrieveIInv DEF PollTick, emitterVars
  <2>3. ASSUME NEW b \in 0 .. head, PollServer(b) PROVE IInv'
    BY <1>0, <2>3, PollServerIInv
  <2>4. CASE LockExternal
    <3>1. loaded = ServiceCount
      BY <2>0, <2>4, BusyEmitter DEF LockExternal
    <3> QED
      BY <1>0, <2>4, <3>1, ListenerPcIInv DEF LockExternal, chainVars, serviceVars
  <2>5. CASE CommitExternal
    <3>1. loaded = ServiceCount /\ AppliedUpTo(job[Listener].last)
      BY <2>0, <2>5, BusyEmitter, CommitApplied DEF CommitExternal
    <3> QED
      BY <1>0, <2>5, <3>1, ListenerPcIInv DEF CommitExternal, chainVars, serviceVars
  <2>6. CASE AdvanceCompare
    <3>1. loaded = ServiceCount /\ AppliedUpTo(job[Listener].last)
      BY <2>0, <2>6, BusyEmitter DEF AdvanceCompare, IInv, JobsInv, JobInv
    <3>2. CASE Advances(job[Listener].last)
      BY <1>0, <2>6, <3>1, <3>2, ListenerPcIInv DEF AdvanceCompare, chainVars, serviceVars
    <3>3. CASE ~Advances(job[Listener].last)
      <4>1. /\ job[Listener].last \in Nat /\ job[Listener].last <= Stable
            /\ job[Listener].last + 1 - 1 = job[Listener].last
        BY <2>0 DEF IInv, TypeOK, JobsOK, Job, BelowStable
      <4>2. fetchFrom' - 1 <= Stable /\ AppliedUpTo(fetchFrom' - 1)
        BY <2>6, <3>1, <4>1 DEF AdvanceCompare
      <4>3. job' = [job EXCEPT ![Listener] = IdleJob]
        BY <2>6, <3>3 DEF AdvanceCompare
      <4> QED
        BY <1>0, <2>0, <2>6, <3>1, <4>2, <4>3, IdleJobInv, QuietStep
           DEF AdvanceCompare, chainVars, serviceVars
    <3> QED
      BY <3>2, <3>3
  <2>7. CASE AdvanceAssign
    <3>1. loaded = ServiceCount /\ AppliedUpTo(job[Listener].last)
      BY <2>0, <2>7, BusyEmitter DEF AdvanceAssign, IInv, JobsInv, JobInv
    <3> QED
      BY <1>0, <2>0, <2>7, <3>1, BecomeIdleIInv DEF AdvanceAssign, chainVars, serviceVars
  <2> QED
    BY <1>3, <2>1, <2>2, <2>3, <2>4, <2>5, <2>6, <2>7 DEF Listen
<1>4. CASE LoadSnapshot
  BY <1>0, <1>4, LoadSnapshotIInv
<1>5. CASE Restart
  BY <1>0, <1>5, RestartIInv
<1>6. CASE UNCHANGED vars
  <2>1. UNCHANGED <<emitterVars, serviceVars, loaded, job, head, emits>>
    BY <1>6 DEF vars, chainVars
  <2>2. head' >= head /\ \A s \in Services : \A e \in emits'[s] : e[1] <= head'
    BY <2>1 DEF IInv, BelowStable, TypeOK
  <2> QED
    BY <1>0, <2>1, <2>2, ChainKeepsIInv
<1> QED
  BY <1>1, <1>2, <1>3, <1>4, <1>5, <1>6 DEF Next

LEMMA IInvAlways == Spec => []IInv
  BY IInvInit, IInvStep, PTL DEF Spec

(***************************************************************************)
(* No event up to LatestBlockNumber is ever missing from its service.      *)
(***************************************************************************)
THEOREM NoEventLostAlways == Spec => []NoEventLost
<1>1. IInv => NoEventLost
  BY LoadedEmitter DEF NoEventLost
<1> QED
  BY <1>1, IInvAlways, PTL

\* A stored snapshot holds everything up to the block it is labelled with.
THEOREM StoreCoversAlways == Spec => []StoreCovers
<1>1. IInv => StoreCovers
  BY DEF IInv
<1> QED
  BY <1>1, IInvAlways, PTL

\* The listener's cursor never passes an event that was not applied.
THEOREM ListenerNeverSkipsAlways == Spec => []ListenerNeverSkips
<1>1. IInv => ListenerNeverSkips
  BY DEF IInv
<1> QED
  BY <1>1, IInvAlways, PTL

\* No applied or stored event is ever taken off the chain.
THEOREM NoOrphansAlways == Spec => []NoOrphans
<1>1. IInv => NoOrphans
  BY DEF IInv, OnlyFinal, Final, NoOrphans
<1> QED
  BY <1>1, IInvAlways, PTL

-----------------------------------------------------------------------------
\* What a server has stored for a loaded service is also in its memory.
MemoryCovers ==
  IsServer => \A s \in Services : s <= loaded => store[s].payload \subseteq accepted[s]

StoreOnlyGrows ==
  IsServer => \A s \in Services : store[s].payload \subseteq store'[s].payload

LEMMA MemoryCoversStep ==
  IInv /\ MemoryCovers /\ [Next]_vars => MemoryCovers' /\ StoreOnlyGrows
<1> SUFFICES ASSUME IInv, MemoryCovers, [Next]_vars, IsServer
             PROVE  MemoryCovers' /\ StoreOnlyGrows
  BY Zenon DEF MemoryCovers, StoreOnlyGrows
<1>0. \A s \in Services : s <= loaded => store[s].payload \subseteq accepted[s]
  BY DEF MemoryCovers
<1>1. CASE UNCHANGED <<accepted, store, loaded>>
  BY <1>0, <1>1 DEF MemoryCovers, StoreOnlyGrows
<1>2. CASE LoadSnapshot
  <2>1. loaded \in Nat /\ loaded' = loaded + 1 /\ loaded + 1 \in Services /\ UNCHANGED store
    BY <1>2, ScalarConstants DEF LoadSnapshot, IInv, TypeOK, Services
  <2>2. \A s \in Services :
          accepted'[s] = IF s = loaded + 1 THEN store[s].payload ELSE accepted[s]
    BY <1>2, <2>1 DEF LoadSnapshot, PopulateSnapshot, IInv, TypeOK
  <2>3. \A s \in Services : s <= loaded' => s = loaded + 1 \/ s <= loaded
    BY <2>1 DEF Services
  <2> QED
    BY <1>0, <2>1, <2>2, <2>3 DEF MemoryCovers, StoreOnlyGrows
<1>3. CASE Restart
  BY <1>3 DEF Restart, MemoryCovers, StoreOnlyGrows, Services
<1>4. ASSUME NEW t \in Threads, ProcessPage(t) \/ PersistFails(t)
      PROVE  MemoryCovers' /\ StoreOnlyGrows
  <2>1. PICK s : s = job[t].next
    OBVIOUS
  <2>2. s \in Services /\ job[t].pc = "processing" /\ UNCHANGED loaded
    BY <1>4, <2>1 DEF ProcessPage, PersistFails, IInv, TypeOK, JobsOK
  <2>3. accepted' = [accepted EXCEPT ![s] = Applied(t, s)]
    BY <1>4, <2>1 DEF ProcessPage, PersistFails
  <2>4. /\ loaded = ServiceCount
        /\ \A r \in Services : accepted[r] \subseteq accepted'[r]
        /\ accepted'[s] = Applied(t, s)
    BY <2>1, <2>2, <2>3, ApplyBatch
  <2>5. store' = store \/ store' = [store EXCEPT ![s] = SaveSnapshot(t, s)]
    BY <1>4, <2>1 DEF ProcessPage, PersistFails
  <2>6. \A r \in Services : \/ store'[r] = store[r]
                            \/ r = s /\ store'[r].payload = Applied(t, s)
    BY <2>5 DEF SaveSnapshot, IInv, TypeOK
  <2>7. \A r \in Services : store[r].payload \subseteq accepted[r]
    BY <1>0, <2>4 DEF Services
  <2> QED
    BY <2>2, <2>4, <2>6, <2>7 DEF MemoryCovers, StoreOnlyGrows, Applied
<1>5. CASE Chain
  BY <1>1, <1>5 DEF Chain, ChainGrows, Reorg, SnapshotServerSaves, serviceVars
<1>6. CASE Listen
  BY <1>1, <1>6 DEF Listen, StartUpdateListener, PollTick, PollServer, LockExternal,
                    CommitExternal, AdvanceCompare, AdvanceAssign, serviceVars
<1>7. ASSUME NEW t \in Threads, Retrieve(t) PROVE MemoryCovers' /\ StoreOnlyGrows
  BY <1>1, <1>4, <1>7 DEF Retrieve, RetrieveEventsFromLatestBlock, ResetRetrieve,
                          EmitterInit, StartFetch, FetchFails, CommitRetrieve, serviceVars
<1>8. CASE UNCHANGED vars
  BY <1>1, <1>8 DEF vars, serviceVars
<1> QED
  BY <1>2, <1>3, <1>5, <1>6, <1>7, <1>8 DEF Next

\* A server's stored snapshot never loses an event it once held.
THEOREM StoreGrowsAlways == Spec => StoreGrows
<1>1. Init => MemoryCovers
  BY DEF Init, MemoryCovers, Services
<1>2. IInv /\ MemoryCovers /\ [Next]_vars => MemoryCovers'
  BY MemoryCoversStep
<1>3. IInv /\ MemoryCovers /\ [Next]_vars =>
        [IsServer => \A s \in Services : store[s].payload \subseteq store'[s].payload]_vars
  BY MemoryCoversStep DEF StoreOnlyGrows
<1> QED
  BY <1>1, <1>2, <1>3, IInvAlways, PTL DEF Spec, StoreGrows

=============================================================================
