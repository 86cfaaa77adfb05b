---------------------------- MODULE FacadeProofs ----------------------------
(***************************************************************************)
(* Proofs about the Hinkal object: how it replaces its copies of the       *)
(* chains (ResetMerkleTrees) and how it keeps its wallet adapter and sends *)
(* through it (ProviderAdapters).                                          *)
(***************************************************************************)
EXTENDS ResetMerkleTrees, ProviderAdapters, FiniteSetTheorems, WellFoundedInduction,
        TLAPS

(***************************************************************************)
(* Proofs about ResetMerkleTrees for any number of chains and calls and    *)
(* for nodes that are any number of leaves behind.                         *)
(*                                                                         *)
(* FreshAfterReset is about calls that have returned, and others that go   *)
(* on may still replace what they stored.  The invariant therefore bounds  *)
(* every copy that has been fetched and not yet stored: it is at most Lag  *)
(* older than the tree it will replace, because the mutex of the chain     *)
(* lets nobody store in between (Fetched), and so at most 2 * Lag older    *)
(* than what a call found equal to its root (FoundEqual).                  *)
(***************************************************************************)

CallType ==
  [pc : {"idle", "check", "resetting", "done"}, chains : SUBSET (Chains \union {Foreign}),
   left : SUBSET (Chains \union {Foreign}), toReset : SUBSET Chains,
   err : BOOLEAN, skipped : BOOLEAN, since : [Chains -> Nat]]

JobType ==
  [pc : {"none", "lock", "retrieve", "store", "ok", "failed"}, got : Copies \union {None}]

TypeOK ==
  /\ height \in [Chains -> Nat]
  /\ tree \in [Chains -> Copies \union {None}]
  /\ disabled \in BOOLEAN
  /\ resetLock \in [Chains -> Calls \union {None}]
  /\ balLock \in [Chains -> BOOLEAN]
  /\ call \in [Calls -> CallType]
  /\ job \in [Calls -> [Chains -> JobType]]

Started(c) == call[c].pc \in {"check", "resetting", "done"} /\ ~call[c].err /\ ~call[c].skipped

\* resetMerkleTreesMutexByChain.
Mutex ==
  \A c \in Calls, k \in Chains :
    resetLock[k] = c <=> job[c][k].pc \in {"retrieve", "store"}

\* Nothing is older than the chain, nothing is newer.
Bounded ==
  \A k \in Chains :
    /\ tree[k] # None => tree[k].n <= height[k]
    /\ \A c \in Calls : call[c].since[k] <= height[k]

\* A call on its way: its chains, its goroutines, and what is left of them.
Course(c) ==
  /\ call[c].pc \in {"idle", "check"} => \A k \in Chains : job[c][k].pc = "none"
  /\ call[c].pc \in {"check", "resetting"} => Started(c)
  /\ ~call[c].skipped => call[c].chains \subseteq Chains
  /\ call[c].pc \in {"resetting", "done"} /\ Started(c) => call[c].left = {}
  /\ call[c].pc = "done" /\ Started(c) => \A k \in call[c].toReset : job[c][k].pc = "ok"

\* A copy that has been fetched and is about to be stored.
Fetched(c, k) ==
  LET got == job[c][k].got
  IN  /\ got # None
      /\ got.n <= height[k]
      /\ tree[k] # None => got.n >= tree[k].n - Lag
      /\ got.n >= call[c].since[k] - Lag
      /\ \A d \in Calls : job[d][k].pc = "ok" => got.n >= call[d].since[k] - Lag

\* A chain whose roots call c found equal.
FoundEqual(c, k) ==
  /\ Holds(k, call[c].since[k] - 2 * Lag)
  /\ \A d \in Calls : job[d][k].pc = "store" => job[d][k].got.n >= call[c].since[k] - 2 * Lag

EqualRoots(c) == call[c].chains \ (call[c].left \union call[c].toReset)

Fresh ==
  \A c \in Calls :
    /\ \A k \in Chains : job[c][k].pc = "store" => Fetched(c, k)
    /\ \A k \in Chains : job[c][k].pc = "ok" => Holds(k, call[c].since[k] - Lag)
    /\ Started(c) => \A k \in EqualRoots(c) : FoundEqual(c, k)

IInv == TypeOK /\ Mutex /\ Bounded /\ (\A c \in Calls : Course(c)) /\ Fresh

-----------------------------------------------------------------------------
USE ResetAssumption

LEMMA NothingYet ==
  /\ NoJob \in JobType /\ NoJob.pc = "none"
  /\ NoCall \in CallType /\ NoCall.pc = "idle" /\ ~NoCall.skipped /\ NoCall.chains = {}
  /\ \A k \in Chains : NoCall.since[k] = 0
  BY DEF NoJob, JobType, NoCall, CallType

\* A goroutine changes its own entry of the table of goroutines.
LEMMA OneEntry ==
  ASSUME NEW S, NEW T, NEW U, NEW f \in [S -> [T -> U]], NEW c \in S, NEW k \in T, NEW q \in U,
         NEW g, g = [f EXCEPT ![c] = [f[c] EXCEPT ![k] = q]]
  PROVE  /\ g \in [S -> [T -> U]] /\ g[c][k] = q
         /\ \A d \in S, j \in T : d # c \/ j # k => g[d][j] = f[d][j]
<1> DEFINE row == [f[c] EXCEPT ![k] = q]
<1>1. row \in [T -> U] /\ row[k] = q /\ \A j \in T : j # k => row[j] = f[c][j]
  OBVIOUS
<1>2. g = [f EXCEPT ![c] = row]
  OBVIOUS
<1> HIDE DEF row
<1>3. g \in [S -> [T -> U]] /\ g[c] = row /\ \A d \in S : d # c => g[d] = f[d]
  BY <1>1, <1>2
<1> QED
  BY <1>1, <1>3

LEMMA IInvInit == Init => IInv
<1> SUFFICES ASSUME Init PROVE IInv
  OBVIOUS
<1>1. TypeOK
  BY NothingYet DEF Init, TypeOK, NoTree
<1>2. \A c \in Calls, k \in Chains : job[c][k] = NoJob /\ call[c] = NoCall
  BY DEF Init
<1>3. Mutex
  BY <1>2, NothingYet DEF Mutex, Init
<1>4. Bounded
  BY <1>2, NothingYet DEF Bounded, Init, NoTree
<1>5. \A c \in Calls : Course(c)
  BY <1>2, NothingYet DEF Course, Started, Init
<1>6. Fresh
  BY <1>2, NothingYet DEF Fresh, Started, Init
<1> QED
  BY <1>1, <1>3, <1>4, <1>5, <1>6 DEF IInv

\* New leaves, balances that are computed and the switch of the updates leave
\* every copy as good as it was.
LEMMA QuietStep ==
  ASSUME IInv, height' \in [Chains -> Nat], \A k \in Chains : height'[k] >= height[k],
         disabled' \in BOOLEAN, balLock' \in [Chains -> BOOLEAN],
         UNCHANGED <<tree, resetLock, call, job>>
  PROVE  IInv'
<1>1. TypeOK' /\ Mutex' /\ \A c \in Calls : Course(c)'
  BY DEF IInv, TypeOK, Mutex, Course, Started
<1>2. Bounded'
  <2>1. \A k \in Chains : /\ tree[k] # None => tree[k].n \in Nat
                          /\ \A c \in Calls : call[c].since[k] \in Nat
    BY DEF IInv, TypeOK, Copies, CallType
  <2> QED
    BY <2>1 DEF IInv, TypeOK, Bounded
<1>3. Fresh'
  <2>1. ASSUME NEW c \in Calls, NEW k \in Chains, job[c][k].pc = "store"
        PROVE  Fetched(c, k)'
    <3>1. Fetched(c, k) /\ job[c][k].got.n \in Nat
      BY <2>1 DEF IInv, Fresh, TypeOK, Fetched, JobType, Copies
    <3> QED
      BY <3>1 DEF IInv, TypeOK, Fetched
  <2> QED
    BY <2>1 DEF IInv, Fresh, Started, EqualRoots, FoundEqual, Holds
<1> QED
  BY <1>1, <1>2, <1>3 DEF IInv

\* A copy that was fetched is at most Lag older than the tree: a tree that is
\* as new as call c may expect stays within 2 * Lag of it.
LEMMA EqualStaysFresh ==
  ASSUME IInv, NEW k \in Chains, NEW s \in Nat, Holds(k, s - Lag)
  PROVE  /\ Holds(k, s - 2 * Lag)
         /\ \A d \in Calls : job[d][k].pc = "store" => job[d][k].got.n >= s - 2 * Lag
<1>1. tree[k].n \in Nat /\ tree[k] # None
  BY DEF IInv, TypeOK, Copies, Holds, NoTree
<1>2. ASSUME NEW d \in Calls, job[d][k].pc = "store"
      PROVE  job[d][k].got.n >= s - 2 * Lag
  <2>1. job[d][k].got.n \in Nat /\ job[d][k].got.n >= tree[k].n - Lag
    BY <1>1, <1>2 DEF IInv, TypeOK, JobType, Copies, Fresh, Fetched
  <2> QED
    BY <1>1, <2>1 DEF Holds
<1> QED
  BY <1>1, <1>2 DEF Holds

\* A step of call c itself, which may start its goroutines.
LEMMA CallStepKeeps ==
  ASSUME IInv, NEW c \in Calls, NEW p \in CallType, NEW js \in [Chains -> JobType],
         call' = [call EXCEPT ![c] = p], job' = [job EXCEPT ![c] = js],
         UNCHANGED <<height, tree, disabled, resetLock, balLock>>,
         \/ js = job[c]
         \/ \A k \in Chains : job[c][k].pc = "none" /\ js[k].pc \in {"none", "lock"},
         \/ p.since = call[c].since
         \/ p.since = height /\ \A k \in Chains : job[c][k].pc = "none",
         Course(c)',
         \A k \in EqualRoots(c)' : Started(c)' =>
           \/ Started(c) /\ k \in EqualRoots(c) /\ p.since = call[c].since
           \/ k \in Chains /\ Holds(k, p.since[k] - Lag)
  PROVE  IInv'
<1>1. TypeOK'
  BY DEF IInv, TypeOK
<1>2. /\ call'[c] = p /\ \A d \in Calls \ {c} : call'[d] = call[d]
      /\ job'[c] = js /\ \A d \in Calls \ {c} : job'[d] = job[d]
  BY DEF IInv, TypeOK
<1>3. \A d \in Calls, k \in Chains :
        /\ job'[d][k].pc \in {"retrieve", "store", "ok"} <=> job[d][k].pc \in {"retrieve", "store", "ok"}
        /\ job[d][k].pc \in {"retrieve", "store", "ok"} =>
             job'[d][k] = job[d][k] /\ call'[d].since = call[d].since
  <2>1. \A k \in Chains :
        /\ js[k].pc \in {"retrieve", "store", "ok"} <=> job[c][k].pc \in {"retrieve", "store", "ok"}
        /\ job[c][k].pc \in {"retrieve", "store", "ok"} =>
             js[k] = job[c][k] /\ p.since = call[c].since
    OBVIOUS
  <2> QED
    BY <1>2, <2>1
<1>4. Mutex'
  BY <1>3 DEF IInv, Mutex
<1>5. Bounded'
  <2>1. \A k \in Chains : p.since[k] <= height[k]
    BY DEF IInv, TypeOK, Bounded
  <2> QED
    BY <1>2, <2>1 DEF IInv, Bounded
<1>6. \A d \in Calls : Course(d)'
  <2>1. ASSUME NEW d \in Calls \ {c} PROVE Course(d)'
    BY <1>2, <2>1 DEF IInv, Course, Started
  <2> QED
    BY <2>1
<1>7. Fresh'
  <2>1. ASSUME NEW d \in Calls, NEW k \in Chains, job'[d][k].pc = "store"
        PROVE  Fetched(d, k)'
    <3>1. Fetched(d, k) /\ job'[d][k] = job[d][k] /\ call'[d].since = call[d].since
      BY <1>3, <2>1 DEF IInv, Fresh
    <3> QED
      BY <1>3, <3>1 DEF Fetched
  <2>2. ASSUME NEW d \in Calls, NEW k \in Chains, job'[d][k].pc = "ok"
        PROVE  Holds(k, call[d].since[k] - Lag)'
    BY <1>3, <2>2 DEF IInv, Fresh, Holds
  <2>3. ASSUME NEW d \in Calls, NEW s, NEW k \in Chains, Holds(k, s - 2 * Lag),
               \A e \in Calls : job[e][k].pc = "store" => job[e][k].got.n >= s - 2 * Lag,
               call'[d].since[k] = s
        PROVE  FoundEqual(d, k)'
    BY <1>3, <2>3 DEF FoundEqual, Holds
  <2>4. ASSUME NEW d \in Calls, Started(d)', NEW k \in EqualRoots(d)'
        PROVE  FoundEqual(d, k)'
    <3>0. k \in Chains
      BY <1>6, <2>4 DEF Course, Started, EqualRoots
    <3>1. CASE Started(d) /\ k \in EqualRoots(d) /\ call'[d].since = call[d].since
      <4>1. FoundEqual(d, k)
        BY <3>1 DEF IInv, Fresh
      <4> QED
        BY <2>3, <3>0, <3>1, <4>1 DEF FoundEqual
    <3>2. CASE d = c /\ Holds(k, p.since[k] - Lag)
      <4>1. p.since[k] \in Nat
        BY <3>0 DEF CallType
      <4> QED
        BY <1>2, <2>3, <3>0, <3>2, <4>1, EqualStaysFresh
    <3>3. CASE d # c
      BY <1>2, <2>4, <3>1, <3>3 DEF Started, EqualRoots
    <3> QED
      BY <1>2, <2>4, <3>1, <3>2, <3>3
  <2> QED
    BY <2>1, <2>2, <2>4 DEF Fresh
<1> QED
  BY <1>1, <1>4, <1>5, <1>6, <1>7 DEF IInv

\* ResetMerkle, also when ResetMerkleTreesIfNecessary calls it: it is skipped,
\* or a goroutine starts for every chain.
LEMMA BodyStep ==
  ASSUME IInv, NEW c \in Calls, call[c].pc \in {"idle", "check"},
         NEW p \in CallType, NEW chains \in SUBSET (Chains \union {Foreign}),
         ResetMerkleBody(c, p, chains), p.left = {}, ~p.err, ~p.skipped,
         UNCHANGED <<height, tree, disabled, resetLock, balLock>>,
         p.since = call[c].since \/ p.since = height,
         Foreign \notin chains => p.chains \subseteq Chains,
         \A k \in p.chains \ Listed(chains) :
           Started(c) /\ k \in EqualRoots(c) /\ p.since = call[c].since
  PROVE  IInv'
<1>1. \A k \in Chains : job[c][k].pc = "none"
  BY DEF IInv, Course
<1>2. CASE Skips(chains)
  <2> DEFINE r == [Returned(p, FALSE) EXCEPT !.skipped = TRUE]
  <2>1. r \in CallType /\ r.since = p.since /\ r.skipped /\ r.pc = "done"
    BY DEF CallType, Returned
  <2>2. call' = [call EXCEPT ![c] = r] /\ job' = [job EXCEPT ![c] = job[c]]
    BY <1>2 DEF ResetMerkleBody, IInv, TypeOK
  <2>3. call'[c] = r /\ job[c] \in [Chains -> JobType]
    BY <2>2 DEF IInv, TypeOK
  <2> HIDE DEF r
  <2>4. Course(c)' /\ ~Started(c)'
    BY <2>1, <2>3 DEF Course, Started
  <2> QED
    BY <1>1, <2>1, <2>2, <2>3, <2>4, CallStepKeeps
<1>3. CASE ~Skips(chains)
  <2> DEFINE r  == [p EXCEPT !.pc = "resetting", !.toReset = Listed(chains)]
             js == [k \in Chains |-> [NoJob EXCEPT !.pc = IF k \in Listed(chains) THEN "lock" ELSE "none"]]
  <2>1. Listed(chains) \subseteq Chains /\ p.chains \subseteq Chains
    BY <1>3 DEF Skips, Listed
  <2>2. /\ r \in CallType /\ r.since = p.since /\ r.pc = "resetting" /\ r.left = {}
        /\ r.toReset = Listed(chains) /\ r.chains = p.chains
        /\ r.err = p.err /\ r.skipped = p.skipped
    BY <2>1 DEF CallType
  <2>3. js \in [Chains -> JobType] /\ \A k \in Chains : js[k].pc \in {"none", "lock"}
    BY DEF NoJob, JobType
  <2>4. call' = [call EXCEPT ![c] = r] /\ job' = [job EXCEPT ![c] = js]
    BY <1>3 DEF ResetMerkleBody, ResetTrees
  <2>5. call'[c] = r
    BY <2>4 DEF IInv, TypeOK
  <2> HIDE DEF r, js
  <2>6. Course(c)' /\ EqualRoots(c)' = p.chains \ Listed(chains)
    BY <2>1, <2>2, <2>5 DEF Course, Started, EqualRoots
  <2> QED
    BY <1>1, <2>2, <2>3, <2>4, <2>6, CallStepKeeps
<1> QED
  BY <1>2, <1>3

LEMMA ResetMerkleStep ==
  ASSUME IInv, NEW c \in Calls, NEW chains \in Lists, ResetMerkle(c, chains)
  PROVE  IInv'
<1> DEFINE p == [NoCall EXCEPT !.chains = Listed(chains), !.since = height]
<1>1. Listed(chains) \subseteq Chains \union {Foreign}
  BY DEF Listed
<1>2. /\ p \in CallType /\ p.left = {} /\ p.since = height /\ p.chains = Listed(chains)
      /\ ~p.err /\ ~p.skipped
  BY <1>1 DEF NoCall, CallType, IInv, TypeOK
<1>3. Foreign \notin chains => Listed(chains) \subseteq Chains
  BY DEF Listed
<1>4. /\ call[c].pc = "idle" /\ ResetMerkleBody(c, p, chains)
      /\ UNCHANGED <<height, tree, disabled, resetLock, balLock>>
  BY DEF ResetMerkle
<1> HIDE DEF p
<1>5. chains \in SUBSET (Chains \union {Foreign}) /\ p.chains \ Listed(chains) = {}
  BY <1>2
<1> QED
  BY <1>2, <1>3, <1>4, <1>5, BodyStep

LEMMA IfNecessaryStep ==
  ASSUME IInv, NEW c \in Calls, NEW chains \in Lists, ResetMerkleTreesIfNecessary(c, chains)
  PROVE  IInv'
<1> DEFINE all == Listed(chains)
           p   == [NoCall EXCEPT !.chains = all, !.since = height]
           r   == IF Skips(all) THEN [Returned(p, FALSE) EXCEPT !.skipped = TRUE]
                  ELSE [p EXCEPT !.pc = "check", !.left = all]
<1>1. all \subseteq Chains \union {Foreign} /\ (Foreign \notin all => all \subseteq Chains)
  BY DEF Listed
<1>2. \A k \in Chains : job[c][k].pc = "none"
  BY DEF ResetMerkleTreesIfNecessary, IInv, Course
<1>3. /\ r \in CallType /\ r.since = height
      /\ \/ r.pc = "done" /\ r.skipped
         \/ r.pc = "check" /\ r.left = r.chains /\ r.chains \subseteq Chains /\ ~r.err /\ ~r.skipped
  <2>1. p \in CallType /\ p.since = height /\ p.chains = all /\ ~p.err /\ ~p.skipped
    BY <1>1 DEF NoCall, CallType, IInv, TypeOK
  <2>2. CASE Skips(all)
    <3>1. r = [Returned(p, FALSE) EXCEPT !.skipped = TRUE]
      BY <2>2
    <3> HIDE DEF p, r, all
    <3>2. r \in CallType /\ r.since = height /\ r.pc = "done" /\ r.skipped
      BY <2>1, <3>1 DEF CallType, Returned
    <3> QED
      BY <3>2
  <2>3. CASE ~Skips(all)
    <3>1. r = [p EXCEPT !.pc = "check", !.left = all] /\ Foreign \notin all
      BY <2>3 DEF Skips
    <3> HIDE DEF p, r, all
    <3> QED
      BY <1>1, <2>1, <3>1 DEF CallType
  <2> QED
    BY <2>2, <2>3
<1>4. /\ call' = [call EXCEPT ![c] = r] /\ job' = [job EXCEPT ![c] = job[c]]
      /\ UNCHANGED <<height, tree, disabled, resetLock, balLock, job>>
  BY DEF ResetMerkleTreesIfNecessary, IInv, TypeOK
<1> HIDE DEF r
<1>5. call'[c] = r /\ job[c] \in [Chains -> JobType]
  BY <1>4 DEF IInv, TypeOK
<1>6. Course(c)'
  BY <1>2, <1>3, <1>4, <1>5 DEF Course, Started
<1>7. Started(c)' => EqualRoots(c)' = {}
  BY <1>3, <1>5 DEF Started, EqualRoots
<1> QED
  BY <1>2, <1>3, <1>4, <1>5, <1>6, <1>7, CallStepKeeps

\* GetHinkalTreeRootHash of one chain: roots that are equal show that the tree
\* is at most Lag behind what the call may expect.
LEMMA CompareRootsStep ==
  ASSUME IInv, NEW c \in Calls, NEW k \in Chains, NEW n \in 0 .. MaxHeight, CompareRoots(c, k, n)
  PROVE  IInv'
<1> DEFINE p == call[c]
           r == IF tree[k] # NoTree /\ ~tree[k].whole THEN Returned(p, TRUE)
                ELSE [p EXCEPT !.left = @ \ {k},
                               !.toReset = IF Differs(k, n) THEN @ \union {k} ELSE @]
<1>0. p \in CallType /\ p.pc = "check" /\ k \in p.left /\ Course(c)
  BY DEF CompareRoots, IInv, TypeOK
<1>1. /\ r \in CallType /\ r.since = p.since
      /\ \/ r.pc = "done" /\ r.err
         \/ /\ r.pc = "check" /\ r.left = p.left \ {k} /\ r.err = p.err
            /\ r.toReset = IF Differs(k, n) THEN p.toReset \union {k} ELSE p.toReset
      /\ r.chains = p.chains /\ r.skipped = p.skipped
  BY <1>0 DEF CallType, Returned
<1>2. /\ call' = [call EXCEPT ![c] = r] /\ job' = [job EXCEPT ![c] = job[c]]
      /\ UNCHANGED <<height, tree, disabled, resetLock, balLock, job>>
  BY DEF CompareRoots, IInv, TypeOK
<1> HIDE DEF r
<1>3. call'[c] = r /\ job[c] \in [Chains -> JobType]
  BY <1>2 DEF IInv, TypeOK
<1>4. Course(c)'
  BY <1>0, <1>1, <1>2, <1>3 DEF Course, Started
<1>5. ASSUME NEW j \in EqualRoots(c)', Started(c)'
      PROVE  \/ Started(c) /\ j \in EqualRoots(c)
             \/ j \in Chains /\ Holds(j, r.since[j] - Lag)
  <2>1. Started(c) /\ r.pc = "check" /\ r.left = p.left \ {k}
    BY <1>0, <1>1, <1>3, <1>5 DEF Started
  <2>2. CASE j # k
    BY <1>1, <1>3, <1>5, <2>1, <2>2 DEF EqualRoots
  <2>3. CASE j = k
    <3>1. ~Differs(k, n)
      BY <1>1, <1>3, <1>5, <2>1, <2>3 DEF EqualRoots
    <3>2. tree[k] # None /\ tree[k].n = n /\ height[k] - n <= Lag
      BY <3>1 DEF Differs, NoTree, CompareRoots, NodeMayShow
    <3>3. p.since[k] \in Nat /\ p.since[k] <= height[k] /\ height[k] \in Nat
      BY <1>0 DEF IInv, TypeOK, CallType, Bounded
    <3> QED
      BY <1>1, <2>3, <3>2, <3>3 DEF Holds, NoTree
  <2> QED
    BY <2>2, <2>3
<1> QED
  BY <1>1, <1>2, <1>3, <1>4, <1>5, CallStepKeeps

LEMMA RootRequestFailsStep ==
  ASSUME IInv, NEW c \in Calls, RootRequestFails(c)
  PROVE  IInv'
<1> DEFINE r == Returned(call[c], TRUE)
<1>1. call[c] \in CallType /\ call[c].pc = "check" /\ Course(c)
  BY DEF RootRequestFails, IInv, TypeOK
<1>2. /\ r \in CallType /\ r.since = call[c].since /\ r.pc = "done" /\ r.err
      /\ r.chains = call[c].chains /\ r.skipped = call[c].skipped
  BY <1>1 DEF CallType, Returned
<1>3. /\ call' = [call EXCEPT ![c] = r] /\ job' = [job EXCEPT ![c] = job[c]]
      /\ UNCHANGED <<height, tree, disabled, resetLock, balLock, job>>
  BY DEF RootRequestFails, IInv, TypeOK
<1> HIDE DEF r
<1>4. call'[c] = r /\ job[c] \in [Chains -> JobType]
  BY <1>3 DEF IInv, TypeOK
<1>5. Course(c)' /\ ~Started(c)'
  BY <1>1, <1>2, <1>4 DEF Course, Started
<1> QED
  BY <1>2, <1>3, <1>4, <1>5, CallStepKeeps

LEMMA ComparedStep ==
  ASSUME IInv, NEW c \in Calls, Compared(c)
  PROVE  IInv'
<1> DEFINE p == call[c]
<1>1. p \in CallType /\ p.pc = "check" /\ p.left = {} /\ Course(c)
  BY DEF Compared, IInv, TypeOK
<1>2. CASE p.toReset = {}
  <2> DEFINE r == Returned(p, FALSE)
  <2>1. /\ r \in CallType /\ r.since = p.since /\ r.pc = "done" /\ ~r.err
        /\ r.chains = p.chains /\ r.skipped = p.skipped /\ r.left = {} /\ r.toReset = {}
    BY <1>1, <1>2 DEF CallType, Returned
  <2>2. /\ call' = [call EXCEPT ![c] = r] /\ job' = [job EXCEPT ![c] = job[c]]
        /\ UNCHANGED <<height, tree, disabled, resetLock, balLock>>
    BY <1>2 DEF Compared, IInv, TypeOK
  <2> HIDE DEF r
  <2>3. call'[c] = r /\ job[c] \in [Chains -> JobType]
    BY <2>2 DEF IInv, TypeOK
  <2>4. Course(c)' /\ EqualRoots(c)' = EqualRoots(c)
    BY <1>1, <1>2, <2>1, <2>3 DEF Course, EqualRoots
  <2>5. Started(c)
    BY <1>1 DEF Course
  <2> QED
    BY <2>1, <2>2, <2>3, <2>4, <2>5, CallStepKeeps
<1>3. CASE p.toReset # {}
  <2>1. /\ ResetMerkleBody(c, p, p.toReset)
        /\ UNCHANGED <<height, tree, disabled, resetLock, balLock>>
    BY <1>3 DEF Compared
  <2>2. Listed(p.toReset) = p.toReset
    BY <1>3 DEF Listed
  <2>3. p.toReset \in SUBSET (Chains \union {Foreign})
    BY <1>1 DEF CallType
  <2>4. Started(c) /\ p.chains \subseteq Chains
    BY <1>1 DEF Course, Started
  <2>5. p.chains \ Listed(p.toReset) = EqualRoots(c)
    BY <1>1, <2>2 DEF EqualRoots
  <2> QED
    BY <1>1, <2>1, <2>3, <2>4, <2>5, BodyStep DEF Started
<1> QED
  BY <1>2, <1>3

LEMMA JoinStep ==
  ASSUME IInv, NEW c \in Calls, Join(c)
  PROVE  IInv'
<1> DEFINE p == call[c]
           r == Returned(p, AnyError(c))
<1>1. p \in CallType /\ p.pc = "resetting" /\ Course(c)
  BY DEF Join, IInv, TypeOK
<1>2. /\ r \in CallType /\ r.since = p.since /\ r.pc = "done" /\ r.err = AnyError(c)
      /\ r.chains = p.chains /\ r.skipped = p.skipped /\ r.left = p.left /\ r.toReset = p.toReset
  BY <1>1 DEF CallType, Returned, AnyError
<1>3. /\ call' = [call EXCEPT ![c] = r] /\ job' = [job EXCEPT ![c] = job[c]]
      /\ UNCHANGED <<height, tree, disabled, resetLock, balLock, job>>
  BY DEF Join, IInv, TypeOK
<1> HIDE DEF r
<1>4. call'[c] = r /\ job[c] \in [Chains -> JobType]
  BY <1>3 DEF IInv, TypeOK
<1>5. ~AnyError(c) => \A k \in p.toReset : job[c][k].pc = "ok"
  BY DEF Join, AnyError
<1>6. ~p.err
  BY <1>1 DEF Course, Started
<1>7. Started(c)' => Started(c)
  BY <1>1, <1>2, <1>4, <1>6 DEF Started
<1>8. Course(c)' /\ EqualRoots(c)' = EqualRoots(c)
  BY <1>1, <1>2, <1>3, <1>4, <1>5, <1>7 DEF Course, Started, EqualRoots
<1> QED
  BY <1>2, <1>3, <1>4, <1>7, <1>8, CallStepKeeps

-----------------------------------------------------------------------------
\* The goroutine of call c for chain k gets the mutex, or gives up.
LEMMA JobMoves ==
  ASSUME IInv, NEW c \in Calls, NEW k \in Chains, NEW pc \in {"retrieve", "failed"},
         job[c][k].pc \in {"lock", "retrieve"}, job' = [job EXCEPT ![c][k].pc = pc],
         resetLock' \in [Chains -> Calls \union {None}], Mutex',
         UNCHANGED <<height, tree, disabled, balLock, call>>
  PROVE  IInv'
<1>1. /\ job' \in [Calls -> [Chains -> JobType]] /\ job'[c][k].pc = pc
      /\ \A d \in Calls, j \in Chains : d # c \/ j # k => job'[d][j] = job[d][j]
  <2> DEFINE q == [job[c][k] EXCEPT !.pc = pc]
  <2>0. job[c][k] \in JobType
    BY DEF IInv, TypeOK
  <2>1. q \in JobType /\ q.pc = pc
    BY <2>0 DEF JobType
  <2>2. job' = [job EXCEPT ![c] = [job[c] EXCEPT ![k] = q]]
    BY DEF IInv, TypeOK
  <2> HIDE DEF q
  <2>3. job \in [Calls -> [Chains -> JobType]]
    BY DEF IInv, TypeOK
  <2>4. /\ job' \in [Calls -> [Chains -> JobType]] /\ job'[c][k] = q
        /\ \A d \in Calls, j \in Chains : d # c \/ j # k => job'[d][j] = job[d][j]
    BY ONLY <2>1, <2>2, <2>3, OneEntry
  <2> QED
    BY <2>1, <2>4
<1>2. TypeOK' /\ Bounded'
  BY <1>1 DEF IInv, TypeOK, Bounded
<1>3. ASSUME NEW d \in Calls PROVE Course(d)'
  <2>1. Course(d) /\ call'[d] = call[d] /\ call[d].toReset \subseteq Chains
    BY DEF IInv, TypeOK, CallType
  <2> QED
    BY <1>1, <2>1 DEF Course, Started
<1>4. \A d \in Calls, j \in Chains :
        job'[d][j].pc \in {"store", "ok"} => job'[d][j] = job[d][j]
  BY <1>1
<1>5. Fresh'
  <2>1. ASSUME NEW d \in Calls, NEW j \in Chains, job'[d][j].pc = "store"
        PROVE  Fetched(d, j)'
    BY <1>4, <2>1 DEF IInv, Fresh, Fetched
  <2>2. ASSUME NEW d \in Calls, NEW j \in Chains, job'[d][j].pc = "ok"
        PROVE  Holds(j, call[d].since[j] - Lag)'
    BY <1>4, <2>2 DEF IInv, Fresh, Holds
  <2>3. ASSUME NEW d \in Calls, Started(d)', NEW j \in EqualRoots(d)'
        PROVE  FoundEqual(d, j)'
    <3>1. Started(d) /\ j \in EqualRoots(d) /\ FoundEqual(d, j)
      BY <2>3 DEF IInv, Fresh, Started, EqualRoots
    <3>2. j \in Chains
      BY <3>1 DEF IInv, Course, Started, EqualRoots
    <3> QED
      BY <1>4, <3>1, <3>2 DEF FoundEqual, Holds
  <2> QED
    BY <2>1, <2>2, <2>3 DEF Fresh
<1> QED
  BY <1>2, <1>3, <1>5 DEF IInv

LEMMA LockResetStep ==
  ASSUME IInv, NEW c \in Calls, NEW k \in Chains, LockReset(c, k)
  PROVE  IInv'
<1> USE DEF LockReset
<1>1. resetLock' \in [Chains -> Calls \union {None}]
  BY DEF IInv, TypeOK
<1>2. Mutex'
  <2> SUFFICES ASSUME NEW d \in Calls, NEW j \in Chains
               PROVE  resetLock'[j] = d <=> job'[d][j].pc \in {"retrieve", "store"}
    BY DEF Mutex
  <2>1. CASE j = k
    <3>1. resetLock'[j] = c /\ job'[c][j].pc = "retrieve"
      BY <2>1 DEF IInv, TypeOK, JobType
    <3>2. d # c => job'[d][j] = job[d][j] /\ job[d][j].pc \notin {"retrieve", "store"}
      BY <2>1 DEF IInv, TypeOK, Mutex
    <3> QED
      BY <3>1, <3>2
  <2>2. CASE j # k
    BY <2>2 DEF IInv, TypeOK, Mutex
  <2> QED
    BY <2>1, <2>2
<1> QED
  BY <1>1, <1>2, JobMoves

LEMMA RetrieveFailsStep ==
  ASSUME IInv, NEW c \in Calls, NEW k \in Chains, RetrieveFails(c, k)
  PROVE  IInv'
<1> USE DEF RetrieveFails, UnlockedAfterError, Unlocked
<1>1. resetLock' \in [Chains -> Calls \union {None}]
  BY DEF IInv, TypeOK
<1>2. Mutex'
  <2> SUFFICES ASSUME NEW d \in Calls, NEW j \in Chains
               PROVE  resetLock'[j] = d <=> job'[d][j].pc \in {"retrieve", "store"}
    BY DEF Mutex
  <2>1. CASE j = k
    <3>1. resetLock'[j] = None /\ job'[c][j].pc = "failed"
      BY <2>1 DEF IInv, TypeOK, JobType
    <3>2. d # c => job'[d][j] = job[d][j] /\ job[d][j].pc \notin {"retrieve", "store"}
      BY <2>1 DEF IInv, TypeOK, Mutex
    <3> QED
      BY <3>1, <3>2
  <2>2. CASE j # k
    BY <2>2 DEF IInv, TypeOK, Mutex
  <2> QED
    BY <2>1, <2>2
<1> QED
  BY <1>1, <1>2, JobMoves

\* What a node shows is at most Lag behind everything that has been stored or
\* asked for.
LEMMA RetrieveStep ==
  ASSUME IInv, NEW c \in Calls, NEW k \in Chains, NEW n \in 0 .. MaxHeight,
         NEW whole \in BOOLEAN, RetrieveEvents(c, k, n, whole)
  PROVE  IInv'
<1> USE DEF RetrieveEvents
<1> DEFINE got == [n |-> n, whole |-> whole]
<1>1. got \in Copies /\ got.n = n /\ got # None
  BY DEF Copies
<1>2. n \in Nat /\ n <= height[k] /\ height[k] - n <= Lag /\ height[k] \in Nat
  BY DEF NodeMayShow, IInv, TypeOK
<1>3. /\ job'[c][k] = [pc |-> "store", got |-> got] /\ job'[c][k].pc = "store"
      /\ job'[c][k].got = got
      /\ \A d \in Calls, j \in Chains : d # c \/ j # k => job'[d][j] = job[d][j]
  BY DEF IInv, TypeOK
<1>4. TypeOK'
  <2>1. [pc |-> "store", got |-> got] \in JobType
    BY <1>1 DEF JobType
  <2> QED
    BY <2>1 DEF IInv, TypeOK
<1> HIDE DEF got
<1>5. Mutex' /\ Bounded'
  BY <1>3 DEF IInv, Mutex, Bounded
<1>6. ASSUME NEW d \in Calls PROVE Course(d)'
  <2>1. Course(d) /\ call'[d] = call[d] /\ call[d].toReset \subseteq Chains
    BY DEF IInv, TypeOK, CallType
  <2> QED
    BY <1>3, <2>1 DEF Course, Started
<1>7. \A d \in Calls : call[d].since[k] \in Nat /\ call[d].since[k] <= height[k]
  BY DEF IInv, TypeOK, CallType, Bounded
<1>8. tree[k] # None => tree[k].n \in Nat /\ tree[k].n <= height[k]
  BY DEF IInv, TypeOK, Copies, Bounded
<1>9. Fresh'
  <2>1. ASSUME NEW d \in Calls, NEW j \in Chains, job'[d][j].pc = "store"
        PROVE  Fetched(d, j)'
    <3>1. CASE d = c /\ j = k
      BY <1>1, <1>2, <1>3, <1>7, <1>8, <3>1 DEF Fetched
    <3>2. CASE d # c \/ j # k
      BY <1>3, <2>1, <3>2 DEF IInv, Fresh, Fetched
    <3> QED
      BY <3>1, <3>2
  <2>2. ASSUME NEW d \in Calls, NEW j \in Chains, job'[d][j].pc = "ok"
        PROVE  Holds(j, call[d].since[j] - Lag)'
    BY <1>3, <2>2 DEF IInv, Fresh, Holds
  <2>3. ASSUME NEW d \in Calls, Started(d)', NEW j \in EqualRoots(d)'
        PROVE  FoundEqual(d, j)'
    <3>1. Started(d) /\ j \in EqualRoots(d) /\ FoundEqual(d, j)
      BY <2>3 DEF IInv, Fresh, Started, EqualRoots
    <3>2. j \in Chains
      BY <3>1 DEF IInv, Course, Started, EqualRoots
    <3>3. n >= call[d].since[k] - 2 * Lag
      BY <1>2, <1>7
    <3> QED
      BY <1>1, <1>3, <3>1, <3>2, <3>3 DEF FoundEqual, Holds
  <2> QED
    BY <2>1, <2>2, <2>3 DEF Fresh
<1> QED
  BY <1>4, <1>5, <1>6, <1>9 DEF IInv

\* The copy is stored under the mutex of the chain: no other goroutine holds
\* one, so nothing newer is ever replaced by it.
LEMMA StoreStep ==
  ASSUME IInv, NEW c \in Calls, NEW k \in Chains, StoreChainState(c, k)
  PROVE  IInv'
<1> USE DEF StoreChainState, Unlocked
<1> DEFINE got == job[c][k].got
<1>1. got \in Copies /\ got # None /\ Fetched(c, k)
  BY DEF IInv, Fresh, Fetched, TypeOK, JobType
<1>2. /\ job' \in [Calls -> [Chains -> JobType]] /\ job'[c][k].pc = "ok"
      /\ \A d \in Calls, j \in Chains : d # c \/ j # k => job'[d][j] = job[d][j]
  <2> DEFINE q == [job[c][k] EXCEPT !.pc = "ok"]
  <2>0. job[c][k] \in JobType
    BY DEF IInv, TypeOK
  <2>1. q \in JobType /\ q.pc = "ok"
    BY <2>0 DEF JobType
  <2>2. job' = [job EXCEPT ![c] = [job[c] EXCEPT ![k] = q]]
    BY DEF IInv, TypeOK
  <2> HIDE DEF q
  <2>3. job \in [Calls -> [Chains -> JobType]]
    BY DEF IInv, TypeOK
  <2>4. /\ job' \in [Calls -> [Chains -> JobType]] /\ job'[c][k] = q
        /\ \A d \in Calls, j \in Chains : d # c \/ j # k => job'[d][j] = job[d][j]
    BY ONLY <2>1, <2>2, <2>3, OneEntry
  <2> QED
    BY <2>1, <2>4
<1>3. tree'[k] = got /\ \A j \in Chains \ {k} : tree'[j] = tree[j]
  BY DEF IInv, TypeOK
<1>4. resetLock'[k] = None /\ \A j \in Chains \ {k} : resetLock'[j] = resetLock[j]
  BY DEF IInv, TypeOK
<1>5. \A d \in Calls : job'[d][k].pc \notin {"retrieve", "store"}
  BY <1>2 DEF IInv, Mutex
<1>6. TypeOK'
  BY <1>1, <1>2 DEF IInv, TypeOK
<1>7. Mutex'
  <2> SUFFICES ASSUME NEW d \in Calls, NEW j \in Chains
               PROVE  resetLock'[j] = d <=> job'[d][j].pc \in {"retrieve", "store"}
    BY DEF Mutex
  <2>1. CASE j = k
    BY <1>4, <1>5, <2>1
  <2>2. CASE j # k
    BY <1>2, <1>4, <2>2 DEF IInv, Mutex
  <2> QED
    BY <2>1, <2>2
<1>8. Bounded'
  BY <1>1, <1>3 DEF IInv, Bounded, Fetched
<1>9. ASSUME NEW d \in Calls PROVE Course(d)'
  <2>1. Course(d) /\ call'[d] = call[d] /\ call[d].toReset \subseteq Chains
    BY DEF IInv, TypeOK, CallType
  <2> QED
    BY <1>2, <2>1 DEF Course, Started
<1>10. Fresh'
  <2>1. ASSUME NEW d \in Calls, NEW j \in Chains, job'[d][j].pc = "store"
        PROVE  Fetched(d, j)'
    <3>1. j # k
      BY <1>5, <2>1
    <3>2. Fetched(d, j) /\ \A e \in Calls : job'[e][j] = job[e][j]
      BY <1>2, <2>1, <3>1 DEF IInv, Fresh
    <3> QED
      BY <1>3, <3>1, <3>2 DEF Fetched
  <2>2. ASSUME NEW d \in Calls, NEW j \in Chains, job'[d][j].pc = "ok"
        PROVE  Holds(j, call[d].since[j] - Lag)'
    <3>1. CASE j # k
      BY <1>2, <1>3, <2>2, <3>1 DEF IInv, Fresh, Holds
    <3>2. CASE j = k
      <4>1. got.n >= call[d].since[k] - Lag
        BY <1>1, <1>2, <2>2, <3>2 DEF Fetched
      <4> QED
        BY <1>1, <1>3, <3>2, <4>1 DEF Holds, NoTree
    <3> QED
      BY <3>1, <3>2
  <2>3. ASSUME NEW d \in Calls, Started(d)', NEW j \in EqualRoots(d)'
        PROVE  FoundEqual(d, j)'
    <3>1. Started(d) /\ j \in EqualRoots(d) /\ FoundEqual(d, j)
      BY <2>3 DEF IInv, Fresh, Started, EqualRoots
    <3>2. j \in Chains
      BY <3>1 DEF IInv, Course, Started, EqualRoots
    <3>3. CASE j # k
      BY <1>2, <1>3, <3>1, <3>2, <3>3 DEF FoundEqual, Holds
    <3>4. CASE j = k
      <4>1. got.n >= call[d].since[k] - 2 * Lag
        BY <3>1, <3>4 DEF FoundEqual
      <4> QED
        BY <1>1, <1>3, <1>5, <3>4, <4>1 DEF FoundEqual, Holds, NoTree
    <3> QED
      BY <3>3, <3>4
  <2> QED
    BY <2>1, <2>2, <2>3 DEF Fresh
<1> QED
  BY <1>6, <1>7, <1>8, <1>9, <1>10 DEF IInv

-----------------------------------------------------------------------------
LEMMA IInvNext == IInv /\ [Next]_vars => IInv'
<1> SUFFICES ASSUME IInv, [Next]_vars PROVE IInv'
  OBVIOUS
<1>1. CASE UNCHANGED vars
  <2>1. /\ height' \in [Chains -> Nat] /\ \A k \in Chains : height'[k] >= height[k]
        /\ disabled' \in BOOLEAN /\ balLock' \in [Chains -> BOOLEAN]
    BY <1>1 DEF vars, IInv, TypeOK
  <2> QED
    BY <1>1, <2>1, QuietStep DEF vars
<1>2. ASSUME NEW k \in Chains, NewLeaf(k) PROVE IInv'
  <2>1. /\ height' \in [Chains -> Nat] /\ \A j \in Chains : height'[j] >= height[j]
        /\ disabled' \in BOOLEAN /\ balLock' \in [Chains -> BOOLEAN]
    BY <1>2 DEF NewLeaf, IInv, TypeOK
  <2> QED
    BY <1>2, <2>1, QuietStep DEF NewLeaf
<1>3. ASSUME NEW k \in Chains, LockBalance(k) \/ UnlockBalance(k) PROVE IInv'
  <2>1. PICK b \in BOOLEAN : balLock' = [balLock EXCEPT ![k] = b]
    BY <1>3 DEF LockBalance, UnlockBalance
  <2>2. balLock' \in [Chains -> BOOLEAN]
    BY <2>1 DEF IInv, TypeOK
  <2>3. /\ height' \in [Chains -> Nat] /\ \A j \in Chains : height'[j] >= height[j]
        /\ disabled' \in BOOLEAN
    BY <1>3 DEF LockBalance, UnlockBalance, IInv, TypeOK
  <2> QED
    BY <1>3, <2>2, <2>3, QuietStep DEF LockBalance, UnlockBalance
<1>4. ASSUME NEW value \in BOOLEAN, UpdateMerkleTreeUpdates(value) PROVE IInv'
  <2>1. /\ height' \in [Chains -> Nat] /\ \A j \in Chains : height'[j] >= height[j]
        /\ disabled' \in BOOLEAN /\ balLock' \in [Chains -> BOOLEAN]
    BY <1>4 DEF UpdateMerkleTreeUpdates, IInv, TypeOK
  <2> QED
    BY <1>4, <2>1, QuietStep DEF UpdateMerkleTreeUpdates
<1>5. ASSUME NEW c \in Calls, NEW chains \in Lists, ResetMerkle(c, chains) PROVE IInv'
  BY <1>5, ResetMerkleStep
<1>6. ASSUME NEW c \in Calls, NEW chains \in Lists, ResetMerkleTreesIfNecessary(c, chains) PROVE IInv'
  BY <1>6, IfNecessaryStep
<1>7. ASSUME NEW c \in Calls, CallStep(c) PROVE IInv'
  BY <1>7, CompareRootsStep, RootRequestFailsStep, ComparedStep, LockResetStep, RetrieveStep,
     RetrieveFailsStep, StoreStep, JoinStep DEF CallStep
<1> QED
  BY <1>1, <1>2, <1>3, <1>4, <1>5, <1>6, <1>7 DEF Next

\* Two goroutines between the lock and the unlock of one chain are the same.
OneAtATime ==
  \A k \in Chains, c \in Calls, d \in Calls :
    job[c][k].pc \in {"retrieve", "store"} /\ job[d][k].pc \in {"retrieve", "store"} => c = d

\* The mutex of a chain has the goroutine that fetches and stores its copy as
\* its only holder (resetMerkleTreeForChain, with its deferred unlock).
THEOREM OneAtATimeAlways == Spec => []OneAtATime
<1>1. IInv => OneAtATime
  BY DEF IInv, Mutex, OneAtATime
<1> QED
  BY <1>1, IInvInit, IInvNext, PTL DEF Spec

\* Whatever resets run side by side and however far nodes are behind, a chain
\* that a finished call has fetched is at most Lag, and one whose roots it
\* found equal at most 2 * Lag, older than the chain was when it began.
THEOREM FreshAfterResetAlways == Spec => []FreshAfterReset
<1>1. IInv => FreshAfterReset
  <2> SUFFICES ASSUME IInv, NEW c \in Calls, call[c].pc = "done"
               PROVE  FreshAfterReset!(c)
    BY DEF FreshAfterReset
  <2>1. \A k \in Chains : job[c][k].pc = "ok" => Holds(k, call[c].since[k] - Lag)
    BY DEF IInv, Fresh
  <2>2. ASSUME ~call[c].err /\ ~call[c].skipped,
               NEW k \in call[c].chains \union call[c].toReset
        PROVE  Holds(k, call[c].since[k] - IF k \in call[c].toReset THEN Lag ELSE 2 * Lag)
    <3>1. Started(c) /\ Course(c)
      BY <2>2 DEF Started, IInv
    <3>2. CASE k \in call[c].toReset
      <4>1. k \in Chains /\ job[c][k].pc = "ok"
        BY <3>1, <3>2 DEF IInv, TypeOK, CallType, Course
      <4> QED
        BY <2>1, <3>2, <4>1
    <3>3. CASE k \notin call[c].toReset
      <4>1. k \in EqualRoots(c)
        BY <2>2, <3>1, <3>3 DEF Course, EqualRoots
      <4> QED
        BY <3>1, <3>3, <4>1 DEF IInv, Fresh, FoundEqual
    <3> QED
      BY <3>2, <3>3
  <2> QED
    BY <2>1, <2>2
<1> QED
  BY <1>1, IInvInit, IInvNext, PTL DEF Spec

-----------------------------------------------------------------------------
(***************************************************************************)
(* Proofs about ProviderAdapters for any number of adapters, chains,       *)
(* goroutines and calls.                                                   *)
(*                                                                         *)
(* The signers are settled by InstallInv: an adapter that lost its signer, *)
(* is in the slot, waits for its release or is used by a call has been     *)
(* installed before, so that it comes back into the slot only through a    *)
(* second installation.  The chains are settled by SelectedInv, which      *)
(* follows both chains that a SendTransaction reads, and the nonces by     *)
(* NonceInv: a nonce that a call holds is the first free one of its chain  *)
(* until another transaction overtakes it, and those below it are taken    *)
(* for good.                                                               *)
(***************************************************************************)

UserType ==
  [pc : {"idle", "connect", "init", "release", "done"}, a : Adapters \union {Null},
   chain : Networks \union {Null}]

SendType ==
  [pc : {"idle", "nonce", "gas", "sign", "broadcast", "sent", "failed"},
   want : Networks \union {Null}, a : Adapters \union {Null}, chain : Networks \union {Null},
   nonce : Nat, tx : Networks \union {Null},
   err : {"none", "signer", "panic", "request", "nonce", "answer"},
   selected : SUBSET Networks, raced : BOOLEAN]

Transactions == [send : Sends \union {Null}, chain : Networks, nonce : Nat]

AdapterTypeOK ==
  /\ slot \in Adapters \union {Null}
  /\ chainOf \in [Adapters -> Networks]
  /\ signer \in SUBSET Adapters
  /\ user \in [Users -> UserType]
  /\ sent \in SUBSET Transactions
  /\ send \in [Sends -> SendType]
  /\ installs \in [Adapters -> SUBSET Users]
  /\ \A u \in Users :
       /\ user[u].pc \in {"connect", "init"} => user[u].a \in Adapters
       /\ user[u].pc = "init" => user[u].chain \in Networks

Twice(a) == \E u, v \in installs[a] : u # v

\* Adapter a has been installed, and twice if it is in the slot.
Reinstalled(a) == installs[a] # {} /\ (a = slot => Twice(a))

InstallInv ==
  /\ \A a \in Adapters : IsFiniteSet(installs[a])
  /\ \A a \in Adapters : a \notin signer => Reinstalled(a)
  /\ slot # Null => installs[slot] # {}
  /\ \A u \in Users :
       /\ user[u].pc = "idle" => \A a \in Adapters : u \notin installs[a]
       /\ user[u].pc = "release" /\ user[u].a # Null => Reinstalled(user[u].a)
  /\ \A c \in Sends :
       /\ send[c].a # Null => installs[send[c].a] # {}
       /\ send[c].err = "panic" => send[c].a # Null /\ Reinstalled(send[c].a)
  /\ \A a \in signer :
       installs[a] # {} => a = slot \/ \E u \in Users : user[u].pc = "release" /\ user[u].a = a

\* Both chains a call reads are ones its adapter was on while it ran.
SelectedInv ==
  /\ \A c \in Sends :
       LET p == send[c]
       IN  p.pc # "idle" => /\ p.a \in Adapters
                            /\ IsFiniteSet(p.selected)
                            /\ p.chain \in p.selected /\ chainOf[p.a] \in p.selected
                            /\ p.pc \in {"sign", "broadcast"} => p.tx \in p.selected
  /\ \A s \in sent : s.send # Null => /\ send[s.send].pc \in {"sent", "failed"}
                                      /\ s.chain \in send[s.send].selected

Others == {s \in sent : s.send = Null}

\* A call sends one transaction, other programs send MaxOthers.
SentInv ==
  /\ IsFiniteSet(Others) /\ Cardinality(Others) <= MaxOthers
  /\ \A s, t \in sent : s.send # Null /\ s.send = t.send => s = t

Several(c) == \E j, k \in send[c].selected : j # k

TakenBelow(k, n) == \A m \in 0 .. (n - 1) : m \in Nonces(k)

NonceInv ==
  /\ \A c \in Sends :
       LET p == send[c]
       IN  /\ p.pc \in {"gas", "sign", "broadcast"} =>
                TakenBelow(p.chain, p.nonce) /\ (~p.raced => p.nonce \notin Nonces(p.chain))
           /\ p.err = "nonce" => p.pc = "failed" /\ (p.raced \/ Several(c))
  /\ \A s \in sent : s.send # Null => TakenBelow(s.chain, s.nonce) \/ Several(s.send)

AdapterIInv == AdapterTypeOK /\ InstallInv /\ SelectedInv /\ SentInv /\ NonceInv

-----------------------------------------------------------------------------
HIDE ResetAssumption
USE AdapterAssumption

\* Two different elements make a finite set larger than one.
LEMMA MoreThanOne ==
  ASSUME NEW S, IsFiniteSet(S), NEW x \in S, NEW y \in S, x # y
  PROVE  Cardinality(S) > 1
<1>1. Cardinality(S) \in Nat
  BY FS_CardinalityType
<1>2. Cardinality(S) # 0
  BY FS_EmptySet
<1>3. Cardinality(S) # 1
  BY FS_Singleton
<1> QED
  BY <1>1, <1>2, <1>3

\* A set of numbers that is not empty has a least element.
LEMMA LeastNumber ==
  ASSUME NEW T \in SUBSET Nat, T # {}
  PROVE  \E n \in T : \A m \in T : n <= m
<1>1. PICK n \in T : \A m \in T : <<m, n>> \notin OpToRel(<, Nat)
  BY NatLessThanWellFounded, WFMin
<1>2. \A m \in T : ~(m < n)
  BY <1>1 DEF OpToRel
<1> QED
  BY <1>2

\* No more transactions are sent than there are nonces.
LEMMA SentBounded ==
  ASSUME AdapterTypeOK, SentInv, NEW k \in Networks
  PROVE  /\ IsFiniteSet(Nonces(k)) /\ Cardinality(Nonces(k)) <= MaxNonce
         /\ MaxNonce \in Nat
<1> DEFINE ours == {s \in sent : s.send # Null}
           here == {s \in sent : s.chain = k}
<1>1. Cardinality(Sends) \in Nat /\ MaxNonce \in Nat
  BY FS_CardinalityType DEF MaxNonce
<1>2. IsFiniteSet(ours) /\ Cardinality(ours) <= Cardinality(Sends)
  <2> DEFINE f == [s \in ours |-> s.send]
  <2>1. f \in Injection(ours, Sends)
    <3>1. f \in [ours -> Sends]
      BY DEF AdapterTypeOK, Transactions
    <3>2. \A s, t \in ours : f[s] = f[t] => s = t
      BY DEF SentInv
    <3> HIDE DEF f, ours
    <3> QED
      BY <3>1, <3>2 DEF Injection, IsInjective
  <2> QED
    BY <2>1, FS_Injection
<1>3. IsFiniteSet(sent) /\ Cardinality(sent) <= MaxNonce
  <2>1. sent = Others \union ours
    BY DEF Others
  <2>2. Others \intersect ours = {} /\ Cardinality({}) = 0
    BY FS_EmptySet DEF Others
  <2>3. IsFiniteSet(sent) /\ Cardinality(sent) = Cardinality(Others) + Cardinality(ours) - 0
    <3>1. IsFiniteSet(Others) /\ IsFiniteSet(ours)
      BY <1>2 DEF SentInv
    <3> HIDE DEF ours
    <3> QED
      BY <2>1, <2>2, <3>1, FS_Union
  <2>4. Cardinality(Others) \in Nat /\ Cardinality(ours) \in Nat /\ Cardinality(Others) <= MaxOthers
    BY <1>2, FS_CardinalityType DEF SentInv
  <2> HIDE DEF ours
  <2> QED
    BY <1>1, <1>2, <2>3, <2>4 DEF MaxNonce
<1>4. IsFiniteSet(here) /\ Cardinality(here) <= Cardinality(sent)
  BY <1>3, FS_Subset
<1>5. IsFiniteSet(Nonces(k)) /\ Cardinality(Nonces(k)) <= Cardinality(here)
  <2> DEFINE g == [s \in here |-> s.nonce]
  <2>1. g \in Surjection(here, Nonces(k))
    BY DEF Nonces, Surjection
  <2> QED
    BY <1>4, <2>1, FS_Surjection
<1> QED
  BY <1>1, <1>3, <1>4, <1>5, FS_CardinalityType

\* PendingNonceAt: a chain always has a first free nonce, and it is the answer.
LEMMA NextNonceFree ==
  ASSUME AdapterTypeOK, SentInv, NEW k \in Networks
  PROVE  /\ NextNonce(k) \in Nat /\ NextNonce(k) \notin Nonces(k)
         /\ TakenBelow(k, NextNonce(k))
<1> DEFINE free == (0 .. MaxNonce) \ Nonces(k)
<1>1. IsFiniteSet(Nonces(k)) /\ Cardinality(Nonces(k)) <= MaxNonce /\ MaxNonce \in Nat
  BY SentBounded
<1>2. free # {}
  <2>1. IsFiniteSet(0 .. MaxNonce) /\ Cardinality(0 .. MaxNonce) = MaxNonce + 1
    BY <1>1, FS_Interval
  <2>2. Cardinality(Nonces(k)) \in Nat
    BY <1>1, FS_CardinalityType
  <2>3. ~(0 .. MaxNonce \subseteq Nonces(k))
    BY <1>1, <2>1, <2>2, FS_Subset
  <2> QED
    BY <2>3
<1>3. free \in SUBSET Nat
  BY <1>1
<1>4. PICK n \in free : \A m \in free : n <= m
  BY <1>2, <1>3, LeastNumber
<1>5. n \in 0 .. MaxNonce /\ n \notin Nonces(k) /\ \A m \in 0 .. (n - 1) : m \in Nonces(k)
  BY <1>1, <1>4
<1>6. /\ NextNonce(k) \in 0 .. MaxNonce /\ NextNonce(k) \notin Nonces(k)
      /\ \A m \in 0 .. (NextNonce(k) - 1) : m \in Nonces(k)
  BY <1>5 DEF NextNonce
<1> QED
  BY <1>1, <1>6 DEF TakenBelow

-----------------------------------------------------------------------------
LEMMA AdapterIInvInit == AdapterInit => AdapterIInv
<1> SUFFICES ASSUME AdapterInit PROVE AdapterIInv
  OBVIOUS
<1>1. NoUser \in UserType /\ NoSend \in SendType
  BY DEF NoUser, UserType, NoSend, SendType
<1>2. /\ \A u \in Users : user[u].pc = "idle"
      /\ \A c \in Sends : send[c].pc = "idle" /\ send[c].a = Null /\ send[c].err = "none"
  BY DEF AdapterInit, NoUser, NoSend
<1>3. AdapterTypeOK
  BY <1>1, <1>2 DEF AdapterInit, AdapterTypeOK
<1>4. InstallInv
  BY <1>2, FS_EmptySet DEF AdapterInit, InstallInv
<1>5. SelectedInv /\ NonceInv
  BY <1>2 DEF AdapterInit, SelectedInv, NonceInv
<1>6. SentInv
  <2>1. Others = {} /\ IsFiniteSet({}) /\ Cardinality({}) = 0
    BY FS_EmptySet DEF AdapterInit, Others
  <2> QED
    BY <2>1 DEF AdapterInit, SentInv
<1> QED
  BY <1>3, <1>4, <1>5, <1>6 DEF AdapterIInv

\* What the calls under way get to know of changes nothing else of them.
LEMMA SelectedCalls ==
  ASSUME AdapterTypeOK, NEW a \in Adapters, NEW k \in Networks, send' = Selected(a, k)
  PROVE  /\ send' \in [Sends -> SendType]
         /\ \A c \in Sends :
              /\ send'[c].pc = send[c].pc /\ send'[c].a = send[c].a /\ send'[c].err = send[c].err
              /\ send'[c].chain = send[c].chain /\ send'[c].tx = send[c].tx
              /\ send'[c].nonce = send[c].nonce /\ send'[c].raced = send[c].raced
              /\ send[c].a = a => send'[c].selected = send[c].selected \union {k}
              /\ send[c].a # a => send'[c].selected = send[c].selected
<1>1. \A d \in Sends : /\ send[d] \in SendType
                       /\ [send[d] EXCEPT !.selected = @ \union {k}] \in SendType
  BY DEF AdapterTypeOK, SendType
<1>2. send' \in [Sends -> SendType]
  BY <1>1 DEF Selected
<1>3. \A c \in Sends : send'[c] = IF send[c].a = a THEN [send[c] EXCEPT !.selected = @ \union {k}] ELSE send[c]
  BY DEF Selected
<1> QED
  BY <1>1, <1>2, <1>3 DEF SendType

\* A reinstalled adapter stays one while no other is installed, and also when
\* goroutine u, which has installed none before, installs adapter a.
LEMMA ReinstalledStays ==
  ASSUME AdapterTypeOK, NEW a \in Adapters, NEW b \in Adapters, NEW u \in Users, u \notin installs[a],
         slot' = a, installs' = [installs EXCEPT ![a] = @ \union {u}], installs[b] # {}
  PROVE  Reinstalled(b)'
<1>1. installs'[a] = installs[a] \union {u} /\ (b # a => installs'[b] = installs[b])
  BY DEF AdapterTypeOK
<1>2. CASE b = a
  <2>1. PICK v : v \in installs[a]
    BY <1>2
  <2>2. v # u /\ v \in installs'[a] /\ u \in installs'[a]
    BY <1>1, <2>1
  <2> QED
    BY <1>2, <2>2 DEF Reinstalled, Twice
<1>3. CASE b # a
  BY <1>1, <1>3 DEF Reinstalled
<1> QED
  BY <1>2, <1>3

\* UpdateProviderAdapter releases what it replaces and leaves the calls alone.
LEMMA UpdateStep ==
  ASSUME AdapterIInv, NEW u \in Users, NEW a \in Adapters, UpdateProviderAdapter(u, a)
  PROVE  AdapterIInv'
<1> USE DEF UpdateProviderAdapter
<1> DEFINE q == [pc |-> "connect", a |-> a, chain |-> Null]
<1>1. q \in UserType /\ q.pc = "connect" /\ q.a = a
  BY DEF UserType
<1>2. user' = [user EXCEPT ![u] = q]
  OBVIOUS
<1> HIDE DEF q
<1>3. /\ user'[u] = q /\ user' \in [Users -> UserType]
      /\ \A v \in Users \ {u} : user'[v] = user[v]
  BY <1>1, <1>2 DEF AdapterIInv, AdapterTypeOK
<1>4. AdapterTypeOK'
  BY <1>1, <1>3 DEF AdapterIInv, AdapterTypeOK, ReleaseReplaced
<1>5. \A b \in Adapters : u \notin installs[b]
  BY DEF AdapterIInv, InstallInv
<1>6. /\ installs'[a] = installs[a] \union {u}
      /\ \A b \in Adapters : b # a => installs'[b] = installs[b]
  BY DEF AdapterIInv, AdapterTypeOK
<1>7. \A b \in Adapters : installs[b] # {} => Reinstalled(b)'
  BY <1>5, ReinstalledStays DEF AdapterIInv
<1>8. InstallInv'
  <2>1. \A b \in Adapters : IsFiniteSet(installs'[b])
    BY <1>6, FS_AddElement DEF AdapterIInv, InstallInv
  <2>2. \A b \in Adapters : b \notin signer' => Reinstalled(b)'
    BY <1>7 DEF AdapterIInv, InstallInv, Reinstalled, ReleaseReplaced, AdapterTypeOK
  <2>3. installs'[slot'] # {}
    BY <1>6
  <2>4. ASSUME NEW v \in Users
        PROVE  /\ user'[v].pc = "idle" => \A b \in Adapters : v \notin installs'[b]
               /\ user'[v].pc = "release" /\ user'[v].a # Null => Reinstalled(user[v].a)'
    <3>1. CASE v = u
      BY <1>1, <1>3, <3>1
    <3>2. CASE v # u
      <4>1. user'[v] = user[v] /\ user[v].a \in Adapters \union {Null}
        BY <1>3, <3>2 DEF AdapterIInv, AdapterTypeOK, UserType
      <4>2. user[v].pc = "idle" => \A b \in Adapters : v \notin installs'[b]
        BY <1>6, <3>2 DEF AdapterIInv, InstallInv
      <4>3. user[v].pc = "release" /\ user[v].a # Null => Reinstalled(user[v].a)'
        <5> SUFFICES ASSUME user[v].pc = "release", user[v].a # Null
                     PROVE  Reinstalled(user[v].a)'
          OBVIOUS
        <5>1. user[v].a \in Adapters /\ installs[user[v].a] # {}
          BY <4>1 DEF AdapterIInv, InstallInv, Reinstalled
        <5>2. Reinstalled(user[v].a)'
          BY <1>7, <4>1, <5>1 DEF Reinstalled, Twice
        <5> QED
          BY <5>2
      <4> QED
        BY <4>1, <4>2, <4>3
    <3> QED
      BY <3>1, <3>2
  <2>5. ASSUME NEW c \in Sends
        PROVE  /\ send'[c].a # Null => installs'[send'[c].a] # {}
               /\ send'[c].err = "panic" => send'[c].a # Null /\ Reinstalled(send[c].a)'
    <3>1. send[c].a # Null => send[c].a \in Adapters /\ installs[send[c].a] # {}
      BY DEF AdapterIInv, AdapterTypeOK, SendType, InstallInv
    <3>2. send[c].err = "panic" => send[c].a # Null
      BY DEF AdapterIInv, InstallInv
    <3> QED
      BY <1>6, <1>7, <3>1, <3>2 DEF Reinstalled, Twice
  <2>6. ASSUME NEW b \in signer', installs'[b] # {}
        PROVE  b = slot' \/ \E v \in Users : user'[v].pc = "release" /\ user'[v].a = b
    <3>1. CASE b = a
      BY <3>1
    <3>2. CASE b # a
      <4>1. b \in signer /\ b # slot /\ installs[b] # {}
        BY <1>6, <2>6, <3>2 DEF ReleaseReplaced, AdapterIInv, AdapterTypeOK
      <4>2. PICK v \in Users : user[v].pc = "release" /\ user[v].a = b
        BY <4>1 DEF AdapterIInv, InstallInv
      <4> QED
        BY <1>3, <4>2
    <3> QED
      BY <3>1, <3>2
  <2> QED
    BY <2>1, <2>2, <2>3, <2>4, <2>5, <2>6 DEF InstallInv
<1>9. SelectedInv' /\ SentInv' /\ NonceInv'
  BY DEF AdapterIInv, SelectedInv, SentInv, Others, NonceInv, Several, TakenBelow, Nonces
<1> QED
  BY <1>4, <1>8, <1>9 DEF AdapterIInv

\* A goroutine goes on without touching slot, signers or installations.
LEMMA UserMoves ==
  ASSUME AdapterIInv, NEW u \in Users, NEW q \in UserType, user' = [user EXCEPT ![u] = q],
         user[u].pc # "release", q.pc \notin {"idle", "release"},
         UNCHANGED <<slot, signer, installs>>,
         \A c \in Sends : send'[c].a = send[c].a /\ send'[c].err = send[c].err
  PROVE  InstallInv'
<1>1. user'[u] = q /\ \A v \in Users \ {u} : user'[v] = user[v]
  BY DEF AdapterIInv, AdapterTypeOK
<1>2. \A a : Reinstalled(a)' <=> Reinstalled(a)
  BY DEF Reinstalled, Twice
<1>3. \A v \in Users :
        /\ user'[v].pc = "idle" => \A a \in Adapters : v \notin installs'[a]
        /\ user'[v].pc = "release" /\ user'[v].a # Null => Reinstalled(user[v].a) /\ user'[v] = user[v]
  BY <1>1 DEF AdapterIInv, InstallInv
<1>4. \A a \in signer' :
        installs'[a] # {} => a = slot' \/ \E v \in Users : user'[v].pc = "release" /\ user'[v].a = a
  <2> SUFFICES ASSUME NEW a \in signer, installs[a] # {}, a # slot
               PROVE  \E v \in Users : user'[v].pc = "release" /\ user'[v].a = a
    OBVIOUS
  <2>1. PICK v \in Users : user[v].pc = "release" /\ user[v].a = a
    BY DEF AdapterIInv, InstallInv
  <2> QED
    BY <1>1, <2>1
<1>5. \A v \in Users : user'[v].pc = "release" /\ user'[v].a # Null => Reinstalled(user[v].a)'
  BY <1>2, <1>3
<1>6. \A v \in Users : user'[v].pc = "release" /\ user'[v].a # Null => Reinstalled(user'[v].a)
  BY <1>3
<1>7. \A c \in Sends :
        /\ send'[c].a # Null => installs'[send'[c].a] # {}
        /\ send'[c].err = "panic" => send'[c].a # Null /\ Reinstalled(send'[c].a)
  BY DEF AdapterIInv, InstallInv
<1> QED
  BY <1>2, <1>3, <1>4, <1>6, <1>7 DEF AdapterIInv, InstallInv, Reinstalled, Twice

LEMMA EndsUser ==
  /\ [NoUser EXCEPT !.pc = "done"] \in UserType
  /\ [NoUser EXCEPT !.pc = "done"].pc = "done"
  BY DEF NoUser, UserType

\* The adapter a is put on chain k: the calls under way on it get to know.
LEMMA ChainSwitched ==
  ASSUME AdapterIInv, NEW a \in Adapters, NEW k \in Networks,
         chainOf' = [chainOf EXCEPT ![a] = k], send' = Selected(a, k), UNCHANGED sent
  PROVE  /\ send' \in [Sends -> SendType] /\ chainOf' \in [Adapters -> Networks]
         /\ \A c \in Sends : send'[c].a = send[c].a /\ send'[c].err = send[c].err
         /\ SelectedInv' /\ SentInv' /\ NonceInv'
<1>1. /\ send' \in [Sends -> SendType] /\ chainOf' \in [Adapters -> Networks]
      /\ chainOf'[a] = k /\ \A b \in Adapters \ {a} : chainOf'[b] = chainOf[b]
  <2>1. send' \in [Sends -> SendType]
    BY SelectedCalls DEF AdapterIInv
  <2> QED
    BY <2>1 DEF AdapterIInv, AdapterTypeOK
<1>2. ASSUME NEW c \in Sends
      PROVE  /\ send'[c].pc = send[c].pc /\ send'[c].a = send[c].a /\ send'[c].err = send[c].err
             /\ send'[c].chain = send[c].chain /\ send'[c].tx = send[c].tx
             /\ send'[c].nonce = send[c].nonce /\ send'[c].raced = send[c].raced
             /\ send[c].selected \subseteq send'[c].selected
             /\ send[c].a = a => send'[c].selected = send[c].selected \union {k}
             /\ send[c].a # a => send'[c].selected = send[c].selected
  BY SelectedCalls DEF AdapterIInv
<1>3. SelectedInv'
  <2>1. ASSUME NEW c \in Sends, send[c].pc # "idle"
        PROVE  /\ send'[c].a \in Adapters /\ IsFiniteSet(send'[c].selected)
               /\ send'[c].chain \in send'[c].selected
               /\ chainOf'[send'[c].a] \in send'[c].selected
               /\ send'[c].pc \in {"sign", "broadcast"} => send'[c].tx \in send'[c].selected
    <3>1. /\ send[c].a \in Adapters /\ IsFiniteSet(send[c].selected)
          /\ send[c].chain \in send[c].selected /\ chainOf[send[c].a] \in send[c].selected
          /\ send[c].pc \in {"sign", "broadcast"} => send[c].tx \in send[c].selected
      BY <2>1 DEF AdapterIInv, SelectedInv
    <3>2. IsFiniteSet(send'[c].selected)
      BY <1>2, <3>1, FS_AddElement
    <3> QED
      BY <1>1, <1>2, <3>1, <3>2
  <2>2. ASSUME NEW s \in sent, s.send # Null
        PROVE  send'[s.send].pc \in {"sent", "failed"} /\ s.chain \in send'[s.send].selected
    <3>1. s.send \in Sends
      BY <2>2 DEF AdapterIInv, AdapterTypeOK, Transactions
    <3> QED
      BY <1>2, <2>2, <3>1 DEF AdapterIInv, SelectedInv
  <2> QED
    BY <1>2, <2>1, <2>2 DEF SelectedInv
<1>4. SentInv'
  BY DEF AdapterIInv, SentInv, Others
<1>5. \A c \in Sends : Several(c) => Several(c)'
  BY <1>2 DEF Several
<1>6. \A j, n : TakenBelow(j, n) => TakenBelow(j, n)'
  BY DEF TakenBelow, Nonces
<1>7. \A j : Nonces(j)' = Nonces(j)
  BY DEF Nonces
<1>8. NonceInv'
  <2>1. ASSUME NEW c \in Sends
        PROVE  /\ send'[c].pc \in {"gas", "sign", "broadcast"} =>
                    /\ TakenBelow(send'[c].chain, send'[c].nonce)
                    /\ ~send'[c].raced => send'[c].nonce \notin Nonces(send'[c].chain)
               /\ send'[c].err = "nonce" => send'[c].pc = "failed" /\ (send'[c].raced \/ Several(c)')
    BY <1>2, <1>5 DEF AdapterIInv, NonceInv
  <2>2. ASSUME NEW s \in sent, s.send # Null
        PROVE  TakenBelow(s.chain, s.nonce) \/ Several(s.send)'
    BY <1>5, <2>2 DEF AdapterIInv, AdapterTypeOK, Transactions, NonceInv
  <2> QED
    BY <1>7, <2>1, <2>2 DEF NonceInv, TakenBelow
<1> QED
  BY <1>1, <1>2, <1>3, <1>4, <1>8

LEMMA ConnectStep ==
  ASSUME AdapterIInv, NEW u \in Users, ConnectAndPatchProvider(u)
  PROVE  AdapterIInv'
<1> USE DEF ConnectAndPatchProvider, adapters
<1>1. user[u].pc = "connect" /\ user[u].a \in Adapters /\ user[u] \in UserType
  BY DEF AdapterIInv, AdapterTypeOK
<1>2. PICK q \in UserType : /\ user' = [user EXCEPT ![u] = q] /\ q.pc \in {"init", "done"}
                            /\ q.pc = "init" => q.a \in Adapters /\ q.chain \in Networks
  <2>1. CASE user[u].a \in signer
    <3> DEFINE q == [user[u] EXCEPT !.pc = "init", !.chain = chainOf[user[u].a]]
    <3>1. chainOf[user[u].a] \in Networks
      BY <1>1 DEF AdapterIInv, AdapterTypeOK
    <3>2. q \in UserType /\ q.pc = "init" /\ q.a \in Adapters /\ q.chain \in Networks
      BY <1>1, <3>1 DEF UserType
    <3>3. user' = [user EXCEPT ![u] = q]
      BY <2>1 DEF AdapterIInv, AdapterTypeOK
    <3> QED
      BY <3>2, <3>3
  <2>2. CASE user[u].a \notin signer
    BY <2>2, EndsUser DEF Ends
  <2> QED
    BY <2>1, <2>2
<1>3. AdapterTypeOK'
  BY <1>2 DEF AdapterIInv, AdapterTypeOK
<1>4. InstallInv'
  BY <1>1, <1>2, UserMoves
<1>5. SelectedInv' /\ SentInv' /\ NonceInv'
  BY DEF AdapterIInv, SelectedInv, SentInv, Others, NonceInv, Several, TakenBelow, Nonces
<1> QED
  BY <1>3, <1>4, <1>5 DEF AdapterIInv

LEMMA InitAdapterStep ==
  ASSUME AdapterIInv, NEW u \in Users, InitAdapter(u)
  PROVE  AdapterIInv'
<1> USE DEF InitAdapter, Ends
<1>1. user[u].pc = "init" /\ user[u].a \in Adapters /\ user[u].chain \in Networks
  BY DEF AdapterIInv, AdapterTypeOK
<1>2. /\ send' \in [Sends -> SendType] /\ chainOf' \in [Adapters -> Networks]
      /\ \A c \in Sends : send'[c].a = send[c].a /\ send'[c].err = send[c].err
      /\ SelectedInv' /\ SentInv' /\ NonceInv'
  BY <1>1, ChainSwitched
<1>3. AdapterTypeOK'
  BY <1>2, EndsUser DEF AdapterIInv, AdapterTypeOK
<1>4. InstallInv'
  BY <1>1, <1>2, EndsUser, UserMoves
<1> QED
  BY <1>2, <1>3, <1>4 DEF AdapterIInv

LEMMA SwitchStep ==
  ASSUME AdapterIInv, NEW u \in Users, NEW k \in Networks, SwitchNetwork(u, k)
  PROVE  AdapterIInv'
<1> USE DEF SwitchNetwork, Ends
<1>1. user[u].pc = "idle" /\ slot \in Adapters
  BY DEF AdapterIInv, AdapterTypeOK, HasAdapter
<1>2. /\ send' \in [Sends -> SendType] /\ chainOf' \in [Adapters -> Networks]
      /\ \A c \in Sends : send'[c].a = send[c].a /\ send'[c].err = send[c].err
      /\ SelectedInv' /\ SentInv' /\ NonceInv'
  BY <1>1, ChainSwitched
<1>3. AdapterTypeOK'
  BY <1>2, EndsUser DEF AdapterIInv, AdapterTypeOK
<1>4. InstallInv'
  BY <1>1, <1>2, EndsUser, UserMoves
<1> QED
  BY <1>2, <1>3, <1>4 DEF AdapterIInv

\* ResetProviderAdapters empties the slot; its adapter waits for the release.
LEMMA ResetStep ==
  ASSUME AdapterIInv, NEW u \in Users, ResetProviderAdapters(u)
  PROVE  AdapterIInv'
<1> USE DEF ResetProviderAdapters
<1> DEFINE q == [pc |-> "release", a |-> slot, chain |-> Null]
<1>1. q \in UserType /\ q.pc = "release" /\ q.a = slot
  BY DEF UserType, AdapterIInv, AdapterTypeOK
<1>2. user' = [user EXCEPT ![u] = q]
  OBVIOUS
<1> HIDE DEF q
<1>3. user'[u] = q /\ \A v \in Users \ {u} : user'[v] = user[v]
  BY <1>2 DEF AdapterIInv, AdapterTypeOK
<1>4. AdapterTypeOK'
  BY <1>1, <1>2 DEF AdapterIInv, AdapterTypeOK
<1>5. \A a \in Adapters : installs[a] # {} => Reinstalled(a)'
  BY DEF Reinstalled
<1>6. InstallInv'
  <2>1. \A a \in Adapters : a \notin signer => Reinstalled(a)'
    BY <1>5 DEF AdapterIInv, InstallInv, Reinstalled
  <2>2. ASSUME NEW v \in Users
        PROVE  /\ user'[v].pc = "idle" => \A a \in Adapters : v \notin installs[a]
               /\ user'[v].pc = "release" /\ user'[v].a # Null =>
                    user'[v].a \in Adapters /\ installs[user'[v].a] # {}
    BY <1>1, <1>3 DEF AdapterIInv, AdapterTypeOK, UserType, InstallInv, Reinstalled
  <2>3. ASSUME NEW c \in Sends
        PROVE  /\ send[c].a # Null => send[c].a \in Adapters /\ installs[send[c].a] # {}
               /\ send[c].err = "panic" => send[c].a # Null
    BY DEF AdapterIInv, AdapterTypeOK, SendType, InstallInv
  <2>4. ASSUME NEW a \in signer, installs[a] # {}
        PROVE  \E v \in Users : user'[v].pc = "release" /\ user'[v].a = a
    <3>1. CASE a = slot
      BY <1>1, <1>3, <3>1
    <3>2. CASE a # slot
      <4>1. PICK v \in Users : user[v].pc = "release" /\ user[v].a = a
        BY <2>4, <3>2 DEF AdapterIInv, InstallInv
      <4> QED
        BY <1>3, <4>1
    <3> QED
      BY <3>1, <3>2
  <2>5. \A a \in Adapters : IsFiniteSet(installs[a])
    BY DEF AdapterIInv, InstallInv
  <2> QED
    BY <2>1, <2>2, <2>3, <2>4, <2>5 DEF InstallInv, Reinstalled
<1>7. SelectedInv' /\ SentInv' /\ NonceInv'
  BY DEF AdapterIInv, SelectedInv, SentInv, Others, NonceInv, Several, TakenBelow, Nonces
<1> QED
  BY <1>4, <1>6, <1>7 DEF AdapterIInv

\* The adapter is released, perhaps after it was installed again.
LEMMA ReleaseStep ==
  ASSUME AdapterIInv, NEW u \in Users, ReleaseAdapters(u)
  PROVE  AdapterIInv'
<1> USE DEF ReleaseAdapters, Ends
<1>1. user[u].pc = "release" /\ user[u].a \in Adapters \union {Null}
  BY DEF AdapterIInv, AdapterTypeOK, UserType
<1>2. user'[u].pc = "done" /\ \A v \in Users \ {u} : user'[v] = user[v]
  BY EndsUser DEF AdapterIInv, AdapterTypeOK
<1>3. AdapterTypeOK'
  BY EndsUser DEF AdapterIInv, AdapterTypeOK
<1>4. \A a : Reinstalled(a)' <=> Reinstalled(a)
  BY DEF Reinstalled, Twice
<1>5. InstallInv'
  <2>1. \A a \in Adapters : a \notin signer' => Reinstalled(a)
    BY <1>1 DEF AdapterIInv, InstallInv
  <2>2. ASSUME NEW v \in Users
        PROVE  /\ user'[v].pc = "idle" => \A a \in Adapters : v \notin installs[a]
               /\ user'[v].pc = "release" /\ user'[v].a # Null => Reinstalled(user'[v].a)
    BY <1>2 DEF AdapterIInv, InstallInv
  <2>3. ASSUME NEW a \in signer', installs[a] # {}
        PROVE  a = slot \/ \E v \in Users : user'[v].pc = "release" /\ user'[v].a = a
    <3>1. CASE a # slot
      <4>1. PICK v \in Users : user[v].pc = "release" /\ user[v].a = a
        BY <2>3, <3>1 DEF AdapterIInv, InstallInv
      <4> QED
        BY <1>2, <2>3, <4>1
    <3> QED
      BY <3>1
  <2> QED
    BY <2>1, <2>2, <2>3 DEF AdapterIInv, InstallInv, Reinstalled, Twice
<1>6. SelectedInv' /\ SentInv' /\ NonceInv'
  BY DEF AdapterIInv, SelectedInv, SentInv, Others, NonceInv, Several, TakenBelow, Nonces
<1> QED
  BY <1>3, <1>5, <1>6 DEF AdapterIInv

-----------------------------------------------------------------------------
\* What the invariant asks of one call p.
CallOK(p) ==
  /\ p \in SendType /\ p.a \in Adapters /\ installs[p.a] # {}
  /\ p.err = "panic" => Reinstalled(p.a)
  /\ IsFiniteSet(p.selected) /\ p.chain \in p.selected /\ chainOf[p.a] \in p.selected
  /\ p.pc # "idle"
  /\ p.pc \in {"sign", "broadcast"} => p.tx \in p.selected
  /\ p.pc \in {"gas", "sign", "broadcast"} =>
       TakenBelow(p.chain, p.nonce) /\ (~p.raced => p.nonce \notin Nonces(p.chain))
  /\ p.err = "nonce" => p.pc = "failed" /\ (p.raced \/ \E j, k \in p.selected : j # k)

LEMMA CallIsOK ==
  ASSUME AdapterIInv, NEW c \in Sends, send[c].pc # "idle"
  PROVE  CallOK(send[c])
<1>1. send[c] \in SendType /\ send[c].a \in Adapters
  BY DEF AdapterIInv, AdapterTypeOK, SelectedInv
<1>2. installs[send[c].a] # {} /\ (send[c].err = "panic" => Reinstalled(send[c].a))
  BY <1>1 DEF AdapterIInv, InstallInv
<1> QED
  BY <1>1, <1>2 DEF AdapterIInv, SelectedInv, NonceInv, Several, CallOK

\* A step of call c that sends nothing.
LEMMA StepKeeps ==
  ASSUME AdapterIInv, NEW c \in Sends, NEW p, CallOK(p), Step(c, p),
         send[c].pc \notin {"sent", "failed"}
  PROVE  AdapterIInv'
<1>1. /\ send'[c] = p /\ p \in SendType /\ \A d \in Sends \ {c} : send'[d] = send[d]
      /\ UNCHANGED <<slot, chainOf, signer, installs, user, sent>>
  BY DEF AdapterIInv, AdapterTypeOK, Step, CallOK, adapters
<1>2. AdapterTypeOK'
  BY <1>1 DEF AdapterIInv, AdapterTypeOK, Step
<1>3. InstallInv'
  <2>1. \A d \in Sends : /\ send'[d].a # Null => installs[send'[d].a] # {}
                         /\ send'[d].err = "panic" => send'[d].a # Null /\ Reinstalled(send'[d].a)
    BY <1>1 DEF AdapterIInv, InstallInv, CallOK
  <2> QED
    BY <1>1, <2>1 DEF AdapterIInv, InstallInv, Reinstalled, Twice
<1>4. \A s \in sent : s.send # Null => s.send \in Sends \ {c}
  BY DEF AdapterIInv, AdapterTypeOK, Transactions, SelectedInv
<1>5. SelectedInv'
  <2>1. ASSUME NEW d \in Sends, send'[d].pc # "idle"
        PROVE  /\ send'[d].a \in Adapters /\ IsFiniteSet(send'[d].selected)
               /\ send'[d].chain \in send'[d].selected
               /\ chainOf[send'[d].a] \in send'[d].selected
               /\ send'[d].pc \in {"sign", "broadcast"} => send'[d].tx \in send'[d].selected
    BY <1>1, <2>1 DEF AdapterIInv, SelectedInv, CallOK
  <2> QED
    BY <1>1, <1>4, <2>1 DEF AdapterIInv, SelectedInv
<1>6. SentInv'
  BY <1>1 DEF AdapterIInv, SentInv, Others
<1>7. NonceInv'
  <2>1. \A k : Nonces(k)' = Nonces(k)
    BY <1>1 DEF Nonces
  <2>2. ASSUME NEW d \in Sends
        PROVE  /\ send'[d].pc \in {"gas", "sign", "broadcast"} =>
                    /\ TakenBelow(send'[d].chain, send'[d].nonce)
                    /\ ~send'[d].raced => send'[d].nonce \notin Nonces(send'[d].chain)
               /\ send'[d].err = "nonce" =>
                    send'[d].pc = "failed" /\ (send'[d].raced \/ \E j, k \in send'[d].selected : j # k)
    BY <1>1 DEF AdapterIInv, NonceInv, Several, CallOK
  <2>3. \A s \in sent : s.send # Null =>
          TakenBelow(s.chain, s.nonce) \/ \E j, k \in send'[s.send].selected : j # k
    BY <1>1, <1>4 DEF AdapterIInv, NonceInv, Several
  <2> QED
    BY <1>1, <2>1, <2>2, <2>3 DEF NonceInv, Several, TakenBelow
<1> QED
  BY <1>2, <1>3, <1>5, <1>6, <1>7 DEF AdapterIInv

LEMMA SendTransactionStep ==
  ASSUME AdapterIInv, NEW c \in Sends, NEW k \in Networks, SendTransaction(c, k)
  PROVE  AdapterIInv'
<1> DEFINE p == [NoSend EXCEPT !.pc = "nonce", !.want = k, !.a = slot, !.chain = chainOf[slot],
                               !.selected = {chainOf[slot]}]
           q == IF slot \in signer THEN p ELSE [p EXCEPT !.pc = "failed", !.err = "signer"]
<1>1. slot \in Adapters /\ chainOf[slot] \in Networks /\ installs[slot] # {}
  BY DEF SendTransaction, HasAdapter, AdapterIInv, AdapterTypeOK, InstallInv
<1>2. /\ q \in SendType /\ q.a = slot /\ q.chain = chainOf[slot] /\ q.selected = {chainOf[slot]}
      /\ q.pc \in {"nonce", "failed"} /\ q.err \in {"none", "signer"}
  <2>1. /\ p \in SendType /\ p.a = slot /\ p.chain = chainOf[slot] /\ p.selected = {chainOf[slot]}
        /\ p.pc = "nonce" /\ p.err = "none"
    BY <1>1 DEF NoSend, SendType
  <2> HIDE DEF p
  <2> QED
    BY <2>1 DEF SendType
<1>3. Step(c, q) /\ send[c].pc = "idle"
  BY DEF SendTransaction
<1> HIDE DEF q
<1>4. IsFiniteSet(q.selected) /\ q.chain \in q.selected
  <2>1. IsFiniteSet({chainOf[slot]})
    BY FS_Singleton
  <2> QED
    BY <1>2, <2>1
<1>5. CallOK(q)
  BY <1>1, <1>2, <1>4 DEF CallOK
<1> QED
  BY <1>3, <1>5, StepKeeps

LEMMA PanicsStep ==
  ASSUME AdapterIInv, NEW c \in Sends, Panics(c)
  PROVE  AdapterIInv'
<1> DEFINE q == [send[c] EXCEPT !.pc = "failed", !.err = "panic"]
<1>1. CallOK(send[c]) /\ send[c].a \notin signer
  BY CallIsOK DEF Panics
<1>2. /\ q \in SendType /\ q.a = send[c].a /\ q.chain = send[c].chain
      /\ q.selected = send[c].selected /\ q.pc = "failed" /\ q.err = "panic"
  BY <1>1 DEF CallOK, SendType
<1>3. Step(c, q) /\ send[c].pc \notin {"sent", "failed"}
  BY DEF Panics, Fails
<1> HIDE DEF q
<1>4. Reinstalled(q.a)
  BY <1>1, <1>2 DEF AdapterIInv, InstallInv, CallOK
<1>5. CallOK(q)
  BY <1>1, <1>2, <1>4 DEF CallOK
<1> QED
  BY <1>3, <1>5, StepKeeps

LEMMA PendingNonceStep ==
  ASSUME AdapterIInv, NEW c \in Sends, PendingNonceAt(c)
  PROVE  AdapterIInv'
<1> DEFINE n == NextNonce(send[c].chain)
           q == [send[c] EXCEPT !.pc = "gas", !.nonce = n]
<1>1. CallOK(send[c]) /\ send[c].pc = "nonce"
  BY CallIsOK DEF PendingNonceAt
<1>2. n \in Nat /\ n \notin Nonces(send[c].chain) /\ TakenBelow(send[c].chain, n)
  <2>1. send[c].chain \in Networks
    BY <1>1 DEF CallOK, SendType
  <2> QED
    BY <2>1, NextNonceFree DEF AdapterIInv
<1>3. Step(c, q)
  BY DEF PendingNonceAt, Nonce
<1> HIDE DEF n
<1>4. /\ q \in SendType /\ q.a = send[c].a /\ q.chain = send[c].chain /\ q.nonce = n
      /\ q.selected = send[c].selected /\ q.pc = "gas" /\ q.err = send[c].err
  BY <1>1, <1>2 DEF CallOK, SendType
<1> HIDE DEF q
<1>5. send[c].err # "nonce"
  BY <1>1 DEF CallOK
<1>6. CallOK(q)
  BY <1>1, <1>2, <1>4, <1>5 DEF CallOK
<1> QED
  BY <1>1, <1>3, <1>6, StepKeeps

LEMMA EstimateGasStep ==
  ASSUME AdapterIInv, NEW c \in Sends, EstimateGas(c)
  PROVE  AdapterIInv'
<1> DEFINE q == [send[c] EXCEPT !.pc = "sign", !.tx = chainOf[send[c].a]]
<1>1. CallOK(send[c]) /\ send[c].pc = "gas"
  BY CallIsOK DEF EstimateGas
<1>2. chainOf[send[c].a] \in Networks
  BY <1>1 DEF CallOK, AdapterIInv, AdapterTypeOK
<1>3. /\ q \in SendType /\ q.a = send[c].a /\ q.chain = send[c].chain /\ q.nonce = send[c].nonce
      /\ q.selected = send[c].selected /\ q.pc = "sign" /\ q.err = send[c].err
      /\ q.raced = send[c].raced /\ q.tx = chainOf[send[c].a]
  BY <1>1, <1>2 DEF CallOK, SendType
<1>4. Step(c, q)
  BY DEF EstimateGas, TxChain
<1> HIDE DEF q
<1>5. CallOK(q)
  BY <1>1, <1>3 DEF CallOK
<1> QED
  BY <1>1, <1>4, <1>5, StepKeeps

LEMMA SignStep ==
  ASSUME AdapterIInv, NEW c \in Sends, SignTransaction(c)
  PROVE  AdapterIInv'
<1> DEFINE q == [send[c] EXCEPT !.pc = "broadcast"]
<1>1. CallOK(send[c]) /\ send[c].pc = "sign"
  BY CallIsOK DEF SignTransaction
<1>2. /\ q \in SendType /\ q.a = send[c].a /\ q.chain = send[c].chain /\ q.nonce = send[c].nonce
      /\ q.selected = send[c].selected /\ q.pc = "broadcast" /\ q.err = send[c].err
      /\ q.raced = send[c].raced /\ q.tx = send[c].tx
  BY <1>1 DEF CallOK, SendType
<1>3. Step(c, q)
  BY DEF SignTransaction
<1> HIDE DEF q
<1>4. CallOK(q)
  BY <1>1, <1>2 DEF CallOK
<1> QED
  BY <1>1, <1>3, <1>4, StepKeeps

LEMMA RequestFailsStep ==
  ASSUME AdapterIInv, NEW c \in Sends, RequestFails(c)
  PROVE  AdapterIInv'
<1> DEFINE q == [send[c] EXCEPT !.pc = "failed", !.err = "request"]
<1>1. CallOK(send[c]) /\ send[c].pc \notin {"sent", "failed"}
  BY CallIsOK DEF RequestFails
<1>2. /\ q \in SendType /\ q.a = send[c].a /\ q.chain = send[c].chain
      /\ q.selected = send[c].selected /\ q.pc = "failed" /\ q.err = "request"
  BY <1>1 DEF CallOK, SendType
<1>3. Step(c, q)
  BY DEF RequestFails, Fails
<1> HIDE DEF q
<1>4. CallOK(q)
  BY <1>1, <1>2 DEF CallOK
<1> QED
  BY <1>1, <1>3, <1>4, StepKeeps

\* A node turns the nonce down: somebody else has used it, or the transaction
\* names another chain than the one the nonce was read on.
LEMMA NonceRefusedStep ==
  ASSUME AdapterIInv, NEW c \in Sends, send[c].pc = "broadcast",
         send[c].nonce \in Nonces(send[c].tx), Fails(c, "nonce")
  PROVE  AdapterIInv'
<1> DEFINE q == [send[c] EXCEPT !.pc = "failed", !.err = "nonce"]
<1>1. CallOK(send[c])
  BY CallIsOK
<1>2. /\ q \in SendType /\ q.a = send[c].a /\ q.chain = send[c].chain
      /\ q.selected = send[c].selected /\ q.pc = "failed" /\ q.err = "nonce"
      /\ q.raced = send[c].raced
  BY <1>1 DEF CallOK, SendType
<1>3. Step(c, q)
  BY DEF Fails
<1> HIDE DEF q
<1>4. send[c].raced \/ send[c].tx # send[c].chain
  BY <1>1 DEF CallOK
<1>5. send[c].raced \/ \E j, k \in send[c].selected : j # k
  BY <1>1, <1>4 DEF CallOK
<1>6. CallOK(q)
  BY <1>1, <1>2, <1>5 DEF CallOK
<1> QED
  BY <1>3, <1>6, StepKeeps

-----------------------------------------------------------------------------
\* The calls that another transaction overtakes learn nothing but that.
LEMMA OvertakenCalls ==
  ASSUME AdapterTypeOK, NEW c, NEW k
  PROVE  /\ Overtaken(c, k) \in [Sends -> SendType]
         /\ \A d \in Sends :
              LET p == send[d]
                  q == Overtaken(c, k)[d]
              IN  /\ q.pc = p.pc /\ q.a = p.a /\ q.chain = p.chain /\ q.nonce = p.nonce
                  /\ q.tx = p.tx /\ q.err = p.err /\ q.selected = p.selected
                  /\ p.raced => q.raced
                  /\ d # c /\ p.pc \in {"gas", "sign", "broadcast"} /\ p.chain = k => q.raced
<1> DEFINE r(d) == send[d].raced \/ /\ d # c /\ send[d].pc \in {"gas", "sign", "broadcast"}
                                    /\ send[d].chain = k
<1>1. \A d \in Sends : send[d] \in SendType /\ [send[d] EXCEPT !.raced = r(d)] \in SendType
  <2>1. \A d \in Sends, b \in BOOLEAN : send[d] \in SendType /\ [send[d] EXCEPT !.raced = b] \in SendType
    BY DEF AdapterTypeOK, SendType
  <2>2. \A d \in Sends : r(d) \in BOOLEAN
    BY DEF AdapterTypeOK, SendType
  <2> HIDE DEF r
  <2> QED
    BY <2>1, <2>2
<1>2. Overtaken(c, k) = [d \in Sends |-> [send[d] EXCEPT !.raced = r(d)]]
  BY Zenon DEF Overtaken
<1>3. ASSUME NEW d \in Sends
      PROVE  LET q == Overtaken(c, k)[d]
             IN  /\ q.pc = send[d].pc /\ q.a = send[d].a /\ q.chain = send[d].chain
                 /\ q.nonce = send[d].nonce /\ q.tx = send[d].tx /\ q.err = send[d].err
                 /\ q.selected = send[d].selected /\ q.raced = r(d)
  BY <1>1, <1>2 DEF SendType
<1> QED
  BY <1>1, <1>2, <1>3

\* A node has taken a transaction t of the account.
LEMMA SentMore ==
  ASSUME AdapterIInv, NEW t \in Transactions, sent' = sent \union {t},
         UNCHANGED <<slot, chainOf, signer, installs, user>>,
         send' \in [Sends -> SendType],
         \A d \in Sends :
           /\ send'[d].a = send[d].a /\ send'[d].chain = send[d].chain
           /\ send'[d].nonce = send[d].nonce /\ send'[d].tx = send[d].tx
           /\ send'[d].selected = send[d].selected
           /\ send[d].raced => send'[d].raced
           /\ d # t.send => /\ send'[d].pc = send[d].pc /\ send'[d].err = send[d].err
                            /\ send[d].pc \in {"gas", "sign", "broadcast"} /\ send[d].chain = t.chain =>
                                 send'[d].raced,
         t.send # Null =>
           /\ send[t.send].pc = "broadcast" /\ send'[t.send].pc \in {"sent", "failed"}
           /\ send'[t.send].err \in {"none", "answer"}
           /\ t.chain = send[t.send].tx /\ t.nonce = send[t.send].nonce,
         IsFiniteSet(Others') /\ Cardinality(Others') <= MaxOthers
  PROVE  AdapterIInv'
<1>1. AdapterTypeOK'
  BY DEF AdapterIInv, AdapterTypeOK
<1>2. InstallInv'
  <2>1. \A d \in Sends : send'[d].err = "panic" => send[d].err = "panic"
    BY DEF Transactions
  <2>2. \A d \in Sends : /\ send'[d].a # Null => installs[send'[d].a] # {}
                         /\ send'[d].err = "panic" => send'[d].a # Null /\ Reinstalled(send'[d].a)
    BY <2>1 DEF AdapterIInv, InstallInv
  <2> QED
    BY <2>2 DEF AdapterIInv, InstallInv, Reinstalled, Twice
<1>3. t.send # Null => t.send \in Sends /\ CallOK(send[t.send])
  BY CallIsOK DEF Transactions
<1>4. \A s \in sent : s.send # Null => s.send # t.send /\ s.send \in Sends
  BY DEF AdapterIInv, SelectedInv, AdapterTypeOK, Transactions
<1>5. SelectedInv'
  <2>1. ASSUME NEW d \in Sends, send'[d].pc # "idle"
        PROVE  /\ send'[d].a \in Adapters /\ IsFiniteSet(send'[d].selected)
               /\ send'[d].chain \in send'[d].selected
               /\ chainOf[send'[d].a] \in send'[d].selected
               /\ send'[d].pc \in {"sign", "broadcast"} => send'[d].tx \in send'[d].selected
    <3>1. send[d].pc # "idle" /\ (send'[d].pc \in {"sign", "broadcast"} => send'[d].pc = send[d].pc)
      BY <2>1
    <3> QED
      BY <3>1 DEF AdapterIInv, SelectedInv
  <2>2. ASSUME NEW s \in sent', s.send # Null
        PROVE  send'[s.send].pc \in {"sent", "failed"} /\ s.chain \in send'[s.send].selected
    <3>1. CASE s = t
      BY <1>3, <2>2, <3>1 DEF CallOK
    <3>2. CASE s \in sent
      BY <1>4, <2>2, <3>2 DEF AdapterIInv, SelectedInv
    <3> QED
      BY <3>1, <3>2
  <2> QED
    BY <2>1, <2>2 DEF SelectedInv
<1>6. SentInv'
  BY <1>4 DEF AdapterIInv, SentInv
<1>7. NonceInv'
  <2>1. \A k : /\ Nonces(k) \subseteq Nonces(k)'
               /\ k # t.chain => Nonces(k)' = Nonces(k)
    BY DEF Nonces
  <2>2. \A k, n : TakenBelow(k, n) => TakenBelow(k, n)'
    BY <2>1 DEF TakenBelow
  <2>3. ASSUME NEW d \in Sends, send'[d].pc \in {"gas", "sign", "broadcast"}
        PROVE  /\ TakenBelow(send[d].chain, send[d].nonce)'
               /\ ~send'[d].raced => send'[d].nonce \notin Nonces(send[d].chain)'
    <3>1. d # t.send /\ send[d].pc \in {"gas", "sign", "broadcast"}
      BY <1>3, <2>3
    <3>2. /\ TakenBelow(send[d].chain, send[d].nonce)
          /\ ~send[d].raced => send[d].nonce \notin Nonces(send[d].chain)
      BY <3>1 DEF AdapterIInv, NonceInv
    <3>3. TakenBelow(send[d].chain, send[d].nonce)'
      BY <2>2, <3>2
    <3>4. ~send'[d].raced => Nonces(send[d].chain)' = Nonces(send[d].chain) /\ ~send[d].raced
      BY <2>1, <3>1
    <3> QED
      BY <3>2, <3>3, <3>4
  <2>4. ASSUME NEW d \in Sends, send'[d].err = "nonce"
        PROVE  send'[d].pc = "failed" /\ (send'[d].raced \/ Several(d)')
    <3>1. d # t.send /\ send[d].err = "nonce"
      BY <1>3, <2>4
    <3> QED
      BY <3>1 DEF AdapterIInv, NonceInv, Several
  <2>5. ASSUME NEW s \in sent', s.send # Null
        PROVE  TakenBelow(s.chain, s.nonce)' \/ Several(s.send)'
    <3>1. CASE s \in sent
      BY <1>4, <2>2, <2>5, <3>1 DEF AdapterIInv, NonceInv, Several
    <3>2. CASE s = t /\ send[t.send].tx = send[t.send].chain
      <4>1. TakenBelow(s.chain, s.nonce)
        BY <1>3, <2>5, <3>2 DEF CallOK
      <4> QED
        BY <2>2, <4>1
    <3>3. CASE s = t /\ send[t.send].tx # send[t.send].chain
      BY <1>3, <2>5, <3>3 DEF CallOK, Several
    <3> QED
      BY <3>1, <3>2, <3>3
  <2> QED
    BY <2>3, <2>4, <2>5 DEF NonceInv
<1> QED
  BY <1>1, <1>2, <1>5, <1>6, <1>7 DEF AdapterIInv

LEMMA OtherProgramStep ==
  ASSUME AdapterIInv, NEW k \in Networks, OtherProgramSends(k)
  PROVE  AdapterIInv'
<1> DEFINE t == [send |-> Null, chain |-> k, nonce |-> NextNonce(k)]
<1>1. NextNonce(k) \in Nat
  BY NextNonceFree DEF AdapterIInv
<1>2. t \in Transactions /\ t.send = Null /\ t.chain = k
  BY <1>1 DEF Transactions
<1>3. /\ sent' = sent \union {t} /\ send' = Overtaken(Null, k)
      /\ UNCHANGED <<slot, chainOf, signer, installs, user>>
      /\ Cardinality(Others) < MaxOthers
  BY DEF OtherProgramSends, adapters, Others
<1> HIDE DEF t
<1>4. /\ send' \in [Sends -> SendType]
      /\ \A d \in Sends :
           /\ send'[d].pc = send[d].pc /\ send'[d].a = send[d].a /\ send'[d].chain = send[d].chain
           /\ send'[d].nonce = send[d].nonce /\ send'[d].tx = send[d].tx
           /\ send'[d].err = send[d].err /\ send'[d].selected = send[d].selected
           /\ send[d].raced => send'[d].raced
           /\ send[d].pc \in {"gas", "sign", "broadcast"} /\ send[d].chain = k => send'[d].raced
  BY <1>3, OvertakenCalls DEF AdapterIInv
<1>5. IsFiniteSet(Others') /\ Cardinality(Others') <= MaxOthers
  <2>1. Others' = Others \union {t}
    BY <1>2, <1>3 DEF Others
  <2>2. IsFiniteSet(Others) /\ Cardinality(Others) \in Nat
    BY FS_CardinalityType DEF AdapterIInv, SentInv
  <2>3. /\ IsFiniteSet(Others \union {t})
        /\ \/ Cardinality(Others \union {t}) = Cardinality(Others)
           \/ Cardinality(Others \union {t}) = Cardinality(Others) + 1
    BY <2>2, FS_AddElement
  <2> QED
    BY <1>3, <2>1, <2>2, <2>3
<1> QED
  BY <1>2, <1>3, <1>4, <1>5, SentMore

LEMMA BroadcastStep ==
  ASSUME AdapterIInv, NEW c \in Sends, BroadcastTransaction(c)
  PROVE  AdapterIInv'
<1> DEFINE p == send[c]
           t == [send |-> c, chain |-> p.tx, nonce |-> p.nonce]
           o == Overtaken(c, p.tx)
<1>1. p.pc = "broadcast" /\ CallOK(p)
  BY CallIsOK DEF BroadcastTransaction
<1>2. CASE p.nonce \in Nonces(p.tx)
  BY <1>1, <1>2, NonceRefusedStep DEF BroadcastTransaction
<1>3. CASE p.nonce \notin Nonces(p.tx)
  <2>1. /\ sent' = sent \union {t}
        /\ UNCHANGED <<slot, chainOf, signer, installs, user>>
        /\ \/ send' = [o EXCEPT ![c].pc = "sent", ![c].err = "none"]
           \/ send' = [o EXCEPT ![c].pc = "failed", ![c].err = "answer"]
    BY <1>3 DEF BroadcastTransaction, adapters
  <2>2. /\ t \in Transactions /\ t.send = c /\ t.chain = p.tx /\ t.nonce = p.nonce
        /\ c # Null
    BY <1>1 DEF CallOK, SendType, Transactions
  <2>3. /\ o \in [Sends -> SendType]
        /\ \A d \in Sends :
             /\ o[d].pc = send[d].pc /\ o[d].a = send[d].a /\ o[d].chain = send[d].chain
             /\ o[d].nonce = send[d].nonce /\ o[d].tx = send[d].tx
             /\ o[d].err = send[d].err /\ o[d].selected = send[d].selected
             /\ send[d].raced => o[d].raced
             /\ d # c /\ send[d].pc \in {"gas", "sign", "broadcast"} /\ send[d].chain = p.tx => o[d].raced
    BY OvertakenCalls DEF AdapterIInv
  <2> HIDE DEF t, o
  <2>4. PICK q : /\ send' = [o EXCEPT ![c] = q]
                 /\ \/ q = [o[c] EXCEPT !.pc = "sent", !.err = "none"]
                    \/ q = [o[c] EXCEPT !.pc = "failed", !.err = "answer"]
    <3>1. CASE send' = [o EXCEPT ![c].pc = "sent", ![c].err = "none"]
      <4>1. send' = [o EXCEPT ![c] = [o[c] EXCEPT !.pc = "sent", !.err = "none"]]
        BY <2>3, <3>1
      <4> QED
        BY <4>1
    <3>2. CASE send' = [o EXCEPT ![c].pc = "failed", ![c].err = "answer"]
      <4>1. send' = [o EXCEPT ![c] = [o[c] EXCEPT !.pc = "failed", !.err = "answer"]]
        BY <2>3, <3>2
      <4> QED
        BY <4>1
    <3> QED
      BY <2>1, <3>1, <3>2
  <2>5. /\ q \in SendType /\ q.pc \in {"sent", "failed"} /\ q.err \in {"none", "answer"}
        /\ q.a = o[c].a /\ q.chain = o[c].chain /\ q.nonce = o[c].nonce /\ q.tx = o[c].tx
        /\ q.selected = o[c].selected /\ q.raced = o[c].raced
    <3>1. o[c] \in SendType
      BY <2>3
    <3>2. CASE q = [o[c] EXCEPT !.pc = "sent", !.err = "none"]
      BY <3>1, <3>2 DEF SendType
    <3>3. CASE q = [o[c] EXCEPT !.pc = "failed", !.err = "answer"]
      BY <3>1, <3>3 DEF SendType
    <3> QED
      BY <2>4, <3>2, <3>3
  <2>6. /\ send' \in [Sends -> SendType] /\ send'[c] = q
        /\ \A d \in Sends \ {c} : send'[d] = o[d]
    BY <2>3, <2>4, <2>5
  <2>7. IsFiniteSet(Others') /\ Cardinality(Others') <= MaxOthers
    <3>1. Others' = Others
      BY <2>1, <2>2 DEF Others
    <3> QED
      BY <3>1 DEF AdapterIInv, SentInv
  <2>8. \A d \in Sends :
          /\ send'[d].a = send[d].a /\ send'[d].chain = send[d].chain
          /\ send'[d].nonce = send[d].nonce /\ send'[d].tx = send[d].tx
          /\ send'[d].selected = send[d].selected
          /\ send[d].raced => send'[d].raced
          /\ d # t.send => /\ send'[d].pc = send[d].pc /\ send'[d].err = send[d].err
                           /\ send[d].pc \in {"gas", "sign", "broadcast"} /\ send[d].chain = t.chain =>
                                send'[d].raced
    BY <2>2, <2>3, <2>5, <2>6
  <2>9. /\ send[t.send].pc = "broadcast" /\ send'[t.send].pc \in {"sent", "failed"}
        /\ send'[t.send].err \in {"none", "answer"}
        /\ t.chain = send[t.send].tx /\ t.nonce = send[t.send].nonce
    BY <1>1, <2>2, <2>5, <2>6
  <2> QED
    BY <2>1, <2>2, <2>6, <2>7, <2>8, <2>9, SentMore
<1> QED
  BY <1>2, <1>3

-----------------------------------------------------------------------------
LEMMA AdapterIInvNext == AdapterIInv /\ [AdapterNext]_adapterVars => AdapterIInv'
<1> SUFFICES ASSUME AdapterIInv, [AdapterNext]_adapterVars PROVE AdapterIInv'
  OBVIOUS
<1>1. CASE UNCHANGED adapterVars
  BY <1>1 DEF adapterVars, AdapterIInv, AdapterTypeOK, InstallInv, Reinstalled, Twice, SelectedInv, SentInv, Others,
              NonceInv, Several, TakenBelow, Nonces
<1>2. ASSUME NEW u \in Users, NEW a \in Adapters, UpdateProviderAdapter(u, a) PROVE AdapterIInv'
  BY <1>2, UpdateStep
<1>3. ASSUME NEW u \in Users, ConnectAndPatchProvider(u) PROVE AdapterIInv'
  BY <1>3, ConnectStep
<1>4. ASSUME NEW u \in Users, InitAdapter(u) PROVE AdapterIInv'
  BY <1>4, InitAdapterStep
<1>5. ASSUME NEW u \in Users, ResetProviderAdapters(u) PROVE AdapterIInv'
  BY <1>5, ResetStep
<1>6. ASSUME NEW u \in Users, ReleaseAdapters(u) PROVE AdapterIInv'
  BY <1>6, ReleaseStep
<1>7. ASSUME NEW u \in Users, NEW k \in Networks, SwitchNetwork(u, k) PROVE AdapterIInv'
  BY <1>7, SwitchStep
<1>8. ASSUME NEW c \in Sends, NEW k \in Networks, SendTransaction(c, k) PROVE AdapterIInv'
  BY <1>8, SendTransactionStep
<1>9. ASSUME NEW c \in Sends,
             \/ Panics(c) \/ PendingNonceAt(c) \/ EstimateGas(c) \/ RequestFails(c)
             \/ SignTransaction(c) \/ BroadcastTransaction(c)
      PROVE  AdapterIInv'
  BY <1>9, PanicsStep, PendingNonceStep, EstimateGasStep, RequestFailsStep, SignStep, BroadcastStep
<1>10. ASSUME NEW k \in Networks, OtherProgramSends(k) PROVE AdapterIInv'
  BY <1>10, OtherProgramStep
<1> QED
  BY <1>1, <1>2, <1>3, <1>4, <1>5, <1>6, <1>7, <1>8, <1>9, <1>10 DEF AdapterNext

\* Release follows the slot (UpdateProviderAdapter, ResetProviderAdapters): an
\* adapter loses its signer while it is in the slot, or under a call, only if
\* it was taken out or installed a second time.
THEOREM SignersFollowSlotAlways == AdapterSpec => []SignersFollowSlot
<1>1. ASSUME AdapterIInv PROVE SignersFollowSlot
  <2>1. ASSUME NEW a \in Adapters, Twice(a) PROVE Cardinality(installs[a]) > 1
    BY <1>1, <2>1, MoreThanOne DEF AdapterIInv, InstallInv, Twice
  <2>2. slot # Null /\ slot \notin signer => Cardinality(installs[slot]) > 1
    BY <1>1, <2>1 DEF AdapterIInv, AdapterTypeOK, InstallInv, Reinstalled
  <2>3. ASSUME NEW c \in Sends, send[c].err = "panic", slot = send[c].a
        PROVE  Cardinality(installs[slot]) > 1
    <3>1. send[c].a \in Adapters /\ Reinstalled(send[c].a)
      BY <1>1, <2>3 DEF AdapterIInv, AdapterTypeOK, SendType, InstallInv
    <3> QED
      BY <2>1, <2>3, <3>1 DEF Reinstalled
  <2> QED
    BY <1>1, <2>2, <2>3 DEF AdapterIInv, InstallInv, SignersFollowSlot
<1> QED
  BY <1>1, AdapterIInvInit, AdapterIInvNext, PTL DEF AdapterSpec

\* A nonce is turned down, or waits behind one that nobody has sent, only if
\* another transaction of the account overtook the call or its adapter changed
\* its chain between PendingNonceAt and the transaction.
THEOREM NonceTroubleOnlyByRaceAlways == AdapterSpec => []NonceTroubleOnlyByRace
<1>1. ASSUME AdapterIInv PROVE NonceTroubleOnlyByRace
  <2>1. ASSUME NEW c \in Sends, send[c].pc # "idle", Several(c)
        PROVE  Cardinality(send[c].selected) > 1
    BY <1>1, <2>1, MoreThanOne DEF AdapterIInv, SelectedInv, Several
  <2>2. ASSUME NEW c \in Sends, send[c].err = "nonce"
        PROVE  send[c].raced \/ Cardinality(send[c].selected) > 1
    BY <1>1, <2>1, <2>2 DEF AdapterIInv, NonceInv
  <2>3. ASSUME NEW s \in sent, s.send # Null, s.nonce > NextNonce(s.chain)
        PROVE  Cardinality(send[s.send].selected) > 1
    <3>1. s.send \in Sends /\ s.chain \in Networks /\ s.nonce \in Nat /\ send[s.send].pc # "idle"
      BY <1>1, <2>3 DEF AdapterIInv, AdapterTypeOK, Transactions, SelectedInv
    <3>2. NextNonce(s.chain) \in Nat /\ NextNonce(s.chain) \notin Nonces(s.chain)
      BY <1>1, <3>1, NextNonceFree DEF AdapterIInv
    <3>3. ~TakenBelow(s.chain, s.nonce)
      BY <2>3, <3>1, <3>2 DEF TakenBelow
    <3>4. Several(s.send)
      BY <1>1, <2>3, <3>3 DEF AdapterIInv, NonceInv
    <3> QED
      BY <2>1, <3>1, <3>4
  <2> QED
    BY <2>2, <2>3 DEF NonceTroubleOnlyByRace
<1> QED
  BY <1>1, AdapterIInvInit, AdapterIInvNext, PTL DEF AdapterSpec
=============================================================================
