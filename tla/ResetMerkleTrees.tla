-------------------------- MODULE ResetMerkleTrees --------------------------
(***************************************************************************)
(* How the Hinkal object replaces its copies of the chains                 *)
(* (data-structures/hinkal: ResetMerkle, ResetMerkleTreesIfNecessary,      *)
(* resetMerkleTrees).  A reset fetches every chain in a goroutine of its   *)
(* own, under a mutex per chain that all calls of the process share; the   *)
(* retrieval of events also takes the mutex under which balances are       *)
(* computed.  Tree, outputs and nullifiers of a chain are replaced         *)
(* together and stand here for the number of leaves they hold.             *)
(***************************************************************************)
EXTENDS FiniteSetsExt, Integers

CONSTANTS
  Chains,       \* the supported chains
  Foreign,      \* a chain that is not supported
  Connected,    \* GetSupportedChains: those of the adapters that are set
  Calls,        \* calls, each made once
  Lists,        \* the lists of chains they are made with
  None,         \* no holder of a mutex, no tree
  Lag,          \* how far a node may be behind the chain
  MaxHeight,    \* bound on the leaves of all chains
  Gaps          \* the chains of which a snapshot may lack a leaf

\* A copy of a chain: its leaves, and whether none is missing in between.
Copies == [n : Nat, whole : BOOLEAN]

ASSUME ResetAssumption ==
  /\ IsFiniteSet(Chains) /\ Connected \subseteq Chains /\ Foreign \notin Chains
  /\ None \notin Calls \union Copies /\ Lists \subseteq SUBSET (Chains \union {Foreign})
  /\ Lag \in Nat /\ MaxHeight \in Nat /\ Gaps \subseteq Chains

VARIABLES
  height,     \* height[k]: leaves of chain k
  tree,       \* MerkleTreeHinkalByChain, with outputs and nullifiers: [n, whole], or None
  disabled,   \* disableMerkleTreeUpdates
  resetLock,  \* resetMerkleTreesMutexByChain
  balLock,    \* GetChainBalanceFetchingMutex: TRUE while a balance is computed
  call,       \* call[c]: the call c
  job         \* job[c][k]: the goroutine of call c for chain k

vars == <<height, tree, disabled, resetLock, balLock, call, job>>

NoTree == None
NoJob == [pc |-> "none", got |-> None]

NoCall == [pc |-> "idle", chains |-> {}, left |-> {}, toReset |-> {},
           err |-> FALSE, skipped |-> FALSE, since |-> [k \in Chains |-> 0]]

Init ==
  /\ height = [k \in Chains |-> 0]
  /\ tree = [k \in Chains |-> NoTree]
  /\ disabled = FALSE
  /\ resetLock = [k \in Chains |-> None]
  /\ balLock = [k \in Chains |-> FALSE]
  /\ call = [c \in Calls |-> NoCall]
  /\ job = [c \in Calls |-> [k \in Chains |-> NoJob]]

-----------------------------------------------------------------------------
\* The chain and a node (external): a node may be behind.
NewLeaf(k) ==
  /\ MapThenSumSet(LAMBDA j : height[j], Chains) < MaxHeight
  /\ height' = [height EXCEPT ![k] = @ + 1]
  /\ UNCHANGED <<tree, disabled, resetLock, balLock, call, job>>

NodeMayShow(k, n) == n <= height[k] /\ height[k] - n <= Lag

\* GetShieldedBalance holds the mutex of its chain; it asks for no other one.
LockBalance(k) ==
  /\ ~balLock[k]
  /\ balLock' = [balLock EXCEPT ![k] = TRUE]
  /\ UNCHANGED <<height, tree, disabled, resetLock, call, job>>

UnlockBalance(k) ==
  /\ balLock[k]
  /\ balLock' = [balLock EXCEPT ![k] = FALSE]
  /\ UNCHANGED <<height, tree, disabled, resetLock, call, job>>

UpdateMerkleTreeUpdates(value) ==
  /\ disabled # value
  /\ disabled' = value
  /\ UNCHANGED <<height, tree, resetLock, balLock, call, job>>

-----------------------------------------------------------------------------
\* Nothing is done, and nil is returned, while updates are disabled or when
\* one chain of the list is not supported.
Skips(chains) == disabled \/ Foreign \in chains

Returned(p, err) == [p EXCEPT !.pc = "done", !.err = err]

\* Without a list, all chains that are connected.
Listed(chains) == IF chains = {} THEN Connected ELSE chains

\* resetMerkleTrees: a goroutine for every chain.
ResetTrees(c, p, chains) ==
  /\ call' = [call EXCEPT ![c] = [p EXCEPT !.pc = "resetting", !.toReset = Listed(chains)]]
  /\ job' = [job EXCEPT ![c] = [k \in Chains |->
               [NoJob EXCEPT !.pc = IF k \in Listed(chains) THEN "lock" ELSE "none"]]]

ResetMerkleBody(c, p, chains) ==
  IF Skips(chains)
  THEN /\ call' = [call EXCEPT ![c] = [Returned(p, FALSE) EXCEPT !.skipped = TRUE]]
       /\ UNCHANGED job
  ELSE ResetTrees(c, p, chains)

ResetMerkle(c, chains) ==
  /\ call[c].pc = "idle"
  /\ ResetMerkleBody(c, [NoCall EXCEPT !.chains = Listed(chains), !.since = height], chains)
  /\ UNCHANGED <<height, tree, disabled, resetLock, balLock>>

ResetMerkleTreesIfNecessary(c, chains) ==
  LET all == Listed(chains)
      p   == [NoCall EXCEPT !.chains = all, !.since = height]
  IN  /\ call[c].pc = "idle"
      /\ call' = [call EXCEPT ![c] =
           IF Skips(all) THEN [Returned(p, FALSE) EXCEPT !.skipped = TRUE]
           ELSE [p EXCEPT !.pc = "check", !.left = all]]
      /\ UNCHANGED <<height, tree, disabled, resetLock, balLock, job>>

\* The root of n leaves is not that of the tree.
Differs(k, n) == tree[k] = NoTree \/ tree[k].n # n

\* GetHinkalTreeRootHash, then GetRootHash of the tree, which fails if the
\* tree is incomplete: one chain after the other.
CompareRoots(c, k, n) ==
  LET p == call[c]
  IN  /\ p.pc = "check" /\ k \in p.left /\ NodeMayShow(k, n)
      /\ call' = [call EXCEPT ![c] =
           IF tree[k] # NoTree /\ ~tree[k].whole THEN Returned(p, TRUE)
           ELSE [p EXCEPT !.left = @ \ {k},
                          !.toReset = IF Differs(k, n) THEN @ \union {k} ELSE @]]
      /\ UNCHANGED <<height, tree, disabled, resetLock, balLock, job>>

RootRequestFails(c) ==
  /\ call[c].pc = "check" /\ call[c].left # {}
  /\ call' = [call EXCEPT ![c] = Returned(@, TRUE)]
  /\ UNCHANGED <<height, tree, disabled, resetLock, balLock, job>>

Compared(c) ==
  LET p == call[c]
  IN  /\ p.pc = "check" /\ p.left = {}
      /\ IF p.toReset = {}
         THEN call' = [call EXCEPT ![c] = Returned(p, FALSE)] /\ UNCHANGED job
         ELSE ResetMerkleBody(c, p, p.toReset)
      /\ UNCHANGED <<height, tree, disabled, resetLock, balLock>>

-----------------------------------------------------------------------------
\* resetMerkleTreeForChain.  A plausible slip: it takes no mutex.
TakeNoLock(c, k) ==
  /\ job[c][k].pc = "lock"
  /\ job' = [job EXCEPT ![c][k].pc = "retrieve"]
  /\ UNCHANGED <<height, tree, disabled, resetLock, balLock, call>>

LockReset(c, k) ==
  /\ job[c][k].pc = "lock" /\ resetLock[k] = None
  /\ resetLock' = [resetLock EXCEPT ![k] = c]
  /\ job' = [job EXCEPT ![c][k].pc = "retrieve"]
  /\ UNCHANGED <<height, tree, disabled, balLock, call>>

\* Snapshots and events, the latter under the mutex of the balances.
RetrieveEvents(c, k, n, whole) ==
  /\ job[c][k].pc = "retrieve" /\ ~balLock[k]
  /\ NodeMayShow(k, n) /\ (whole \/ k \in Gaps)
  /\ job' = [job EXCEPT ![c][k] = [pc |-> "store", got |-> [n |-> n, whole |-> whole]]]
  /\ UNCHANGED <<height, tree, disabled, resetLock, balLock, call>>

Unlocked(k) == [resetLock EXCEPT ![k] = None]

\* A plausible slip: an error returns without unlocking.
KeepLocked(k) == resetLock

\* The deferred unlock after an error.
UnlockedAfterError(k) == Unlocked(k)

RetrieveFails(c, k) ==
  /\ job[c][k].pc = "retrieve"
  /\ job' = [job EXCEPT ![c][k].pc = "failed"]
  /\ resetLock' = UnlockedAfterError(k)
  /\ UNCHANGED <<height, tree, disabled, balLock, call>>

StoreChainState(c, k) ==
  /\ job[c][k].pc = "store"
  /\ tree' = [tree EXCEPT ![k] = job[c][k].got]
  /\ job' = [job EXCEPT ![c][k].pc = "ok"]
  /\ resetLock' = Unlocked(k)
  /\ UNCHANGED <<height, disabled, balLock, call>>

AnyError(c) == \E k \in call[c].toReset : job[c][k].pc = "failed"

\* wg.Wait, errors.Join.
Join(c) ==
  /\ call[c].pc = "resetting"
  /\ \A k \in call[c].toReset : job[c][k].pc \in {"ok", "failed"}
  /\ call' = [call EXCEPT ![c] = Returned(@, AnyError(c))]
  /\ UNCHANGED <<height, tree, disabled, resetLock, balLock, job>>

-----------------------------------------------------------------------------
CallStep(c) ==
  \/ \E k \in Chains, n \in 0 .. MaxHeight : CompareRoots(c, k, n)
  \/ RootRequestFails(c)
  \/ Compared(c)
  \/ \E k \in Chains :
       \/ LockReset(c, k)
       \/ \E n \in 0 .. MaxHeight, whole \in BOOLEAN : RetrieveEvents(c, k, n, whole)
       \/ RetrieveFails(c, k)
       \/ StoreChainState(c, k)
  \/ Join(c)

Next ==
  \/ \E k \in Chains : NewLeaf(k) \/ LockBalance(k) \/ UnlockBalance(k)
  \/ \E value \in BOOLEAN : UpdateMerkleTreeUpdates(value)
  \/ \E c \in Calls :
       \/ \E chains \in Lists :
            ResetMerkle(c, chains) \/ ResetMerkleTreesIfNecessary(c, chains)
       \/ CallStep(c)

Spec == Init /\ [][Next]_vars

(***************************************************************************)
(* Calls go on, requests are answered or fail, a balance ends; whoever     *)
(* waits for a mutex gets it in the end (sync.Mutex is starvation free).   *)
(* A call has finitely many steps of either sort.                          *)
(***************************************************************************)
GoesOn(c) ==
  \/ Compared(c) \/ Join(c)
  \/ \E k \in Chains : StoreChainState(c, k) \/ \E n \in 0 .. MaxHeight : CompareRoots(c, k, n)

GetsMutex(c) ==
  \E k \in Chains :
    \/ LockReset(c, k)
    \/ \E n \in 0 .. MaxHeight, whole \in BOOLEAN : RetrieveEvents(c, k, n, whole)

Fairness ==
  /\ \A k \in Chains : WF_vars(UnlockBalance(k))
  /\ \A c \in Calls : WF_vars(GoesOn(c)) /\ SF_vars(GetsMutex(c))

LiveSpec == Spec /\ Fairness

-----------------------------------------------------------------------------
Holds(k, n) == tree[k] # NoTree /\ tree[k].n >= n

(***************************************************************************)
(* When a reset has returned nil, every chain it was asked for is as new   *)
(* as any node could show when the call began, whatever other calls fetch  *)
(* and store at the same time: an older copy never replaces a newer one by *)
(* more than a node may be behind (the mutex of resetMerkleTreeForChain).  *)
(* A chain whose roots were found equal may be replaced by the copy of a   *)
(* call that was under way, and falls behind by one more Lag.              *)
(* A call that is skipped returns nil too, and promises nothing.           *)
(* The goroutines do not depend on each other: one chain that cannot be    *)
(* fetched makes the call fail, and the others are stored and stay.        *)
(***************************************************************************)
FreshAfterReset ==
  \A c \in Calls : call[c].pc = "done" =>
    /\ \A k \in Chains : job[c][k].pc = "ok" => Holds(k, call[c].since[k] - Lag)
    /\ ~call[c].err /\ ~call[c].skipped =>
         \A k \in call[c].chains \union call[c].toReset :
           Holds(k, call[c].since[k] - IF k \in call[c].toReset THEN Lag ELSE 2 * Lag)

(***************************************************************************)
(* Every call returns: reset and balance mutexes are never waited for in a *)
(* circle, and each is released on every path.                             *)
(***************************************************************************)
CallsReturn == \A c \in Calls : call[c].pc # "idle" ~> call[c].pc = "done"
=============================================================================
