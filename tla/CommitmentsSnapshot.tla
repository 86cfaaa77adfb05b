------------------------ MODULE CommitmentsSnapshot ------------------------
(***************************************************************************)
(* The commitments service of one chain                                    *)
(* (internal/data-structures/snapshot/commitments.go): the Merkle tree,    *)
(* the encrypted outputs of its leaves and the map from a commitment to    *)
(* its output, fed with NewCommitment events.  The sign and the blocked    *)
(* flag of an output are carried along unread and left out.                *)
(*                                                                         *)
(* Event i of the chain is in block i and writes leaf i.  The emitter      *)
(* hands events over in order, but hands over again what it has scanned    *)
(* before (EventSync: ranges overlap, and a snapshot is labelled with a    *)
(* block before its newest events).  After a reorganisation it reads the   *)
(* replaced blocks again.                                                  *)
(***************************************************************************)
EXTENDS MerkleTree, SequencesExt

CONSTANTS
  Commitments,   \* commitments that may be put on the chain
  OutputOf,      \* the encrypted output that is emitted with a commitment
  MaxLeaves,     \* bound on the number of events on the chain
  MaxReorgs      \* bound on the number of reorganisations

ASSUME CommitmentsAssumption ==
  /\ Levels \in Nat \ {0} /\ MaxLeaves \in 1 .. 2 ^ (Levels - 1)
  /\ MaxReorgs \in Nat
  /\ Default \notin Commitments
  /\ DOMAIN OutputOf = Commitments

VARIABLES
  isServer,      \* a server stores snapshots and never sees a reorganisation
  chain,         \* the events of the canonical chain
  reorgs,        \* reorganisations so far
  scanned,       \* how many of the events have been handed over
  merkleTree,    \* s.merkleTree
  encOutputs,    \* s.encOutputs
  byCommitment,  \* s.byCommitment
  stored         \* the snapshot that FetchSnapshot returns

serviceVars == <<merkleTree, encOutputs, byCommitment>>
commitmentsVars == <<isServer, chain, reorgs, scanned, serviceVars, stored>>

OnChain == {chain[i] : i \in DOMAIN chain}
Leaf(i) == GetStartIndex + i - 1

CommitmentsInit ==
  /\ isServer \in BOOLEAN
  /\ chain = <<>> /\ reorgs = 0 /\ scanned = 0
  /\ merkleTree = New /\ encOutputs = <<>> /\ byCommitment = <<>>
  /\ stored = [block |-> 0, tree |-> ToJSON(New),
              encOutputs |-> <<>>, byCommitment |-> <<>>]

-----------------------------------------------------------------------------
(***************************************************************************)
(* The chain (external).  A commitment is on the chain at most once.  A    *)
(* reorganisation takes the last events off; they may come back in another *)
(* order.  A server only sees blocks beyond its reach (NoOrphans of        *)
(* EventSync).                                                             *)
(***************************************************************************)
NewCommitment(c) ==
  /\ Len(chain) < MaxLeaves
  /\ c \notin OnChain
  /\ chain' = Append(chain, c)
  /\ UNCHANGED <<isServer, reorgs, scanned, serviceVars, stored>>

Reorg(n) ==
  /\ ~isServer /\ reorgs < MaxReorgs
  /\ n < Len(chain)
  /\ chain' = SubSeq(chain, 1, n)
  /\ scanned' = IF scanned > n THEN n ELSE scanned
  /\ reorgs' = reorgs + 1
  /\ UNCHANGED <<isServer, serviceVars, stored>>

-----------------------------------------------------------------------------
Without(outputs, v) ==
  LET hits == {i \in DOMAIN outputs : outputs[i] = v}
      first == CHOOSE i \in hits : \A j \in hits : i <= j
  IN  IF hits = {} THEN outputs
      ELSE SubSeq(outputs, 1, first - 1) \o SubSeq(outputs, first + 1, Len(outputs))

\* Mutant: the output of a replaced commitment stays.
KeepReplaced(outputs, commitment) == outputs

\* The output of a replaced commitment goes, if it is known.
WithoutReplaced(outputs, commitment) ==
  IF commitment \in DOMAIN byCommitment THEN Without(outputs, byCommitment[commitment])
                                        ELSE outputs

WithOutput(outputs, v) ==
  IF v \in ToSet(outputs) THEN outputs ELSE Append(outputs, v)

ScannedWith(i) == IF i > scanned THEN i ELSE scanned

AcceptEvent(i) ==
  LET c        == chain[i]
      exists   == HasValue(merkleTree, Leaf(i))
      existing == GetValue(merkleTree, Leaf(i))
      kept     == IF exists THEN DOMAIN byCommitment \ {existing} ELSE DOMAIN byCommitment
  IN
  /\ i \in DOMAIN chain /\ i <= scanned + 1
  /\ scanned' = ScannedWith(i)
  /\ IF exists /\ existing = c
       THEN UNCHANGED serviceVars
       ELSE /\ merkleTree' = Insert(merkleTree, c, Leaf(i))
            /\ encOutputs' = WithOutput(IF exists THEN WithoutReplaced(encOutputs, existing)
                                                  ELSE encOutputs, OutputOf[c])
            /\ byCommitment' = Put([d \in kept |-> byCommitment[d]], c, OutputOf[c])
  /\ UNCHANGED <<isServer, chain, reorgs, stored>>

(***************************************************************************)
(* SerializeSnapshot as a server runs it, with the block number the        *)
(* emitter had before the batch, or as the snapshot server hands it out,   *)
(* without the reverse tree.                                               *)
(***************************************************************************)
SaveSnapshot(block, lite) ==
  /\ isServer /\ block <= scanned
  /\ stored' = [block |-> block,
               tree |-> IF lite THEN ToJSONLite(merkleTree) ELSE ToJSON(merkleTree),
               encOutputs |-> encOutputs, byCommitment |-> byCommitment]
  /\ UNCHANGED <<isServer, chain, reorgs, scanned, serviceVars>>

StoredOutputs == stored.encOutputs

\* DeserializeSnapshot and PopulateSnapshot of a new service: a snapshot of
\* block 0 starts with an empty tree, whatever it holds.
LoadSnapshot ==
  /\ merkleTree' = IF stored.block > 0 THEN FromJSON(stored.tree) ELSE New
  /\ encOutputs' = StoredOutputs
  /\ byCommitment' = stored.byCommitment
  /\ scanned' = stored.block
  /\ UNCHANGED <<isServer, chain, reorgs, stored>>

CommitmentsNext ==
  \/ \E c \in Commitments : NewCommitment(c)
  \/ \E n \in 0 .. MaxLeaves : Reorg(n)
  \/ \E i \in 1 .. MaxLeaves : AcceptEvent(i)
  \/ \E block \in 0 .. MaxLeaves, lite \in BOOLEAN : SaveSnapshot(block, lite)
  \/ LoadSnapshot

CommitmentsSpec == CommitmentsInit /\ [][CommitmentsNext]_commitmentsVars

-----------------------------------------------------------------------------
\* Every event is applied and no leaf of a longer, orphaned chain is left.
CaughtUp == scanned = Len(chain) /\ merkleTree.index = GetStartIndex + Len(chain)

(***************************************************************************)
(* The tree passes the completeness check at all times, also while a       *)
(* client rewrites its leaves after a reorganisation and while a snapshot  *)
(* is replayed: without it GetRootHash and the paths are errors (impl.go   *)
(* Insert, completenessCheck).                                             *)
(***************************************************************************)
NeverIncomplete == IsComplete(merkleTree)

(***************************************************************************)
(* Once every event is applied the root is that of the leaves on the       *)
(* chain, over repeated events, reorganisations and snapshots that are     *)
(* older or newer than their label (impl.go forceInsert, GetRootHash,      *)
(* FromJSON).                                                              *)
(***************************************************************************)
RootCorrect ==
  CaughtUp => GetRootHash(merkleTree) = ReferenceRoot(chain)

(***************************************************************************)
(* And the path of every commitment on the chain leads to that root, also  *)
(* when the reverse tree was rebuilt (impl.go reverseTree,                 *)
(* buildReverseTree, GetSiblingHashesForVerification, GetSiblingSides).    *)
(***************************************************************************)
PathsVerify ==
  CaughtUp => \A c \in OnChain :
    FoldPath(c, GetSiblingHashesForVerification(merkleTree, c),
             GetSiblingSides(merkleTree, c), Logarithm2(Len(chain)))
      = ReferenceRoot(chain)

(***************************************************************************)
(* Both: the tree serves the proofs of everything that is on the chain.    *)
(* The early return of AcceptEvent (commitments.go:197) does not refresh   *)
(* the reverse tree: a commitment that a reorganisation moves to an        *)
(* earlier leaf, and a second one back to the leaf that still holds it,    *)
(* keeps the path of the earlier leaf.  So paths are promised through one  *)
(* reorganisation, the root through any number of them.                    *)
(***************************************************************************)
TreeCorrect == NeverIncomplete /\ RootCorrect /\ (reorgs <= 1 => PathsVerify)

\* Every commitment on the chain has its encrypted output in the list from
\* which balances are computed.
NoOutputMissing ==
  CaughtUp => {OutputOf[c] : c \in OnChain} \subseteq ToSet(encOutputs)

(***************************************************************************)
(* The list holds no output of an orphaned commitment and none twice, over *)
(* repeated events and reorganisations (commitments.go AcceptEvent).       *)
(***************************************************************************)
NoOrphanOutputs ==
  CaughtUp => /\ ToSet(encOutputs) \subseteq {OutputOf[c] : c \in OnChain}
              /\ \A i, j \in DOMAIN encOutputs :
                   encOutputs[i] = encOutputs[j] => i = j

(***************************************************************************)
(* The list from which balances are computed holds what is on the chain,   *)
(* over repeated events, snapshots labelled with an older block, restarts  *)
(* and commitments that share an output; as long as the chain does not     *)
(* change its mind nothing is missing from it.                             *)
(***************************************************************************)
OutputsExact == NoOrphanOutputs /\ (reorgs = 0 => NoOutputMissing)
=============================================================================
