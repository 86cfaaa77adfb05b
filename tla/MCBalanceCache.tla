--------------------------- MODULE MCBalanceCache ---------------------------
(* Two goroutines that ask for balances and inputs of one client, on which *)
(* two users log in.                                                       *)
EXTENDS BalanceCache, TLC

CONSTANTS alice, bob

OwnersOfTwo == <<alice, bob>>

\* Bounds: one output is spent; the goroutines go on one at a time once an
\* entry has been combined with the keys of another user, and while updates
\* are disabled (entries are then used as they are).
Bounds ==
  /\ spent \subseteq {1}
  /\ (foreign = {} /\ ~disabled) \/ \E t \in Threads : call[t].pc = "idle"

Symmetry == Permutations(Threads)
=============================================================================
