------------------------- MODULE MCProviderAdapters -------------------------
(* Two adapters, two chains, three goroutines and two transactions.        *)
EXTENDS ProviderAdapters, TLC

Symmetry == Permutations(Networks) \union Permutations(Adapters)
              \union Permutations(Users) \union Permutations(Sends)
=============================================================================
