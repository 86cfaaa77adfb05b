---------------------------- MODULE MCFileCache ----------------------------
(* Two processes that share one cache file. *)
EXTENDS FileCache, TLC

Symmetry == Permutations(Processes) \union Permutations(Keys) \union Permutations(Values)
=============================================================================
