------------------------- MODULE MCResetMerkleTrees -------------------------
(* Two resets of two chains side by side. *)
EXTENDS ResetMerkleTrees
=============================================================================
