----------------------- MODULE MCCommitmentsSnapshot -----------------------
(* The commitments service on small trees.  The first two commitments carry *)
(* the same encrypted output; the outputs of the others are named after     *)
(* them, so that they are interchangeable.                                  *)
EXTENDS CommitmentsSnapshot

CONSTANTS c1, c2, c3, c4, c5, o1, o2, o3, o4

SharedOutputs   == (c1 :> o1) @@ (c2 :> o1) @@ (c3 :> c3) @@ (c4 :> c4) @@ (c5 :> c5)
Interchangeable == Permutations({c3, c4, c5})
DistinctOutputs == (c1 :> o1) @@ (c2 :> o2) @@ (c3 :> o3) @@ (c4 :> o4)
=============================================================================
