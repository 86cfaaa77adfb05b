------------------------- MODULE MCSolanaEventSync -------------------------
(* A short chain in which a slot holds more transactions than a page.      *)
EXTENDS SolanaEventSync
=============================================================================
