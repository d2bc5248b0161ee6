------------------------------ MODULE MCNetCache ------------------------------
(* Small instances of NetCache for TLC. *)
EXTENDS NetCache, TLC

Symmetry == Permutations(Urls) \cup Permutations(Items)
=============================================================================
