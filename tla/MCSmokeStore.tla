---------------------------- MODULE MCSmokeStore ----------------------------
(* Small instances of SmokeStore for TLC. *)
EXTENDS SmokeStore, TLC

CONSTANTS s1, s2, k1, k2, k3, r1, r2, r3

Symmetry == Permutations(Smokes) \union Permutations(Keys) \union Permutations(Requests)
=============================================================================
