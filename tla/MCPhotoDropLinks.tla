-------------------------- MODULE MCPhotoDropLinks --------------------------
(* Small instances of PhotoDropLinks for TLC. *)
EXTENDS PhotoDropLinks, TLC

CONSTANTS d1, d2, l1, l2, l3, l4, r1, r2, r3

Symmetry == Permutations(Drops) \union Permutations(Links) \union Permutations(Requests)
=============================================================================
