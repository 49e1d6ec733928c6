--------------------------- MODULE MCPhotoDrops ---------------------------
(* Small instances of PhotoDrops for TLC. *)
EXTENDS PhotoDrops, TLC

CONSTANTS d1, d2, s1, s2, p1, p2, p3, r1, r2

Symmetry == Permutations(Drops) \union Permutations(Smokes)
            \union Permutations(Photos) \union Permutations(Requests)
=============================================================================
