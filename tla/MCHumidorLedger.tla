--------------------------- MODULE MCHumidorLedger ---------------------------
(* Small instances of HumidorLedger for TLC. *)
EXTENDS HumidorLedger, TLC

CONSTANTS s1, s2, l1, l2, c1, c2, r1, r2

Symmetry == Permutations(Smokes) \union Permutations(Lots) \union Permutations(Cigars)
            \union Permutations(Requests)
=============================================================================
