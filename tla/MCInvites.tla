------------------------------ MODULE MCInvites ------------------------------
(* Small instances of Invites for TLC. *)
EXTENDS Invites, TLC

CONSTANTS i1, i2, e1, e2, r1, r2

Symmetry == Permutations(Ids) \union Permutations(SignUps)
=============================================================================
