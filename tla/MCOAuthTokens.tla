---------------------------- MODULE MCOAuthTokens ----------------------------
(* Small instances of OAuthTokens for TLC. *)
EXTENDS OAuthTokens, TLC

CONSTANTS t1, t2, c1, c2, p1, p2, p3, p4, r1, r2, r3

Symmetry == Permutations(Txns) \union Permutations(Codes) \union Permutations(Pairs)
            \union Permutations(Requests)
=============================================================================
