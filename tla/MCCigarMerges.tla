---------------------------- MODULE MCCigarMerges ----------------------------
(* Small instances of CigarMerges for TLC. *)
EXTENDS CigarMerges, TLC

CONSTANTS c1, c2, c3, l1, s1, s2, g1, k1, k2, f1, f2, m1, m2, r1, r2

\* What one history may use: the rows, and how many merges and exclusions.  Each scene is
\* small, and brings together the kinds that bear on one another: a lot and the smokes
\* drawn from it, a lot or a listing and exclusions, marks or photos that take each
\* other's slots.  Of two rows of a kind, the first is written first.
Unwritten(x) == at[x] = NoCigar /\ home[x] = NoCigar /\ x \notin strayed
Scene(rows, merges, exclusions) ==
  /\ \A x \in Rows \ rows : Unwritten(x)
  /\ Cardinality({m \in Merges : Written(m)}) <= merges
  /\ Len(excludes) <= exclusions

\* Nothing is claimed of a history once calls have overlapped on a cigar: it is not
\* followed further.
Followed ==
  /\ ~raced
  /\ \/ Scene({l1, s1, s2}, 1, 0) /\ (Unwritten(s1) => Unwritten(s2))
     \/ Scene({l1, s1}, 2, 0)
     \/ Scene({l1}, 2, 1) \/ Scene({l1}, 1, 2)
     \/ Scene({l1, g1}, 1, 1)
     \/ Scene({k1, k2}, 2, 1) /\ (Unwritten(k1) => Unwritten(k2))
     \/ Scene({f1, f2}, 2, 0) /\ (Unwritten(f1) => Unwritten(f2))

Symmetry == Permutations(Cigars) \union Permutations(Merges) \union Permutations(Requests)
=============================================================================
