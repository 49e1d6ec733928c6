----------------------------- MODULE MCTaxonomy -----------------------------
(* Small instances of Taxonomy for TLC. *)
EXTENDS Taxonomy, TLC

CONSTANTS x1, x2, x3, x4, x5, c1, n1, n2, n3, r1, r2

\* n1 and n2 are two spellings of one key.
KeyOf == n1 :> 1 @@ n2 :> 1 @@ n3 :> 2

Item(level, name, also) == [level |-> level, name |-> name, also |-> also]
SomePlans ==
  {<<Item("brand", n1, {2})>>, <<Item("brand", n2, {}), Item("line", n3, {})>>,
   <<Item("line", n2, {3})>>,
   <<Item("blender", n1, {}), Item("blender", n3, {})>>,
   <<Item("blender", n3, {}), Item("blender", n1, {})>>}

Row(level, under, name) ==
  [level |-> level, under |-> under, name |-> name, slug |-> KeyOf[name], keys |-> {KeyOf[name]},
   by |-> NoCall]

\* A registry with one brand; one with two brands and a line of each, and a cigar of the
\* first that is called by their names.
OneBrand ==
  [reg |-> [x \in Rows |-> IF x = x1 THEN Row("brand", NoRow, n3) ELSE Blank],
   cigar |-> [c \in Cigars |-> Unfiled]]
TwoBrands(row) ==
  [reg |-> [x \in Rows |-> CASE x = x1 -> Row("brand", NoRow, n1)
                             [] x = x2 -> Row("line", x1, n3)
                             [] x = x3 -> Row("brand", NoRow, n3)
                             [] x = x4 -> Row("line", x3, n3)
                             [] OTHER  -> Blank],
   cigar |-> [c \in Cigars |-> row]]
Filed == [brand |-> x1, line |-> x2, text |-> n1, composed |-> TRUE,
          name |-> [brand |-> n1, line |-> n3]]
SomeSeeds == {OneBrand, TwoBrands(Filed)}

Symmetry == Permutations(Requests)
=============================================================================
