CONSTANTS
  c1 = c1
  c2 = c2
  c3 = c3
  l1 = l1
  s1 = s1
  s2 = s2
  g1 = g1
  k1 = k1
  k2 = k2
  f1 = f1
  f2 = f2
  m1 = m1
  m2 = m2
  r1 = r1
  r2 = r2
  Cigars = {c1, c2, c3}
  Lots = {l1}
  Smokes = {s1, s2}
  Listings = {g1}
  Marks = {k1, k2}
  Photos = {f1, f2}
  Merges = {m1, m2}
  Requests = {r1, r2}
  MaxExcludes = 2
  NoCigar = NoCigar
  NoLot = NoLot
  NoMerge = NoMerge
SPECIFICATION Spec
SYMMETRY Symmetry
CONSTRAINT Followed
INVARIANTS TypeOK UnmergeRestores  HeldIsVisible
CHECK_DEADLOCK FALSE
