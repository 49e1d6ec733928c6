CONSTANTS
  s1 = s1
  s2 = s2
  l1 = l1
  l2 = l2
  c1 = c1
  c2 = c2
  r1 = r1
  r2 = r2
  Smokes = {s1, s2}
  Lots = {l1, l2}
  Cigars = {c1, c2}
  Requests = {r1, r2}
  Faults = {"db"}
  NoSmoke = NoSmoke
  NoLot = NoLot
  NoCigar = NoCigar
  NoLink = NoLink
  Keep = Keep
SPECIFICATION Spec
SYMMETRY Symmetry
INVARIANTS TypeOK LotMatchesUnlessRaced
PROPERTIES AuditTellsTheMovement
CHECK_DEADLOCK FALSE
