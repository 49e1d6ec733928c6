CONSTANTS
  d1 = d1
  d2 = d2
  s1 = s1
  s2 = s2
  p1 = p1
  p2 = p2
  p3 = p3
  r1 = r1
  r2 = r2
  Drops = {d1}
  Smokes = {s1, s2}
  Photos = {p1, p2}
  Requests = {r1, r2}
  MaxPhotos = 1
  Ops = {"upload", "save", "claim", "remove", "delete", "open"}
  Faults = {"db", "answer", "storage", "crash"}
  NoDrop = NoDrop
  NoSmoke = NoSmoke
  NoStart = NoStart
  Stated = Stated
SPECIFICATION Spec
SYMMETRY Symmetry
INVARIANTS TypeOK OnePlace VisibleStagedHasBytes
CHECK_DEADLOCK FALSE
