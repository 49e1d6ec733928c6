CONSTANTS
  t1 = t1
  t2 = t2
  c1 = c1
  c2 = c2
  p1 = p1
  p2 = p2
  p3 = p3
  p4 = p4
  r1 = r1
  r2 = r2
  r3 = r3
  Txns = {t1}
  Codes = {c1, c2}
  Pairs = {p1, p2, p3, p4}
  Requests = {r1, r2}
  NoTxn = NoTxn
  NoCode = NoCode
  NoPair = NoPair
SPECIFICATION Spec
SYMMETRY Symmetry
INVARIANTS TypeOK OneSessionPerConsent RevocationIsFinal
CHECK_DEADLOCK FALSE
