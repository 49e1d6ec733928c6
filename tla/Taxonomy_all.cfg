CONSTANTS
  x1 = x1
  x2 = x2
  x3 = x3
  x4 = x4
  x5 = x5
  c1 = c1
  n1 = n1
  n2 = n2
  n3 = n3
  r1 = r1
  r2 = r2
  Rows = {x1, x2, x3, x4, x5}
  Cigars = {c1}
  Requests = {r1, r2}
  Names = {n1, n2, n3}
  Keys = {1, 2, 3}
  Fold <- KeyOf
  Plans <- SomePlans
  Seeds <- SomeSeeds
  MaxCalls = 3
  NoRow = NoRow
  NoName = NoName
  NoCall = NoCall
  NoCigar = NoCigar
SPECIFICATION Spec
SYMMETRY Symmetry
INVARIANTS TypeOK KeysResolve LeavesAgree ClaimsDoNotDeadlock
CHECK_DEADLOCK FALSE
