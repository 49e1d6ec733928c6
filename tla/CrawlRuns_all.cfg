CONSTANTS
  seed = seed
  offers = offers
  p1 = p1
  p2 = p2
  i1 = i1
  i2 = i2
  i3 = i3
  Lanes = {seed, offers}
  Scheduled = {offers}
  Pods = {p1, p2}
  Runs = {i1, i2, i3}
  Pages = 1
  MaxFaults = 3
  NoPod = NoPod
  NoRun = NoRun
  Nowhere = Nowhere
SPECIFICATION FairSpec
INVARIANTS TypeOK SweepSparesTheLiving
PROPERTIES SuccessIsFinal StrandedIsClosed
CHECK_DEADLOCK FALSE
