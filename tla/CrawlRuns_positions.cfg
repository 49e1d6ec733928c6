CONSTANTS
  seed = seed
  offers = offers
  p1 = p1
  p2 = p2
  i1 = i1
  i2 = i2
  i3 = i3
  Lanes = {seed, offers}
  Scheduled = {offers}
  Pods = {p1, p2}
  Runs = {i1, i2, i3}
  Pages = 2
  MaxFaults = 1
  NoPod = NoPod
  NoRun = NoRun
  Nowhere = Nowhere
SPECIFICATION Spec
PROPERTIES OwnPosition
CHECK_DEADLOCK FALSE
