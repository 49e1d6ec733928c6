CONSTANTS
  d1 = d1
  d2 = d2
  l1 = l1
  l2 = l2
  l3 = l3
  l4 = l4
  r1 = r1
  r2 = r2
  r3 = r3
  Drops = {d1, d2}
  Links = {l1, l2, l3}
  Requests = {r1, r2}
  MaxLinks = 1
  Gap = 0
  Ttl = 1
  Retention = 0
  MaxTime = 1
  Faults = {"db"}
  NoDrop = NoDrop
  NoLink = NoLink
SPECIFICATION FairSpec
INVARIANTS TypeOK EveryDropHasALink LinksBounded
PROPERTIES OnlyTheOldestDies HandedLinkWorks EveryOpenEnds
CHECK_DEADLOCK FALSE
