CONSTANTS
  fox = fox
  lone = lone
  a1 = a1
  a2 = a2
  w1 = w1
  w2 = w2
  Vendors = {fox, lone}
  Asks = {a1}
  Writers = {w1}
  Tier <- MCTier
  Focus <- MCFocus
  AttemptsPerVendor = 1
  ErrorBudget = 2
  MaxFailed = 1
  MaxChanges = 1
SPECIFICATION QueueFairSpec
INVARIANTS QueueTypeOK
PROPERTIES FulfilledStays 
CHECK_DEADLOCK FALSE
