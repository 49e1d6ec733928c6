CONSTANTS
  s1 = s1
  s2 = s2
  k1 = k1
  k2 = k2
  k3 = k3
  r1 = r1
  r2 = r2
  r3 = r3
  Smokes = {s1}
  Keys = {k1, k2}
  Requests = {r1, r2}
  Ops = {"save", "set", "append", "delete"}
  Versions = {1}
  Faults = {"db"}
  NoSmoke = NoSmoke
  NoKey = NoKey
  NoVersion = NoVersion
  NoResult = NoResult
SPECIFICATION Spec
SYMMETRY Symmetry
INVARIANTS TypeOK EffectIffKey AnswersMatchIntent
PROPERTIES EffectsOnceOnly
CHECK_DEADLOCK FALSE
