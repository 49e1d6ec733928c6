CONSTANTS
  i1 = i1
  i2 = i2
  e1 = e1
  e2 = e2
  r1 = r1
  r2 = r2
  Ids = {i1, i2}
  Emails = {e1, e2}
  Allowlist = {e2}
  SignUps = {r1, r2}
  Faults = {"db", "crash", "signup"}
  NoInvite = NoInvite
  NoEmail = NoEmail
SPECIFICATION InviteSpec
SYMMETRY Symmetry
INVARIANTS InviteTypeOK SingleUse RevokeOrRedeem
PROPERTIES ClaimNamesTheAccount
CHECK_DEADLOCK FALSE
