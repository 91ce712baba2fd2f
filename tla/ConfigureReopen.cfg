\* One call, one restart.
SPECIFICATION Spec
CONSTANTS
  cdc = cdc
  account = account
  user = user
  p1 = p1
  p2 = p2
  a = a
  b = b
  Coll = {cdc, account, user}
  Cdc = cdc
  Text = {a, b}
  NoSchema = NoSchema
  NoOne = NoOne
  Blocked = Blocked
  Wants <- MCWants
  CdcSchema <- MCCdcSchema
  Caller = {p1, p2}
  MaxCalls = 1
  MaxCrashes = 1
SYMMETRY CallerSymmetry
CHECK_DEADLOCK FALSE
INVARIANT ConfiguredIsServed
