\* Two transactions, one unique field.
SPECIFICATION Spec
CONSTANTS
  account = account
  user = user
  task = task
  ref = ref
  name = name
  a1 = a1
  u1 = u1
  u2 = u2
  k1 = k1
  bob = bob
  bobby = bobby
  t1 = t1
  t2 = t2
  Absent = Absent
  NoDoc = NoDoc
  NoColl = NoColl
  Coll = {account, user, task}
  Field <- MCField
  Val <- MCVal
  Tx = {t1, t2}
  Ids <- TwoUsers
  Index <- SchemaName
  Input <- MCInputNamed
  Partial <- NoUpdates
  Longer <- Exactly
  Immutable = {}
  Undeletable = {}
  MaxOps = 1
SYMMETRY TxSymmetry
CHECK_DEADLOCK FALSE
INVARIANT UniqueAcrossCollection
