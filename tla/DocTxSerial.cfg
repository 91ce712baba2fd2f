\* One transaction at a time, three collections chained by foreign keys.
SPECIFICATION Spec
CONSTANTS
  account = account
  user = user
  task = task
  ref = ref
  name = name
  a1 = a1
  u1 = u1
  u2 = u2
  k1 = k1
  bob = bob
  bobby = bobby
  t1 = t1
  t2 = t2
  Absent = Absent
  NoDoc = NoDoc
  NoColl = NoColl
  Coll = {account, user, task}
  Field <- MCField
  Val <- MCVal
  Tx = {t1}
  Ids <- AllIds
  Index <- Schema
  Input <- MCInput
  Partial <- MCPartial
  Longer <- Prefixes
  Immutable = {}
  Undeletable = {}
  MaxOps = 3
CHECK_DEADLOCK FALSE
INVARIANTS TypeOK IndexCoversDocuments EntriesAreOfDocuments KnownIdsExist
PROPERTY ImplementsDocStore
