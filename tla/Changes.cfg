\* A transaction of two operations and one of one, one subscriber.
SPECIFICATION Spec
CONSTANTS
  user = user
  account = account
  x1 = x1
  f = f
  g = g
  v1 = v1
  v2 = v2
  owner = owner
  writer = writer
  t1 = t1
  t2 = t2
  s1 = s1
  Coll = {user, account}
  Id = {x1}
  Field = {f, g}
  Val = {v1, v2}
  Absent = Absent
  NoDoc = NoDoc
  Default <- MCDefault
  Fixed = {g}
  Input <- MCInput
  Partial <- MCPartial
  Actor = {owner, writer}
  Users <- MCUsers
  Rules <- MCRules
  Tx = {t1, t2}
  Sub = {s1}
  Wanted <- MCWanted
  MaxOps <- MCMaxOps
  Ticks = {1}
  MaxTime = 3
CHECK_DEADLOCK FALSE
INVARIANTS TypeOK TimeTravelRestores ReplayRebuilds FixedFieldsStay DeliveredInOrder
PROPERTY ChangesArrive
