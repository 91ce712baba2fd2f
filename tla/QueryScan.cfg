\* Two documents of two fields, four indexes, two conditions,
\* and pages and groups of what they find.
SPECIFICATION Spec
CONSTANTS
  Id = {50, 150}
  Field <- MCField
  PK = 102
  Value <- MCValue
  Absent = Absent
  Index <- MCIndex
  MaxWhere = 2
  Orders <- MCOrders
  MaxLimit = 2
INVARIANTS QueryFindsAll PagesPartition AggregatesAreRight
