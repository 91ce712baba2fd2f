\* Two transactions over two keys, one of two mutations and one of one:
\* refinement of the atomic store, and the change stream.
SPECIFICATION Spec
CONSTANTS
  k1 = k1
  k2 = k2
  v1 = v1
  v2 = v2
  t1 = t1
  t2 = t2
  Key = {k1, k2}
  Val = {v1, v2}
  Tx = {t1, t2}
  Nil = Nil
  NoWrite = NoWrite
  Ranges <- RangesBoth
  MaxPending = 1
  MaxEntries = 2
SYMMETRY BothSymmetry
CONSTRAINT Few
CHECK_DEADLOCK FALSE
INVARIANTS TypeOK SnapshotCurrent StreamOfCommitted InstalledIsAnnounced
PROPERTY Serializable
