\* Two transactions of two mutations each over two keys.
SPECIFICATION Spec
CONSTANTS
  k1 = k1
  k2 = k2
  v1 = v1
  v2 = v2
  t1 = t1
  t2 = t2
  Key = {k1, k2}
  Val = {v1, v2}
  Tx = {t1, t2}
  Nil = Nil
  NoWrite = NoWrite
  Ranges <- OneOrAll
  MaxEntries = 2
  MaxDrops = 1
SYMMETRY TxSymmetry
CHECK_DEADLOCK FALSE
INVARIANTS TypeOK NoDirtyRead StaleOnlyIfSuspect StreamOfCommitted
