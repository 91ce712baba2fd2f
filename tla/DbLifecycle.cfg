\* Two clients, two calls of Close, a pool of two machines.
SPECIFICATION FairSpec
CONSTANTS
  c1 = c1
  c2 = c2
  d1 = d1
  d2 = d2
  Client = {c1, c2}
  Closer = {d1, d2}
  PoolSize = 2
CHECK_DEADLOCK FALSE
INVARIANTS TypeOK BackgroundEndsFirst
PROPERTIES NewTxReturns CloseReturnsUnlessDry
