\* Two lockers, and the ghost of a third in a process that has died; any delay,
\* failing transactions, crashes.
SPECIFICATION FairSpec
CONSTANTS
  l1 = l1
  l2 = l2
  Locker = {l1, l2}
  NoOne = NoOne
  Ghost = Ghost
INVARIANTS TypeOK HolderIsOwner
PROPERTIES ImplementsMutex OwnershipMovesOnly UnlockReturns AbandonedLockExpires
