-------------------------- MODULE LeaseLockProofs --------------------------
(***************************************************************************)
(* Proofs about LeaseLock, for any number of lockers, any delay, failing   *)
(* transactions and crashes: types, the order in which the lock changes    *)
(* hands, and that it is the mutex with a lease that kv.go promises.       *)
(***************************************************************************)
EXTENDS LeaseLock, TLAPS

\* A keepalive goroutine serves a locker in use, and the two agree on who is
\* releasing.
KeeperServes ==
  \A l \in Locker :
    /\ keeper[l] # "none" => caller[l] \in {"holding", "unlocking", "waiting"}
    /\ keeper[l] \in {"releasing", "handing"} <=> caller[l] = "waiting"

\* Types and pairing: inductive by themselves.
KInv == TypeOK /\ KeeperServes

\* A transaction that can still commit read the key as it is now: TryLock one
\* that is free (time does not make a lock less free), keepalive its own.
ReadIsCurrent ==
  \A l \in Locker :
    /\ callerTxn[l].op = "set" /\ ~callerTxn[l].stale => Missing \/ meta.age > Expiry
    /\ keeperTxn[l].op \in {"set", "del"} /\ ~keeperTxn[l].stale => meta.owner = l

\* A locker on a lease that has not lapsed is served, is the stored owner, and
\* its key has not expired.
ProtectedOwns ==
  \A l \in Protected : keeper[l] # "none" /\ meta.owner = l /\ meta.age <= Expiry

\* A locker whose lease has lapsed and who may still renew it has an expired
\* key, if it is his at all: he takes again only what is free.
LateOwnerIsOld ==
  \A l \in lapsed : keeper[l] # "none" /\ meta.owner = l => meta.age > Expiry

\* The inductive invariant.
IInv == KInv /\ ReadIsCurrent /\ ProtectedOwns /\ LateOwnerIsOld

-----------------------------------------------------------------------------
\* The records of transactions and of the stored lock are well typed.
LEMMA NoTxnType == NoTxn \in Txn
BY DEF NoTxn, Doing, Txn, Age, Aged, Expiry

\* A transaction that begins has a fresh time and has not been overtaken.
LEMMA DoingType == ASSUME NEW op \in {"none", "set", "del", "fail"}
                   PROVE  Doing(op) \in Txn
BY DEF Doing, Txn, Age, Aged, Expiry

\* Overtaking transactions changes nothing but that they are stale.
LEMMA OvertakenTxns ==
  ASSUME NEW txns \in [Locker -> Txn]
  PROVE  /\ Overtaken(txns) \in [Locker -> Txn]
         /\ \A l \in Locker : /\ Overtaken(txns)[l].op = txns[l].op
                              /\ Overtaken(txns)[l].age = txns[l].age
                              /\ txns[l].op \in {"set", "del"} => Overtaken(txns)[l].stale
                              /\ txns[l] = NoTxn => Overtaken(txns)[l] = NoTxn
<1>1. /\ Overtaken(txns) \in [Locker -> Txn]
      /\ \A l \in Locker : /\ Overtaken(txns)[l].op = txns[l].op
                           /\ Overtaken(txns)[l].age = txns[l].age
                           /\ txns[l].op \in {"set", "del"} => Overtaken(txns)[l].stale
                           /\ txns[l].op = "none" => Overtaken(txns)[l] = txns[l]
  BY DEF Overtaken, Txn
<1>2. NoTxn.op = "none"
  BY DEF NoTxn, Doing
<1> QED
  BY <1>1, <1>2

\* One interval makes a transaction that stores a time one interval older.
LEMMA AgingTxns ==
  ASSUME NEW txns \in [Locker -> Txn]
  PROVE  /\ Aging(txns) \in [Locker -> Txn]
         /\ \A l \in Locker : /\ Aging(txns)[l].op = txns[l].op
                              /\ Aging(txns)[l].stale = txns[l].stale
                              /\ txns[l].op = "set" => Aging(txns)[l].age = Older(txns[l].age)
                              /\ txns[l] = NoTxn => Aging(txns)[l] = NoTxn
<1>1. \A a \in Age : Older(a) \in Age
  BY DEF Older, Age, Aged, Expiry
<1>2. /\ Aging(txns) \in [Locker -> Txn]
      /\ \A l \in Locker : /\ Aging(txns)[l].op = txns[l].op
                           /\ Aging(txns)[l].stale = txns[l].stale
                           /\ txns[l].op = "set" => Aging(txns)[l].age = Older(txns[l].age)
                           /\ txns[l].op = "none" => Aging(txns)[l] = txns[l]
  BY <1>1 DEF Aging, Txn
<1>3. NoTxn.op = "none"
  BY DEF NoTxn, Doing
<1> QED
  BY <1>2, <1>3

\* One interval more is an age.
LEMMA OlderType == \A a \in Age : Older(a) \in Age /\ Older(a) <= a + 1
BY DEF Older, Age, Aged, Expiry

-----------------------------------------------------------------------------
\* The initial state satisfies the invariant.
LEMMA InitIInv == Init => IInv
<1> SUFFICES ASSUME Init PROVE IInv
  OBVIOUS
<1>1. /\ NoOne \in Locker \cup {NoOne, Ghost} /\ 0 \in Age
      /\ NoTxn.op = "none" /\ ~NoTxn.stale
  BY DEF Age, Aged, Expiry, NoTxn, Doing
<1>2. TypeOK
  BY <1>1, NoTxnType DEF Init, TypeOK
<1>3. KeeperServes /\ ReadIsCurrent /\ ProtectedOwns /\ LateOwnerIsOld
  BY <1>1 DEF Init, KeeperServes, ReadIsCurrent, ProtectedOwns, LateOwnerIsOld, Protected, InUse
<1> QED
  BY <1>2, <1>3 DEF KInv, IInv

-----------------------------------------------------------------------------
\* What the caller's and the keepalive's commits do to the records.
LEMMA CallerStoresType ==
  ASSUME TypeOK, NEW l \in Locker, NEW a \in Age,
         CallerStores(l, [owner |-> l, age |-> a])
  PROVE  /\ meta' \in [owner : Locker \cup {NoOne, Ghost}, age : Age]
         /\ callerTxn' \in [Locker -> Txn] /\ keeperTxn' \in [Locker -> Txn]
         /\ \A m \in Locker : callerTxn'[m] # NoTxn => m # l /\ callerTxn[m] # NoTxn
         /\ \A m \in Locker : keeperTxn'[m] # NoTxn => keeperTxn[m] # NoTxn
<1>1. callerTxn \in [Locker -> Txn] /\ keeperTxn \in [Locker -> Txn]
  BY DEF TypeOK
<1> QED
  BY <1>1, OvertakenTxns, NoTxnType DEF CallerStores

LEMMA KeeperStoresType ==
  ASSUME TypeOK, NEW l \in Locker, NEW o \in {l, NoOne}, NEW a \in Age,
         KeeperStores(l, [owner |-> o, age |-> a])
  PROVE  /\ meta' \in [owner : Locker \cup {NoOne, Ghost}, age : Age]
         /\ callerTxn' \in [Locker -> Txn] /\ keeperTxn' \in [Locker -> Txn]
         /\ \A m \in Locker : callerTxn'[m] # NoTxn => callerTxn[m] # NoTxn
         /\ \A m \in Locker : keeperTxn'[m] # NoTxn => m # l /\ keeperTxn[m] # NoTxn
<1>1. callerTxn \in [Locker -> Txn] /\ keeperTxn \in [Locker -> Txn]
  BY DEF TypeOK
<1> QED
  BY <1>1, OvertakenTxns, NoTxnType DEF KeeperStores

\* A step of TryLock preserves types and pairing.
LEMMA AttemptKInv == ASSUME KInv, NEW l \in Locker, Attempt(l) PROVE KInv'
<1> USE DEF KInv, TypeOK, KeeperServes
<1>1. CASE TryLock(l)
  <2>1. callerTxn' \in [Locker -> Txn]
    BY <1>1, DoingType DEF TryLock
  <2> QED
    BY <1>1, <2>1 DEF TryLock
<1>2. CASE TryLockWins(l)
  <2>1. callerTxn[l].age \in Age
    BY DEF Txn
  <2>2. CallerStores(l, [owner |-> l, age |-> callerTxn[l].age])
    BY <1>2 DEF TryLockWins
  <2>3. keeperTxn[l] = NoTxn /\ keeper[l] = "none"
    BY <1>2 DEF TryLockWins
  <2>4. /\ meta' \in [owner : Locker \cup {NoOne, Ghost}, age : Age]
        /\ callerTxn' \in [Locker -> Txn] /\ keeperTxn' \in [Locker -> Txn]
        /\ \A m \in Locker : callerTxn'[m] # NoTxn => m # l /\ callerTxn[m] # NoTxn
        /\ \A m \in Locker : keeperTxn'[m] # NoTxn => keeperTxn[m] # NoTxn
    BY <2>1, <2>2, CallerStoresType
  <2>5. /\ caller' = [caller EXCEPT ![l] = "holding"]
        /\ keeper' = [keeper EXCEPT ![l] = "asleep"]
        /\ due' = [due EXCEPT ![l] = FALSE]
    BY <1>2 DEF TryLockWins
  <2>6. /\ caller' \in [Locker -> {"idle", "trying", "holding", "unlocking", "waiting"}]
        /\ keeper' \in [Locker -> {"none", "asleep", "refreshing", "releasing", "handing"}]
        /\ due' \in [Locker -> BOOLEAN]
    BY <2>5
  <2>7. ASSUME NEW m \in Locker, callerTxn'[m] # NoTxn PROVE caller'[m] = "trying"
    <3>1. m # l /\ callerTxn[m] # NoTxn
      BY <2>4, <2>7
    <3> QED
      BY <2>5, <3>1
  <2>8. ASSUME NEW m \in Locker, keeperTxn'[m] # NoTxn
        PROVE  keeper'[m] \in {"refreshing", "releasing"}
    <3>1. m # l /\ keeperTxn[m] # NoTxn
      BY <2>3, <2>4, <2>8
    <3> QED
      BY <2>5, <3>1
  <2>9. \A m \in Locker : due'[m] => keeper'[m] # "none"
    BY <2>5
  <2>10. KeeperServes'
    BY <2>3, <2>5, <1>2 DEF TryLockWins
  <2>11. lapsed' \subseteq Locker
    BY <1>2 DEF TryLockWins, Renewed
  <2> QED
    BY <2>4, <2>6, <2>7, <2>8, <2>9, <2>10, <2>11
<1>3. CASE TryLockLoses(l)
  BY <1>3, NoTxnType DEF TryLockLoses
<1> QED
  BY <1>1, <1>2, <1>3 DEF Attempt

\* Unlock preserves types and pairing.
LEMMA UnlockKInv == ASSUME KInv, NEW l \in Locker, Unlock(l) PROVE KInv'
BY DEF Unlock, KInv, TypeOK, KeeperServes

\* A step of the keepalive goroutine preserves types and pairing.
LEMMA KeepAliveKInv == ASSUME KInv, NEW l \in Locker, KeepAlive(l) PROVE KInv'
<1> USE DEF KInv, TypeOK, KeeperServes
<1>1. CASE Refresh(l)
  <2>1. keeperTxn' \in [Locker -> Txn]
    BY <1>1, DoingType DEF Refresh, Wants
  <2> QED
    BY <1>1, <2>1 DEF Refresh
<1>2. CASE RefreshDone(l)
  <2>0. lapsed' \subseteq Locker
    BY <1>2 DEF RefreshDone, Renewed
  <2>1. CASE KeeperStoresNothing(l)
    BY <1>2, <2>0, <2>1, NoTxnType DEF RefreshDone, KeeperStoresNothing
  <2>2. CASE KeeperStores(l, [owner |-> l, age |-> keeperTxn[l].age])
    <3>1. keeperTxn[l].age \in Age
      BY DEF Txn
    <3>2. /\ meta' \in [owner : Locker \cup {NoOne, Ghost}, age : Age]
          /\ callerTxn' \in [Locker -> Txn] /\ keeperTxn' \in [Locker -> Txn]
          /\ \A m \in Locker : callerTxn'[m] # NoTxn => callerTxn[m] # NoTxn
          /\ \A m \in Locker : keeperTxn'[m] # NoTxn => m # l /\ keeperTxn[m] # NoTxn
      BY <2>2, <3>1, KeeperStoresType
    <3>3. /\ keeper[l] = "refreshing" /\ keeper' = [keeper EXCEPT ![l] = "asleep"]
          /\ UNCHANGED <<caller, due>>
      BY <1>2 DEF RefreshDone
    <3>4. ASSUME NEW m \in Locker, keeperTxn'[m] # NoTxn
          PROVE  keeper'[m] \in {"refreshing", "releasing"}
      <4>1. m # l /\ keeperTxn[m] # NoTxn
        BY <3>2, <3>4
      <4> QED
        BY <3>3, <4>1
    <3>5. \A m \in Locker : callerTxn'[m] # NoTxn => caller'[m] = "trying"
      BY <3>2, <3>3
    <3>6. /\ keeper' \in [Locker -> {"none", "asleep", "refreshing", "releasing", "handing"}]
          /\ \A m \in Locker : due'[m] => keeper'[m] # "none"
          /\ KeeperServes'
      BY <3>3
    <3> QED
      BY <2>0, <3>2, <3>3, <3>4, <3>5, <3>6
  <2> QED
    BY <1>2, <2>1, <2>2 DEF RefreshDone
<1>3. CASE RefreshFails(l)
  BY <1>3, NoTxnType DEF RefreshFails, KeeperStoresNothing
<1>4. CASE Release(l)
  <2>1. keeperTxn' \in [Locker -> Txn]
    BY <1>4, DoingType DEF Release, Wants
  <2> QED
    BY <1>4, <2>1 DEF Release
<1>5. CASE ReleaseDone(l)
  <2>1. CASE KeeperStoresNothing(l)
    BY <1>5, <2>1, NoTxnType DEF ReleaseDone, KeeperStoresNothing
  <2>2. CASE KeeperStores(l, [owner |-> NoOne, age |-> 0])
    <3>1. 0 \in Age
      BY DEF Age, Aged, Expiry
    <3>2. /\ meta' \in [owner : Locker \cup {NoOne, Ghost}, age : Age]
          /\ callerTxn' \in [Locker -> Txn] /\ keeperTxn' \in [Locker -> Txn]
          /\ \A m \in Locker : callerTxn'[m] # NoTxn => callerTxn[m] # NoTxn
          /\ \A m \in Locker : keeperTxn'[m] # NoTxn => m # l /\ keeperTxn[m] # NoTxn
      BY <2>2, <3>1, KeeperStoresType
    <3>3. /\ keeper[l] = "releasing" /\ keeper' = [keeper EXCEPT ![l] = "handing"]
          /\ UNCHANGED <<caller, due, lapsed>>
      BY <1>5 DEF ReleaseDone
    <3>4. ASSUME NEW m \in Locker, keeperTxn'[m] # NoTxn
          PROVE  keeper'[m] \in {"refreshing", "releasing"}
      <4>1. m # l /\ keeperTxn[m] # NoTxn
        BY <3>2, <3>4
      <4> QED
        BY <3>3, <4>1
    <3>5. \A m \in Locker : callerTxn'[m] # NoTxn => caller'[m] = "trying"
      BY <3>2, <3>3
    <3>6. /\ keeper' \in [Locker -> {"none", "asleep", "refreshing", "releasing", "handing"}]
          /\ \A m \in Locker : due'[m] => keeper'[m] # "none"
      BY <3>3
    <3>7. KeeperServes'
      BY <3>3
    <3> QED
      BY <3>2, <3>3, <3>4, <3>5, <3>6, <3>7
  <2> QED
    BY <1>5, <2>1, <2>2 DEF ReleaseDone
<1>6. CASE HandOver(l)
  <2>1. keeperTxn[l] = NoTxn
    BY <1>6 DEF HandOver
  <2> QED
    BY <1>6, <2>1 DEF HandOver
<1> QED
  BY <1>1, <1>2, <1>3, <1>4, <1>5, <1>6 DEF KeepAlive

\* Time and crashes preserve types and pairing.
LEMMA TickKInv == ASSUME KInv, Tick PROVE KInv'
<1>1. callerTxn \in [Locker -> Txn] /\ keeperTxn \in [Locker -> Txn]
  BY DEF KInv, TypeOK
<1>2. callerTxn' = Aging(callerTxn) /\ keeperTxn' = Aging(keeperTxn)
  BY DEF Tick
<1>3. /\ callerTxn' \in [Locker -> Txn] /\ keeperTxn' \in [Locker -> Txn]
      /\ \A m \in Locker : callerTxn'[m] # NoTxn => callerTxn[m] # NoTxn
      /\ \A m \in Locker : keeperTxn'[m] # NoTxn => keeperTxn[m] # NoTxn
  BY <1>1, <1>2, AgingTxns
<1>4. meta' \in [owner : Locker \cup {NoOne, Ghost}, age : Age]
  BY OlderType DEF KInv, TypeOK, Tick
<1> QED
  BY <1>3, <1>4 DEF KInv, TypeOK, KeeperServes, Tick, InUse

LEMMA CrashKInv == ASSUME KInv, Crash PROVE KInv'
<1>1. meta' \in [owner : Locker \cup {NoOne, Ghost}, age : Age]
  BY DEF KInv, TypeOK, Crash
<1> QED
  BY <1>1, NoTxnType DEF KInv, TypeOK, KeeperServes, Crash

\* Every step preserves types and pairing.
LEMMA NextKInv == KInv /\ [Next]_vars => KInv'
<1> SUFFICES ASSUME KInv, [Next]_vars PROVE KInv'
  OBVIOUS
<1>1. CASE UNCHANGED vars
  BY <1>1 DEF KInv, TypeOK, KeeperServes, vars
<1> QED
  BY <1>1, AttemptKInv, UnlockKInv, KeepAliveKInv, TickKInv, CrashKInv DEF Next

-----------------------------------------------------------------------------
\* A commit overtakes every transaction that could still have committed.
LEMMA StoresOvertake ==
  ASSUME KInv, NEW l \in Locker, NEW m, CallerStores(l, m) \/ KeeperStores(l, m)
  PROVE  ReadIsCurrent'
<1>1. callerTxn \in [Locker -> Txn] /\ keeperTxn \in [Locker -> Txn]
  BY DEF KInv, TypeOK
<1>2. NoTxn.op = "none"
  BY DEF NoTxn, Doing
<1>3. ASSUME NEW txns \in [Locker -> Txn], NEW k \in Locker
      PROVE  Overtaken(txns)[k].op \in {"set", "del"} => Overtaken(txns)[k].stale
  BY <1>3, OvertakenTxns
<1>4. Overtaken(callerTxn) \in [Locker -> Txn] /\ Overtaken(keeperTxn) \in [Locker -> Txn]
  BY <1>1, OvertakenTxns
<1>5. ASSUME NEW k \in Locker
      PROVE  /\ callerTxn'[k].op \in {"set", "del"} => callerTxn'[k].stale
             /\ keeperTxn'[k].op \in {"set", "del"} => keeperTxn'[k].stale
  BY <1>1, <1>2, <1>3, <1>4, <1>5 DEF CallerStores, KeeperStores
<1> QED
  BY <1>5 DEF ReadIsCurrent

\* Every step keeps what transactions have read current.
LEMMA NextReadIsCurrent == KInv /\ ReadIsCurrent /\ [Next]_vars => ReadIsCurrent'
<1> SUFFICES ASSUME KInv, ReadIsCurrent, [Next]_vars PROVE ReadIsCurrent'
  OBVIOUS
<1> USE DEF KInv, TypeOK
<1>1. NoTxn.op = "none"
  BY DEF NoTxn, Doing
<1>2. ASSUME NEW l \in Locker, Attempt(l) PROVE ReadIsCurrent'
  <2>1. CASE TryLock(l)
    BY <2>1 DEF TryLock, ReadIsCurrent, Free, Missing, Doing
  <2>2. CASE TryLockWins(l)
    BY <2>2, StoresOvertake DEF TryLockWins
  <2>3. CASE TryLockLoses(l)
    BY <1>1, <2>3 DEF TryLockLoses, ReadIsCurrent, Missing
  <2> QED
    BY <1>2, <2>1, <2>2, <2>3 DEF Attempt
<1>3. ASSUME NEW l \in Locker, Unlock(l) PROVE ReadIsCurrent'
  BY <1>3 DEF Unlock, ReadIsCurrent, Missing
<1>4. ASSUME NEW l \in Locker, KeepAlive(l) PROVE ReadIsCurrent'
  <2>1. CASE Refresh(l)
    BY <2>1 DEF Refresh, Wants, ReadIsCurrent, Missing, Doing
  <2>2. CASE Release(l)
    BY <2>2 DEF Release, Wants, ReadIsCurrent, Missing, Doing
  <2>3. CASE KeeperStoresNothing(l)
    BY <1>1, <2>3 DEF KeeperStoresNothing, ReadIsCurrent, Missing
  <2>4. CASE \E m : KeeperStores(l, m)
    BY <2>4, StoresOvertake
  <2>5. CASE HandOver(l)
    BY <2>5 DEF HandOver, ReadIsCurrent, Missing
  <2> QED
    BY <1>4, <2>1, <2>2, <2>3, <2>4, <2>5 DEF KeepAlive, RefreshDone, RefreshFails, ReleaseDone
<1>5. CASE Tick
  <2>1. /\ meta'.owner = meta.owner
        /\ ~Missing /\ meta.age > Expiry => meta'.age > Expiry
    BY <1>5 DEF Tick, Older, Age, Aged, Expiry
  <2>2. \A l \in Locker :
          /\ callerTxn'[l].op = callerTxn[l].op /\ callerTxn'[l].stale = callerTxn[l].stale
          /\ keeperTxn'[l].op = keeperTxn[l].op /\ keeperTxn'[l].stale = keeperTxn[l].stale
    BY <1>5, AgingTxns DEF Tick
  <2> QED
    BY <2>1, <2>2 DEF ReadIsCurrent, Missing
<1>6. CASE Crash
  BY <1>1, <1>6 DEF Crash, ReadIsCurrent
<1>7. CASE UNCHANGED vars
  BY <1>7 DEF vars, ReadIsCurrent, Missing
<1> QED
  BY <1>2, <1>3, <1>4, <1>5, <1>6, <1>7 DEF Next

\* A step that gives the lock to somebody else does so for a good reason.
LEMMA StepMovesOwnership == KInv /\ ReadIsCurrent /\ [Next]_vars => [OwnershipMoves]_vars
<1> SUFFICES ASSUME KInv, ReadIsCurrent, Next PROVE OwnershipMoves
  BY DEF OwnershipMoves
<1> USE DEF KInv, TypeOK
<1>1. ASSUME NEW l \in Locker, TryLockWins(l) PROVE OwnershipMoves
  <2>1. meta' = [owner |-> l, age |-> callerTxn[l].age]
    BY <1>1 DEF TryLockWins, CallerStores
  <2>2. Holds(l)' /\ ~Holds(l)
    BY <1>1 DEF TryLockWins, Holds
  <2>3. Missing \/ meta.age > Expiry
    BY <1>1 DEF TryLockWins, ReadIsCurrent
  <2> QED
    BY <2>1, <2>2, <2>3 DEF OwnershipMoves
<1>2. ASSUME NEW l \in Locker, RefreshDone(l) PROVE OwnershipMoves
  BY <1>2 DEF RefreshDone, KeeperStores, KeeperStoresNothing, ReadIsCurrent, OwnershipMoves
<1>3. ASSUME NEW l \in Locker, ReleaseDone(l) PROVE OwnershipMoves
  BY <1>3 DEF ReleaseDone, KeeperStores, KeeperStoresNothing, ReadIsCurrent, OwnershipMoves
<1>4. CASE meta'.owner = meta.owner
  BY <1>4 DEF OwnershipMoves
<1>5. CASE Tick
  BY <1>4, <1>5 DEF Tick
<1>6. CASE Crash
  BY <1>4, <1>6 DEF Crash, Missing, OwnershipMoves
<1>7. ASSUME NEW l \in Locker, Attempt(l) PROVE OwnershipMoves
  BY <1>1, <1>4, <1>7 DEF Attempt, TryLock, TryLockLoses
<1>8. ASSUME NEW l \in Locker, Unlock(l) PROVE OwnershipMoves
  BY <1>4, <1>8 DEF Unlock
<1>9. ASSUME NEW l \in Locker, KeepAlive(l) PROVE OwnershipMoves
  BY <1>2, <1>3, <1>4, <1>9 DEF KeepAlive, Refresh, RefreshFails, Release, HandOver, KeeperStoresNothing
<1> QED
  BY <1>5, <1>6, <1>7, <1>8, <1>9 DEF Next

-----------------------------------------------------------------------------
\* At most one locker is on a lease that has not lapsed.
LEMMA OneProtected == ASSUME ProtectedOwns, NEW l \in Protected, NEW m \in Protected PROVE l = m
BY DEF ProtectedOwns

\* The promised lock is seen only through Protected and Orphaned.
Seen == <<Protected, Orphaned>>

\* What a step is to show: it keeps the invariant, and is one of the promised
\* lock or not seen.
Good == ProtectedOwns' /\ LateOwnerIsOld' /\ [Promised!Next]_Seen

\* A step that disturbs neither the key nor who is on a lease is not seen.
LEMMA Unseen ==
  ASSUME IInv, UNCHANGED <<meta, Protected>>,
         \A l \in Locker : keeper[l] # "none" <=> keeper'[l] # "none",
         lapsed' \subseteq lapsed
  PROVE  Good
<1>1. lapsed \subseteq Locker /\ Protected \subseteq Locker
  BY DEF IInv, KInv, TypeOK, Protected, InUse
<1>2. ProtectedOwns' /\ LateOwnerIsOld'
  BY <1>1 DEF IInv, ProtectedOwns, LateOwnerIsOld
<1>3. UNCHANGED Seen
  BY DEF Seen, Orphaned, Missing
<1> QED
  BY <1>2, <1>3 DEF Good

\* Storing a lease on a key that was free, or that was his own and may have
\* expired, gives the lock to l, or to nobody if the lease is over by then.
LEMMA StoreGood ==
  ASSUME IInv, NEW l \in Locker, NEW a \in Age,
         meta' = [owner |-> l, age |-> a], Renewed(l, a),
         InUse' = InUse \cup {l}, keeper'[l] # "none",
         \A m \in Locker \ {l} : keeper'[m] = keeper[m],
         Missing \/ meta.age > Expiry \/ (meta.owner = l /\ keeper[l] # "none" /\ l \in InUse)
  PROVE  Good
<1>1. meta'.owner = l /\ meta'.age = a /\ a \in Nat /\ meta.age \in Nat /\ Expiry \in Nat
  BY DEF Age, Aged, Expiry, IInv, KInv, TypeOK
<1>2. Protected \subseteq {l}
  BY <1>1, NamesAssumption DEF IInv, ProtectedOwns, Missing, Protected, InUse
<1>3. Protected' = IF a > Expiry THEN {} ELSE {l}
  BY <1>2 DEF Protected, Renewed
<1>4. ProtectedOwns'
  BY <1>1, <1>3 DEF ProtectedOwns
<1>5. LateOwnerIsOld'
  BY <1>1 DEF LateOwnerIsOld, Renewed
<1>6. Orphaned' = FALSE
  BY <1>1, <1>3, NamesAssumption DEF Orphaned
<1>7. Orphaned = FALSE
  BY <1>1, NamesAssumption DEF Orphaned, Missing, IInv, LateOwnerIsOld, Protected
<1>8. CASE Protected' = Protected
  BY <1>4, <1>5, <1>6, <1>7, <1>8 DEF Seen, Good
<1>9. CASE Protected = {} /\ Protected' = {l}
  BY <1>4, <1>5, <1>6, <1>7, <1>9 DEF Good, Promised!Next, Promised!Acquire
<1>10. CASE Protected = {l} /\ Protected' = {}
  BY <1>4, <1>5, <1>6, <1>7, <1>10 DEF Good, Promised!Next, Promised!Release
<1> QED
  BY <1>2, <1>3, <1>8, <1>9, <1>10

\* The steps of TryLock.
LEMMA AttemptGood == ASSUME IInv, NEW l \in Locker, Attempt(l) PROVE Good
<1> USE DEF IInv, KInv, TypeOK
<1>1. CASE TryLock(l) \/ TryLockLoses(l)
  <2>1. InUse' = InUse
    BY <1>1 DEF TryLock, TryLockLoses, InUse
  <2>2. UNCHANGED <<meta, keeper, lapsed>>
    BY <1>1 DEF TryLock, TryLockLoses
  <2> QED
    BY <2>1, <2>2, Unseen DEF Protected
<1>2. CASE TryLockWins(l)
  <2>1. /\ meta' = [owner |-> l, age |-> callerTxn[l].age] /\ Renewed(l, callerTxn[l].age)
        /\ caller' = [caller EXCEPT ![l] = "holding"]
        /\ keeper' = [keeper EXCEPT ![l] = "asleep"]
    BY <1>2 DEF TryLockWins, CallerStores
  <2>2. callerTxn[l].age \in Age
    BY DEF Txn
  <2>3. InUse' = InUse \cup {l}
    BY <2>1 DEF InUse
  <2>4. Missing \/ meta.age > Expiry
    BY <1>2 DEF TryLockWins, ReadIsCurrent
  <2>5. keeper'[l] # "none" /\ \A m \in Locker \ {l} : keeper'[m] = keeper[m]
    BY <2>1
  <2> QED
    BY <2>1, <2>2, <2>3, <2>4, <2>5, StoreGood
<1> QED
  BY <1>1, <1>2 DEF Attempt

\* keepalive ends on an error, or ends its transaction in Unlock without
\* having deleted the key: if l was on its lease, the lock is left behind.
LEMMA LeftGood ==
  ASSUME IInv, NEW l \in Locker, UNCHANGED meta,
         Protected' = Protected \ {l}, lapsed' \subseteq lapsed \cup {l},
         \A m \in Locker \ {l} : keeper'[m] = keeper[m],
         l \in lapsed' => keeper'[l] = "none" \/ (l \in lapsed /\ keeper[l] # "none")
  PROVE  Good
<1>1. lapsed \subseteq Locker /\ Protected \subseteq Locker
  BY DEF IInv, KInv, TypeOK, Protected, InUse
<1>2. ProtectedOwns'
  BY <1>1 DEF IInv, ProtectedOwns
<1>3. LateOwnerIsOld'
  BY <1>1 DEF IInv, LateOwnerIsOld
<1>4. CASE l \notin Protected
  BY <1>2, <1>3, <1>4 DEF Good, Seen, Orphaned, Missing
<1>5. CASE l \in Protected
  <2>1. Protected = {l} /\ Protected' = {}
    BY <1>5, OneProtected DEF IInv
  <2>2. meta.owner = l /\ meta.age <= Expiry
    BY <1>5 DEF IInv, ProtectedOwns
  <2>3. Orphaned' = TRUE
    BY <2>1, <2>2, NamesAssumption DEF Orphaned, Missing
  <2> QED
    BY <1>2, <1>3, <2>1, <2>3 DEF Good, Promised!Next, Promised!Die
<1> QED
  BY <1>4, <1>5

\* The steps of the keepalive goroutine.
LEMMA KeepAliveGood == ASSUME IInv, NEW l \in Locker, KeepAlive(l) PROVE Good
<1> USE DEF IInv, KInv, TypeOK
<1>1. CASE Refresh(l) \/ Release(l)
  <2>1. UNCHANGED <<InUse, meta, lapsed>>
    BY <1>1 DEF Refresh, Release, InUse
  <2>2. \A m \in Locker : keeper[m] # "none" <=> keeper'[m] # "none"
    BY <1>1 DEF Refresh, Release
  <2> QED
    BY <2>1, <2>2, Unseen DEF Protected
<1>2. CASE RefreshDone(l)
  <2>1. keeper[l] = "refreshing" /\ keeper' = [keeper EXCEPT ![l] = "asleep"] /\ caller' = caller
    BY <1>2 DEF RefreshDone
  <2>2. InUse' = InUse /\ l \in InUse
    BY <2>1 DEF InUse, KeeperServes
  <2>3. CASE KeeperStoresNothing(l) /\ UNCHANGED lapsed
    BY <2>1, <2>2, <2>3, Unseen DEF Protected, KeeperStoresNothing
  <2>4. CASE /\ keeperTxn[l].op = "set" /\ ~keeperTxn[l].stale
             /\ KeeperStores(l, [owner |-> l, age |-> keeperTxn[l].age])
             /\ Renewed(l, keeperTxn[l].age)
    <3>1. keeperTxn[l].age \in Age
      BY DEF Txn
    <3>2. meta.owner = l
      BY <2>4 DEF ReadIsCurrent
    <3>3. InUse' = InUse \cup {l}
      BY <2>2
    <3>4. keeper'[l] # "none" /\ \A m \in Locker \ {l} : keeper'[m] = keeper[m]
      BY <2>1
    <3>5. meta' = [owner |-> l, age |-> keeperTxn[l].age]
      BY <2>4 DEF KeeperStores
    <3> QED
      BY <2>1, <2>2, <2>4, <3>1, <3>2, <3>3, <3>4, <3>5, StoreGood
  <2> QED
    BY <1>2, <2>3, <2>4 DEF RefreshDone
<1>3. CASE RefreshFails(l)
  <2>1. /\ keeper[l] = "refreshing" /\ keeper' = [keeper EXCEPT ![l] = "none"]
        /\ lapsed' = lapsed \cup {l} /\ UNCHANGED <<meta, caller>>
    BY <1>3 DEF RefreshFails, KeeperStoresNothing
  <2>2. InUse' = InUse
    BY <2>1 DEF InUse
  <2>3. Protected' = Protected \ {l}
    BY <2>1, <2>2 DEF Protected
  <2> QED
    BY <2>1, <2>3, LeftGood
<1>4. CASE ReleaseDone(l)
  <2>1. /\ keeper[l] = "releasing" /\ keeper' = [keeper EXCEPT ![l] = "handing"]
        /\ UNCHANGED <<caller, lapsed>>
    BY <1>4 DEF ReleaseDone
  <2>2. InUse' = InUse \ {l}
    BY <2>1 DEF InUse
  <2>3. Protected' = Protected \ {l}
    BY <2>1, <2>2 DEF Protected
  <2>4. CASE KeeperStoresNothing(l)
    BY <2>1, <2>3, <2>4, LeftGood DEF KeeperStoresNothing
  <2>5. CASE /\ keeperTxn[l].op = "del" /\ ~keeperTxn[l].stale
             /\ KeeperStores(l, [owner |-> NoOne, age |-> 0])
    <3>1. meta.owner = l /\ meta'.owner = NoOne
      BY <2>5 DEF ReadIsCurrent, KeeperStores
    <3>2. Protected \subseteq {l}
      BY <3>1 DEF ProtectedOwns
    <3>3. Protected' = {}
      BY <2>3, <3>2
    <3>4. ProtectedOwns' /\ LateOwnerIsOld'
      BY <2>1, <3>1, <3>3, NamesAssumption DEF ProtectedOwns, LateOwnerIsOld
    <3>5. Orphaned' = FALSE
      BY <3>1 DEF Orphaned, Missing
    <3>6. CASE l \in Protected
      <4>1. Orphaned = FALSE
        BY <3>1, <3>6 DEF Orphaned
      <4> QED
        BY <2>3, <3>4, <3>5, <3>6, <4>1 DEF Good, Promised!Next, Promised!Release
    <3>7. CASE l \notin Protected
      <4>1. l \in lapsed
        BY <2>1, <3>7 DEF Protected, InUse, KeeperServes
      <4>2. Orphaned = FALSE
        BY <2>1, <3>1, <4>1 DEF Orphaned, LateOwnerIsOld, Age, Aged, Expiry
      <4>3. Protected' = Protected
        BY <2>3, <3>7
      <4> QED
        BY <3>4, <3>5, <4>2, <4>3 DEF Good, Seen
    <3> QED
      BY <3>6, <3>7
  <2> QED
    BY <1>4, <2>4, <2>5 DEF ReleaseDone
<1>5. CASE HandOver(l)
  <2>1. /\ keeper[l] = "handing" /\ keeper' = [keeper EXCEPT ![l] = "none"]
        /\ caller' = [caller EXCEPT ![l] = "idle"]
        /\ lapsed' = lapsed \ {l} /\ UNCHANGED meta
    BY <1>5 DEF HandOver
  <2>2. InUse' = InUse /\ l \notin InUse
    BY <2>1 DEF InUse
  <2>3. Protected' = Protected \ {l}
    BY <2>1, <2>2 DEF Protected
  <2> QED
    BY <2>1, <2>3, LeftGood
<1> QED
  BY <1>1, <1>2, <1>3, <1>4, <1>5 DEF KeepAlive

\* Calling Unlock is not seen.
LEMMA UnlockGood == ASSUME IInv, NEW l \in Locker, Unlock(l) PROVE Good
<1>1. InUse' = InUse
  BY DEF Unlock, InUse, IInv, KInv, TypeOK
<1>2. UNCHANGED <<meta, keeper, lapsed>>
  BY DEF Unlock
<1> QED
  BY <1>1, <1>2, Unseen DEF Protected

\* A lease ends when it is four intervals old: that of a user, or of a lock
\* that was left behind.
LEMMA TickGood == ASSUME IInv, Tick PROVE Good
<1> USE DEF IInv, KInv, TypeOK
<1>1. /\ meta.age \in Nat /\ meta'.age \in Nat /\ Expiry \in Nat
      /\ meta'.owner = meta.owner
      /\ meta.age <= meta'.age
      /\ ~Missing => (meta.age >= Expiry <=> meta'.age > Expiry)
  BY OlderType DEF Tick, Older, Age, Aged, Expiry
<1>2. UNCHANGED <<keeper, InUse>>
  BY DEF Tick, InUse
<1>3. lapsed' = lapsed \cup {l \in InUse : meta.owner = l /\ meta.age >= Expiry}
  BY DEF Tick
<1>4. Protected' = {l \in Protected : meta.age < Expiry}
  <2>1. \A l \in Protected : meta.owner = l
    BY DEF ProtectedOwns
  <2>2. Protected' = {l \in Protected : ~(meta.owner = l /\ meta.age >= Expiry)}
    BY <1>2, <1>3 DEF Protected
  <2> QED
    BY <1>1, <2>1, <2>2
<1>5. InUse \subseteq Locker
  BY DEF InUse
<1>6. \A l \in Locker : meta.owner = l => ~Missing
  BY NamesAssumption DEF Missing
<1>7. ProtectedOwns'
  BY <1>1, <1>2, <1>4, <1>5, <1>6 DEF ProtectedOwns, Protected
<1>8. LateOwnerIsOld'
  BY <1>1, <1>2, <1>3, <1>5, <1>6 DEF LateOwnerIsOld
<1>9. CASE Protected = {}
  <2>1. Protected' = {} /\ (Orphaned' => Orphaned)
    BY <1>1, <1>4, <1>9 DEF Orphaned, Missing
  <2>2. Orphaned \in BOOLEAN /\ Orphaned' \in BOOLEAN
    BY <1>1 DEF Orphaned
  <2>3. Orphaned' = Orphaned \/ (Orphaned /\ Orphaned' = FALSE)
    BY <2>1, <2>2, Zenon
  <2> QED
    BY <1>7, <1>8, <1>9, <2>1, <2>3 DEF Good, Seen, Promised!Next, Promised!Expire
<1>10. ASSUME NEW l \in Protected PROVE Good
  <2>1. Protected = {l} /\ meta.owner = l /\ l \in Locker
    BY <1>5, OneProtected DEF ProtectedOwns, Protected
  <2>2. Orphaned = FALSE
    BY <2>1 DEF Orphaned
  <2>3. CASE meta.age < Expiry
    <3>1. Protected' = Protected
      BY <1>4, <2>1, <2>3
    <3>2. Orphaned' = FALSE
      BY <1>1, <2>1, <3>1 DEF Orphaned
    <3> QED
      BY <1>7, <1>8, <2>2, <3>1, <3>2 DEF Good, Seen
  <2>4. CASE meta.age >= Expiry
    <3>1. Protected' = {}
      BY <1>1, <1>4, <2>4
    <3>2. Orphaned' = FALSE
      BY <1>1, <1>6, <2>1, <2>4 DEF Orphaned
    <3> QED
      BY <1>7, <1>8, <2>1, <2>2, <3>1, <3>2 DEF Good, Promised!Next, Promised!Release
  <2> QED
    BY <1>1, <2>3, <2>4
<1> QED
  BY <1>9, <1>10

\* A crash takes the lock from its user and leaves it taken; if nobody was on
\* a lease, nothing is seen of the crash.
LEMMA CrashGood == ASSUME IInv, Crash PROVE Good
<1> USE DEF IInv, KInv, TypeOK
<1>1. /\ Protected' = {} /\ lapsed' = {} /\ meta'.age = meta.age
      /\ meta'.owner = IF Missing THEN NoOne ELSE Ghost
  BY DEF Crash, Protected, InUse
<1>2. ProtectedOwns' /\ LateOwnerIsOld'
  BY <1>1 DEF ProtectedOwns, LateOwnerIsOld
<1>3. Orphaned' = (~Missing /\ meta.age <= Expiry)
  BY <1>1, NamesAssumption DEF Orphaned, Missing
<1>4. CASE Protected = {}
  <2>1. Orphaned = (~Missing /\ meta.age <= Expiry)
    BY <1>4 DEF Orphaned
  <2> QED
    BY <1>1, <1>2, <1>3, <1>4, <2>1 DEF Good, Seen
<1>5. ASSUME NEW l \in Protected PROVE Good
  <2>1. Orphaned' = TRUE
    BY <1>3, NamesAssumption DEF ProtectedOwns, Missing, Protected, InUse
  <2> QED
    BY <1>1, <1>2, <1>5, <2>1 DEF Good, Promised!Next, Promised!Die
<1> QED
  BY <1>4, <1>5

\* Every step preserves the invariant and is one of the promised lock, or not
\* seen.
LEMMA NextGood == ASSUME IInv, [Next]_vars PROVE IInv' /\ [Promised!Next]_Seen
<1>1. KInv' /\ ReadIsCurrent'
  BY NextKInv, NextReadIsCurrent DEF IInv
<1>2. CASE UNCHANGED vars
  <2>1. UNCHANGED <<meta, Protected, keeper, lapsed>>
    BY <1>2 DEF vars, Protected, InUse
  <2> QED
    BY <1>1, <2>1, Unseen DEF Good, IInv
<1>3. CASE Next
  BY <1>1, <1>3, AttemptGood, UnlockGood, KeepAliveGood, TickGood, CrashGood DEF Next, Good, IInv
<1> QED
  BY <1>2, <1>3

\* The invariant holds in every reachable state.
LEMMA Invariant == Spec => []IInv
<1>1. IInv /\ [Next]_vars => IInv'
  BY NextGood
<1> QED
  BY <1>1, InitIInv, PTL DEF Spec

-----------------------------------------------------------------------------
\* Whatever the timing and however transactions fail: every variable keeps its
\* type, a transaction is open only where the goroutine is inside its call,
\* and a ticker fires only for a running keepalive (locker.go:126-163).
THEOREM TypeCorrect == Spec => []TypeOK
<1>1. IInv => TypeOK
  BY DEF IInv, KInv
<1> QED
  BY <1>1, Invariant, PTL

\* Of any number of lockers, at most one whose lease has not lapsed is between
\* a TryLock that returned true (locker.go:53-85) and the end of keepalive's
\* transaction in its Unlock (locker.go:149-158).
THEOREM OneHolder == Spec => []MutualExclusion
<1>1. IInv => MutualExclusion
  BY OneProtected DEF IInv, MutualExclusion
<1> QED
  BY <1>1, Invariant, PTL

\* A goroutine that holds the lock on a lease that has not lapsed is the stored
\* owner, and has a keepalive goroutine to answer its Unlock (locker.go:87-90).
THEOREM HolderOwns == Spec => []HolderIsOwner
<1>1. ASSUME IInv, NEW l \in Locker \ lapsed, caller[l] = "holding"
      PROVE  meta.owner = l /\ keeper[l] # "none"
  <2>1. l \in Protected
    BY <1>1 DEF IInv, KInv, KeeperServes, Protected, InUse
  <2> QED
    BY <1>1, <2>1 DEF IInv, ProtectedOwns
<1>2. IInv => HolderIsOwner
  BY <1>1 DEF HolderIsOwner
<1> QED
  BY <1>2, Invariant, PTL

\* Whatever the timing and however transactions fail: the lock changes hands
\* only by its owner's release, or by a TryLock that finds it missing or more
\* than four intervals old when it commits (locker.go:57-77).
THEOREM OwnershipIsOrderly == Spec => OwnershipMovesOnly
<1>1. IInv /\ [Next]_vars => [OwnershipMoves]_vars
  BY StepMovesOwnership DEF IInv
<1> QED
  BY <1>1, Invariant, PTL DEF Spec, OwnershipMovesOnly

\* For any number of lockers and any timing: the key, its age and the keepalive
\* goroutines (locker.go:53-163) are the mutex with a lease that kv.go:14
\* promises, through crashes and errors and the locks they leave behind.
THEOREM LeaseIsMutex == Spec => ImplementsMutex
<1>1. Init => Promised!Init
  BY NamesAssumption DEF Init, Promised!Init, Protected, InUse, Orphaned, Missing
<1>2. IInv /\ [Next]_vars => [Promised!Next]_<<Protected, Orphaned>>
  BY NextGood DEF Seen
<1> QED
  BY <1>1, <1>2, Invariant, PTL DEF Spec, ImplementsMutex, Promised!Spec
=============================================================================
