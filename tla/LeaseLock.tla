----------------------------- MODULE LeaseLock -----------------------------
(***************************************************************************)
(* The lease lock of kv/badger/locker.go.  The lock is one key of the      *)
(* store.  TryLock writes the locker's id there and starts a keepalive     *)
(* goroutine, which rewrites the key once per lease interval; a lock not   *)
(* rewritten for more than four intervals may be taken by anyone else.     *)
(* Unlock hands over to that goroutine through two unbuffered channels: it *)
(* deletes the key, and then lets Unlock return.                           *)
(*                                                                         *)
(* Every access to the key is a transaction of its own: what it reads and  *)
(* what it commits are two steps, and its commit is refused if the key was *)
(* committed in between (see BadgerTx).  kv/tikv/locker.go is the same     *)
(* code, but its transactions do not read this way (see TikvTx: Get asks a *)
(* cache first), so what is said here is said of badger's lock only.       *)
(*                                                                         *)
(* Time is counted in lease intervals, and kept as ages, so that           *)
(* behaviours need no time bound.                                          *)
(***************************************************************************)
EXTENDS Naturals, FiniteSets

CONSTANTS Locker,        \* the badgerLock objects, one user goroutine each
          NoOne,         \* the key is not there
          Ghost          \* id of a locker of a process that has crashed

Expiry == 4              \* "4 * leaseInterval", locker.go:44, 71
Aged == Expiry + 1       \* ages are not told apart from here on

ASSUME NamesAssumption == NoOne \notin Locker /\ Ghost \notin Locker /\ NoOne # Ghost

VARIABLES meta,      \* the stored lockMeta: owner, and age of LastUpdate
          caller,    \* where the goroutine using the locker is
          keeper,    \* where its keepalive goroutine is
          due,       \* the ticker of the keepalive goroutine has fired
          callerTxn, \* the transaction of TryLock
          keeperTxn, \* the transaction of keepalive
          lapsed     \* history, read by no action: the lockers in use whose
                     \* lease was not renewed within four intervals, or whose
                     \* keepalive has ended on an error

vars == <<meta, caller, keeper, due, callerTxn, keeperTxn, lapsed>>

Age == 0..Aged
\* op: what the transaction will do to the key ("fail": getLock returned an
\* error); age: of the LastUpdate it would store; stale: the key has been
\* committed since it was read.
Txn == [op : {"none", "set", "del", "fail"}, age : Age, stale : BOOLEAN]
Doing(op) == [op |-> op, age |-> 0, stale |-> FALSE]
NoTxn == Doing("none")

TypeOK ==
  /\ meta \in [owner : Locker \cup {NoOne, Ghost}, age : Age]
  /\ caller \in [Locker -> {"idle", "trying", "holding", "unlocking", "waiting"}]
  /\ keeper \in [Locker -> {"none", "asleep", "refreshing", "releasing", "handing"}]
  /\ due \in [Locker -> BOOLEAN]
  /\ callerTxn \in [Locker -> Txn]
  /\ keeperTxn \in [Locker -> Txn]
  /\ lapsed \subseteq Locker
  /\ \A l \in Locker : callerTxn[l] # NoTxn => caller[l] = "trying"
  /\ \A l \in Locker : keeperTxn[l] # NoTxn => keeper[l] \in {"refreshing", "releasing"}
  /\ \A l \in Locker : due[l] => keeper[l] # "none"

Init ==
  /\ meta = [owner |-> NoOne, age |-> 0]
  /\ caller = [l \in Locker |-> "idle"]
  /\ keeper = [l \in Locker |-> "none"]
  /\ due = [l \in Locker |-> FALSE]
  /\ callerTxn = [l \in Locker |-> NoTxn]
  /\ keeperTxn = [l \in Locker |-> NoTxn]
  /\ lapsed = {}

-----------------------------------------------------------------------------
Missing == meta.owner = NoOne
\* Mutation: the owner is as good as gone once four intervals have passed.
FreeAtExpiry(l) == Missing \/ (meta.age >= Expiry /\ meta.owner # l)

\* Mutation: a lock that is there is never taken over.
FreeIfMissing(l) == Missing

\* The test of TryLock; a missing key reads as a lock last updated long ago.
Free(l) == Missing \/ (meta.age > Expiry /\ meta.owner # l)

Older(a) == IF a < Aged THEN a + 1 ELSE a

\* A transaction that will write and has read a key committed since.
Overtaken(txns) ==
  [l \in Locker |-> IF txns[l].op \in {"set", "del"}
                    THEN [txns[l] EXCEPT !.stale = TRUE] ELSE txns[l]]
Aging(txns) ==
  [l \in Locker |-> IF txns[l].op = "set"
                    THEN [txns[l] EXCEPT !.age = Older(@)] ELSE txns[l]]

\* The transaction of l's caller, or of its keepalive, ends; if it commits m,
\* every other transaction that has read the key is overtaken.
CallerStores(l, m) == /\ meta' = m
                      /\ callerTxn' = [Overtaken(callerTxn) EXCEPT ![l] = NoTxn]
                      /\ keeperTxn' = Overtaken(keeperTxn)
KeeperStores(l, m) == /\ meta' = m
                      /\ callerTxn' = Overtaken(callerTxn)
                      /\ keeperTxn' = [Overtaken(keeperTxn) EXCEPT ![l] = NoTxn]
KeeperStoresNothing(l) == /\ keeperTxn' = [keeperTxn EXCEPT ![l] = NoTxn]
                          /\ UNCHANGED <<meta, callerTxn>>

\* The goroutines that have the lock: from a TryLock that returned true until
\* keepalive's transaction in Unlock has ended.
InUse == {l \in Locker : caller[l] \in {"holding", "unlocking", "waiting"} /\ keeper[l] # "handing"}

\* A lease is renewed, unless what is stored has already expired.
Renewed(l, age) == lapsed' = IF age > Expiry THEN lapsed \cup {l} ELSE lapsed \ {l}

\* TryLock up to the end of the transaction function.
TryLock(l) ==
  /\ caller[l] = "idle"
  /\ caller' = [caller EXCEPT ![l] = "trying"]
  /\ callerTxn' = [callerTxn EXCEPT ![l] = Doing(IF Free(l) THEN "set" ELSE "none")]
  /\ UNCHANGED <<meta, keeper, due, keeperTxn, lapsed>>

\* Mutation: the commit does not notice that the key has changed.
TryLockBlind(l) ==
  /\ caller[l] = "trying" /\ callerTxn[l].op = "set"
  /\ CallerStores(l, [owner |-> l, age |-> callerTxn[l].age])
  /\ Renewed(l, callerTxn[l].age)
  /\ caller' = [caller EXCEPT ![l] = "holding"]
  /\ keeper' = [keeper EXCEPT ![l] = "asleep"]
  /\ due' = [due EXCEPT ![l] = FALSE]

\* TryLock commits, starts keepalive and returns true.
TryLockWins(l) ==
  /\ caller[l] = "trying" /\ callerTxn[l].op = "set" /\ ~callerTxn[l].stale
  /\ CallerStores(l, [owner |-> l, age |-> callerTxn[l].age])
  /\ Renewed(l, callerTxn[l].age)
  /\ caller' = [caller EXCEPT ![l] = "holding"]
  /\ keeper' = [keeper EXCEPT ![l] = "asleep"]
  /\ due' = [due EXCEPT ![l] = FALSE]

\* TryLock returns false, or the error of a transaction that was refused or
\* has failed for reasons of its own.
TryLockLoses(l) ==
  /\ caller[l] = "trying"
  /\ caller' = [caller EXCEPT ![l] = "idle"]
  /\ callerTxn' = [callerTxn EXCEPT ![l] = NoTxn]
  /\ UNCHANGED <<meta, keeper, due, keeperTxn, lapsed>>

\* The goroutine calls Unlock and blocks on "unlock <-".
Unlock(l) ==
  /\ caller[l] = "holding"
  /\ caller' = [caller EXCEPT ![l] = "unlocking"]
  /\ UNCHANGED <<meta, keeper, due, callerTxn, keeperTxn, lapsed>>

-----------------------------------------------------------------------------
\* Mutation: keepalive does not look whose lock it is.
WantsAnyway(l, op) == IF Missing THEN "fail" ELSE op

\* What keepalive's transaction finds: decoding a missing key is an error,
\* and a lock that someone else has taken is left alone.
Wants(l, op) == IF Missing THEN "fail" ELSE IF meta.owner = l THEN op ELSE "none"

\* "case <-ticker.C": the transaction that renews the lease.
Refresh(l) ==
  /\ keeper[l] = "asleep" /\ due[l]
  /\ keeper' = [keeper EXCEPT ![l] = "refreshing"]
  /\ due' = [due EXCEPT ![l] = FALSE]
  /\ keeperTxn' = [keeperTxn EXCEPT ![l] = Doing(Wants(l, "set"))]
  /\ UNCHANGED <<meta, caller, callerTxn, lapsed>>

\* A renewal that comes late and still finds its own id takes the lock again.
RefreshDone(l) ==
  /\ keeper[l] = "refreshing"
  /\ \/ /\ keeperTxn[l].op = "set" /\ ~keeperTxn[l].stale
        /\ KeeperStores(l, [owner |-> l, age |-> keeperTxn[l].age])
        /\ Renewed(l, keeperTxn[l].age)
     \/ keeperTxn[l].op = "none" /\ KeeperStoresNothing(l) /\ UNCHANGED lapsed
  /\ keeper' = [keeper EXCEPT ![l] = "asleep"]
  /\ UNCHANGED <<caller, due>>

\* "if err != nil { return err }": the goroutine is gone and nobody is told.
RefreshFails(l) ==
  /\ keeper[l] = "refreshing" /\ keeperTxn[l].op # "none"
  /\ keeper' = [keeper EXCEPT ![l] = "none"]
  /\ due' = [due EXCEPT ![l] = FALSE]
  /\ lapsed' = lapsed \cup {l}
  /\ KeeperStoresNothing(l) /\ UNCHANGED caller

\* "case <-b.unlock": the caller is let through to "<-hasUnlocked".
Release(l) ==
  /\ keeper[l] = "asleep" /\ caller[l] = "unlocking"
  /\ keeper' = [keeper EXCEPT ![l] = "releasing"]
  /\ caller' = [caller EXCEPT ![l] = "waiting"]
  /\ keeperTxn' = [keeperTxn EXCEPT ![l] = Doing(Wants(l, "del"))]
  /\ UNCHANGED <<meta, due, callerTxn, lapsed>>

\* Mutation: after an error the loop goes on, and the caller is not answered.
ReleaseResumes(l) ==
  /\ keeper[l] = "releasing"
  /\ \/ /\ keeperTxn[l].op = "del" /\ ~keeperTxn[l].stale
        /\ KeeperStores(l, [owner |-> NoOne, age |-> 0])
        /\ keeper' = [keeper EXCEPT ![l] = "handing"]
     \/ /\ KeeperStoresNothing(l)
        /\ keeper' = [keeper EXCEPT ![l] = "asleep"]
  /\ UNCHANGED <<caller, due, lapsed>>

\* The delete is committed, or the transaction has failed or had nothing to
\* do.  The key may be free now, and Unlock has not returned yet.
ReleaseDone(l) ==
  /\ keeper[l] = "releasing"
  /\ \/ /\ keeperTxn[l].op = "del" /\ ~keeperTxn[l].stale
        /\ KeeperStores(l, [owner |-> NoOne, age |-> 0])
     \/ KeeperStoresNothing(l)
  /\ keeper' = [keeper EXCEPT ![l] = "handing"]
  /\ UNCHANGED <<caller, due, lapsed>>

\* Mutation: the ticker is not stopped when the goroutine ends.
HandOverTicking(l) ==
  /\ keeper[l] = "handing" /\ caller[l] = "waiting"
  /\ keeper' = [keeper EXCEPT ![l] = "none"]
  /\ caller' = [caller EXCEPT ![l] = "idle"]
  /\ lapsed' = lapsed \ {l}
  /\ UNCHANGED <<meta, due, callerTxn, keeperTxn>>

\* "hasUnlocked <-", whatever became of the delete: Unlock returns, and the
\* goroutine ends.
HandOver(l) ==
  /\ keeper[l] = "handing" /\ caller[l] = "waiting"
  /\ keeper' = [keeper EXCEPT ![l] = "none"]
  /\ caller' = [caller EXCEPT ![l] = "idle"]
  /\ due' = [due EXCEPT ![l] = FALSE]
  /\ lapsed' = lapsed \ {l}
  /\ UNCHANGED <<meta, callerTxn, keeperTxn>>

-----------------------------------------------------------------------------
\* One lease interval passes, at any time: nothing bounds how long a commit or
\* a goroutine takes.  A lease stored four intervals ago has now lapsed.
Tick ==
  /\ meta' = IF Missing THEN meta ELSE [meta EXCEPT !.age = Older(@)]
  /\ callerTxn' = Aging(callerTxn)
  /\ keeperTxn' = Aging(keeperTxn)
  /\ due' = [l \in Locker |-> keeper[l] # "none"]
  /\ lapsed' = lapsed \cup {l \in InUse : meta.owner = l /\ meta.age >= Expiry}
  /\ UNCHANGED <<caller, keeper>>

\* The process dies and comes back: the key is on disk, its locker is not.
Crash ==
  /\ meta' = [meta EXCEPT !.owner = IF Missing THEN NoOne ELSE Ghost]
  /\ caller' = [l \in Locker |-> "idle"]
  /\ keeper' = [l \in Locker |-> "none"]
  /\ due' = [l \in Locker |-> FALSE]
  /\ callerTxn' = [l \in Locker |-> NoTxn]
  /\ keeperTxn' = [l \in Locker |-> NoTxn]
  /\ lapsed' = {}

Attempt(l) == TryLock(l) \/ TryLockWins(l) \/ TryLockLoses(l)
KeepAlive(l) == \/ Refresh(l) \/ RefreshDone(l) \/ RefreshFails(l)
                \/ Release(l) \/ ReleaseDone(l) \/ HandOver(l)

Next == \/ \E l \in Locker : Attempt(l) \/ Unlock(l) \/ KeepAlive(l)
        \/ Tick
        \/ Crash

Spec == Init /\ [][Next]_vars

\* Time passes and goroutines run.  The select of keepalive picks among its
\* ready cases at random, so a caller waiting in Unlock is not passed over for
\* ever in favour of the ticker.
FairSpec ==
  /\ Spec
  /\ WF_vars(Tick)
  /\ \A l \in Locker :
       /\ WF_vars(TryLockWins(l) \/ TryLockLoses(l))
       /\ WF_vars(Refresh(l))
       /\ WF_vars(RefreshDone(l) \/ RefreshFails(l))
       /\ SF_vars(Release(l))
       /\ WF_vars(ReleaseDone(l))
       /\ WF_vars(HandOver(l))

-----------------------------------------------------------------------------
\* What a locker relies on: it has the lock, its lease has been renewed in
\* time, and the goroutine that renews it runs.
Protected == InUse \ lapsed

\* At most one goroutine whose lease has not lapsed is between a TryLock that
\* returned true (locker.go:53-85) and the end of keepalive's transaction in
\* its Unlock (locker.go:149-158).
MutualExclusion == \A l, m \in Protected : l = m

\* The key while nobody has the lock and its lease still keeps it from
\* everybody: it was left by a crash, an error of keepalive, or an Unlock
\* whose delete failed.
Orphaned == ~Missing /\ meta.age <= Expiry /\ meta.owner \notin Protected

Promised == INSTANCE Mutex WITH User <- Locker, holders <- Protected, lost <- Orphaned

\* The key, the clock and the keepalive goroutines are a mutex with a lease:
\* TryLock succeeds only while nobody whose lease is running is before the end
\* of keepalive's transaction in its Unlock, and a lock that was left behind is
\* taken only when its lease is over (locker.go:53-158).  Unlock itself returns
\* a little later (159, 89), when another TryLock may have succeeded already.
ImplementsMutex == Promised!Spec

\* A goroutine that holds the lock on a lease that has not lapsed is the stored
\* owner, and has a keepalive goroutine to answer its Unlock (locker.go:87-90).
HolderIsOwner ==
  \A l \in Locker \ lapsed :
    caller[l] = "holding" => meta.owner = l /\ keeper[l] # "none"

\* The lock leaves an owner only because that owner's keepalive deleted it, or
\* because it is more than four intervals old at the moment another locker's
\* TryLock commits; and only a TryLock gives it to a new owner, so a late
\* refresh does not bring back a lock that was lost to another (locker.go:57-158).
Holds(l) == caller[l] = "holding"
OwnershipMoves ==
  meta'.owner # meta.owner =>
    \/ Missing /\ \E l \in Locker : meta'.owner = l /\ Holds(l)' /\ ~Holds(l)
    \/ \E l \in Locker : meta.owner = l /\ meta'.owner = NoOne /\ keeper[l] = "releasing"
    \/ meta.age > Expiry /\ \E l \in Locker : meta'.owner = l /\ Holds(l)' /\ ~Holds(l)
    \/ meta'.owner = Ghost
OwnershipMovesOnly == [][OwnershipMoves]_vars

\* A lock whose keepalive goroutine is gone (a crash, an error in
\* locker.go:145-147, a delete that failed in 149-158) becomes free for every
\* other locker.
Abandoned == ~Missing /\ \A l \in Locker : meta.owner = l => keeper[l] = "none"
AbandonedLockExpires == Abandoned ~> \A l \in Locker : meta.owner # l => Free(l)

\* Whoever calls Unlock (locker.go:87-90) gets to return, late or not and even
\* if its lock was taken over or the delete fails, unless keepalive has ended
\* on the error of a refresh: then nobody is left to receive from it.
UnlockReturns ==
  \A l \in Locker :
    caller[l] \in {"unlocking", "waiting"} ~> caller[l] = "idle" \/ keeper[l] = "none"
=============================================================================
