# A TLA+ model of the myjson database

myjson (`src/`) is a document database on top of a transactional key-value
store.  This directory models its storage providers, its lock, its document
transactions with their indexes, its queries from the scan to the page, its
record of changes with time travel and change streams, the configuration of its
collections and the life of its goroutines; TLC checks the modules on small
instances.  TLAPS proves, for all sizes, the safety of both providers, of badger's
lock, of documents with their indexes, of query scans, of changes and time travel, of
the configuration and of closing the database, what aggregates come to, and that the
badger provider, its lock and the document layer implement their abstract
specifications.  Where the code does less than its documentation says, the abstract
specification or the property says so in so many words, or a run exhibits it.

Line references are to `src/`.  `PROJECT.json` relates every definition to the
lines it stands for.

## 1. The system

| part | state it keeps | operations | talks to |
|---|---|---|---|
| kv interfaces, `kv/kv.go` | - | `DB`, `Tx`, `Locker`, `Iterator`, `CDC` | - |
| badger provider, `kv/badger` | badger store; per transaction: badger txn or write batch, recorded entries | `NewTx`, `Get`, `NewIterator`, `Set`, `Delete`, `Commit`, `Rollback`, `Close`, `DropPrefix`, `ChangeStream` | badger (library), `machine` (in-process publish/subscribe) |
| tikv provider, `kv/tikv` | TiKV, a Redis cache; per transaction: TiKV txn, recorded entries | the same | TiKV, Redis (key cache and publish/subscribe) |
| badger locker, `kv/badger/locker.go` | one key of the store; per locker a keepalive goroutine and two channels | `TryLock`, `IsLocked`, `Unlock` | the provider's transactions, `time.Ticker` |
| tikv locker, `kv/tikv/locker.go` | the same code over another provider | the same | tikv transactions and, through their `Get`, Redis |
| document transactions, `tx.go`, `tx_util.go` | `transaction`: kv transaction, ids known to exist, recorded changes, a javascript machine | `Get`, `Create`, `Set`, `Update`, `Delete`, `Query`, `ForEach`, `Cmd`, `TimeTravel`, `Revert`, `Commit`, `Rollback` | a provider, the cached schemas, the optimizer |
| index keys and optimizer, `indexing.go`, `optimizer.go`, `util/util.go` | - (pure) | `seekPrefix`, `Optimize`, `EncodeIndexValue` | schemas |
| filter, aggregation, ordering, paging, `document.go`, `util.go`, `tx.go` | - (pure) | `Where`, `orderByDocs`, `groupByDocs`, `aggregateDocs`, `docsHaving` | - |
| change data capture, `tx_util.go`, `document.go`, `db.go` | the collection `system_cdc`; subscriptions | `Diff`, `ApplyOps`, `RevertOps`, `TimeTravel`, `Revert`, `ChangeStream` | document transactions, a provider's change stream |
| configuration, `db.go`, `db_util.go`, `dag.go` | stored configurations, cache `d.collections`, graph `d.collectionDag` | `Plan`, `ConfigurePlan`, `Configure`, `Open`, the refresher | locker, provider, document transactions |
| database, `db.go` | `vmPool`, context, wait group | `Open`, `NewTx`, `Tx`, `Close`, two goroutines | all of the above |
| schemas, `schema.go` | parsed YAML | loading, validation | - |
| authorization, `authorization.go` | - | evaluates rules in javascript | javascript machine |
| scripting, metadata, errors, builders, registry | - | - | - |

A document is stored under `collection / primary index / id`.  Every secondary
index has one further key per document: `collection / index / field / value / id`.
All of these go through *one* key-value transaction, so the document layer
inherits its atomicity; what can still go wrong is what it decides from reads
that the provider does not remember as read, and the order in which it writes.

### What is hard

* **Transactions of several goroutines interleave at every call.**  badger
  compares the commit timestamps of the keys a transaction *visited* with its
  read timestamp.  A scan that meets nothing visits nothing: phantoms are not
  noticed.  The document layer relies on scans for unique values and cascades.
* **Commit and announcement are separate steps** (both providers), and so are,
  for TiKV, commit and cache.  Redis is asked before the transaction's own
  snapshot and writes.
* **Lease locks**: refresh, takeover and release are transactions of their own
  whose reads and commits interleave; time passes in between; a process may die.
* **Three copies of the configuration** (store, cache, graph), changed by calls
  of `Configure` under a lock per collection, copied by a ticker without the
  lock, and rebuilt, in part, when the store is opened again.
* **A bounded channel** that all transactions drain and one goroutine fills, and
  `Close`, which must get both goroutines to end.
* **Pure decisions with corner cases**: which index, which prefix, which
  starting point; a comparison that is none where a field is missing; a slice that
  shrinks while it is ranged over.
* **A history that is written for one purpose and read for another**: the recorded
  difference is that of the command's document, not of what is stored; undoing it
  only assigns; its order is that of clock readings.
* **An error that is dropped**: the lookup before every change ignores why it
  failed, so that what a user may not query looks new.

The full list, with lines and the properties that cover each entry, is under
`hazards` in `PROJECT.json`.

### What makes each part correct

These are the properties the modules state.  Several hold with exceptions, which are
part of the formulas; section 3 lists them all.

* badger provider: serializable, up to phantoms (committed transactions saw what
  the store still holds for every key they visited); an aborted transaction leaves
  no trace, unless it is a batch that has gone out in parts; every version that a
  committed transaction put into the store is on the change stream, in order, and
  nothing of uncommitted transactions is; a refused deletion may be, too.
* tikv provider: no value is read that was never committed; the cache is stale
  only for known reasons; no change is announced that was not committed.
* badger locker: one holder at a time among those whose lease has not lapsed; a lock
  changes hands only by release or expiry; an abandoned one becomes free; `Unlock`
  returns unless a refresh has failed.
* document transactions: a document is in an index under the value its last write
  gave, or under none if that left the field out; what is decided from indexes is
  what the documents call for, as far as their fields were given; no document that
  was there at the beginning is overwritten unseen; no reference is committed that
  was given and dangles.
* queries: where the plan can be trusted, the scan returns what a full filter would;
  where the order decides, pages are disjoint, complete and in order; every document
  is in one group, and aggregates are right, maximum and minimum as far as they start
  from 0.
* changes: undoing changes restores the values of an earlier version (and does not
  take away what was added since); replaying differences goes forward, but for
  updates; immutable values stay, but for create; a subscriber gets each committed
  change once, in order, and in the end.
* configuration: a successful call that is not disturbed has done what was asked;
  `system_cdc` is never lost; the cache follows the store, but for the ticker's window.
* database: the store is closed after the goroutines of `Open` are gone; nobody waits
  for ever without a stated reason.

## 2. The modules

| module | models | extends / uses |
|---|---|---|
| `AtomicKV` | what `kv/kv.go` promises, but for batches: an abstract atomic store | - |
| `BadgerTx` | the badger provider | refines `AtomicKV` |
| `BadgerTxProofs` | theorems about it | `BadgerTx`, `TLAPS` |
| `Mutex` | what `kv/kv.go` promises of a `Locker`: an abstract mutex with a lease | - |
| `LeaseLock` | badger's lease lock | refines `Mutex` |
| `LeaseLockProofs` | theorems about it | `LeaseLock`, `TLAPS` |
| `TikvTx` | the tikv provider with Redis | - |
| `TikvTxProofs` | theorems about it | `TikvTx`, `TLAPS` |
| `DocSchema` | collections, documents, indexes, reachability | - |
| `DocStore` | documents without indexes: the abstract document store | `DocSchema` |
| `DocTx` | document transactions with indexes over a serializable-but-for-phantoms store | `DocSchema`, refines `DocStore` |
| `DocTxProofs` | theorems about it | `DocTx`, `TLAPS` |
| `QueryScan` | optimizer, key encoding, scan range, filter | - |
| `QueryPages` | ordering, pages, groups, aggregates, the filter of groups | `QueryScan` |
| `QueryProofs` | theorems about both | `QueryPages`, `TLAPS` |
| `Changes` | recorded changes, time travel, authorization decisions, change streams | - |
| `ChangesProofs` | theorems about it | `Changes`, `TLAPS` |
| `Configure` | plans, their application, cache, graph, refresher, restart | - |
| `ConfigureProofs` | theorems about it | `Configure`, `TLAPS` |
| `DbLifecycle` | the goroutines of a database, its pool, `Close` | - |
| `DbLifecycleProofs` | theorems about it | `DbLifecycle`, `TLAPS` |
| `MC...` | constants of the runs | the module of that name |

How they fit: `AtomicKV` is what a provider promises, and `BadgerTx` is shown to
keep the promise with the exception that `AtomicKV` makes of batches.  `LeaseLock` and `DocTx` are written over that promise: each
of their transactions reads in one step and commits in another, and the commit
is refused if a key that was visited has been committed in between.  `Configure`
uses the lock of every collection as a `Mutex`, and `LeaseLock` implements a `Mutex`
for those whose lease has not lapsed (both are proved); the documents it leaves to
`DocTx`.
`Changes` looks at the same transactions as `DocTx` from another side: it keeps the
conflict check and the publishing loop, drops indexes and foreign keys, and adds what
is recorded.
`QueryPages` starts from what `QueryScan` finds, for every plan it may choose.

Definitions marked "Mutation" are variants of the definition next to them with
one plausible mistake.  No specification uses them; each run's properties are
known to fail when the definition is replaced by its variant.

### BadgerTx

One handle per element of `Tx`, one action per method.  `status` is the life of
the handle, `mode` is `kv.TxOpts`.  `snap` and `readTs` are badger's; a batch
has neither until its first read (`EnsureTxn`, the lazy `b.txn == nil`).  `reads`
are the keys badger records: keys asked for by `Get` that the transaction has not
itself written, and keys that are *there* in a scanned range.  `Commit` installs,
then `Publish` sends the recorded entries one by one, then `CommitReturns`.  A
write batch that is full flushes itself (`Flushed`).  `DropPrefix` removes every
version.  `Delete` records its entry before badger may refuse it, as in the code.
`installed` is history: the versions of every key that a transaction has put into
the store, by flushes and by its commit.

`kv/kv.go:51` says that `Rollback` rolls back any changes made by the transaction.
Of a batch that has flushed (`kv/badger/tx.go:65`) that is not so.  `AtomicKV` has an
action for it, `FlushAndWrite`, and is the promise of `kv/kv.go` without that action;
`Serializable` is to be read with this exception.
Phantoms: `NewIterator` does not put absent keys in `reads`, so `AtomicKV` speaks
of the keys read and no more.

### Mutex

A lock with no key, clock or goroutine: `Acquire` is a `TryLock` that returns true,
`Release` the point in `Unlock` from which the lock is no longer its user's.  `Die` is
the end of a user who does not give it back, which leaves the lock `lost` until its
lease ends (`Expire`).  A `TryLock` may return false at any time.

### LeaseLock

One locker per element of `Locker`, with its user goroutine (`caller`) and its
keepalive goroutine (`keeper`); `callerTxn` and `keeperTxn` are their
transactions between read and commit.  `meta` is the stored record, its time kept
as an age in lease intervals: the code compares only with four of them.  `Tick`
is one interval, and any number of them may pass between any two steps.  `Crash` is
the death of the process: records stay, with an owner that no longer exists.

`Unlock` takes three steps of keepalive: `Release` (the caller is let through to its
second channel operation, the transaction has read), `ReleaseDone` (it has committed
the delete, or has failed) and `HandOver` (`Unlock` returns).  Between the last two the
key may be gone, and another `TryLock` may return true before this `Unlock` has
returned.  As a `Mutex`, the lock is therefore held from the commit of a `TryLock` to
`ReleaseDone` (`InUse`), by those whose lease has not lapsed (`Protected`).  `lapsed` is
history: the users whose lease has run out before it was renewed, and those whose
keepalive has ended on an error.  A key that nobody `Protected` owns and that has not
expired is what a crash, an error or a failed delete has left behind (`Orphaned`).

The module is about badger's lock.  `kv/tikv/locker.go` is the same code, but `Get` of
its transactions asks Redis before the snapshot (`kv/tikv/tx.go:46-51`), Redis is filled
after the commit (`116`), and TiKV checks what is written, not what was read: what
`LeaseLock` takes for granted of a transaction is not so there, and nothing is claimed
for it.

### TikvTx

Like `BadgerTx`, without reads (TiKV detects write conflicts only) and with the
Redis cache: `Got` is what `Get` returns, `Delete` takes a key out of the cache
at once, `MSet` stores what a commit wrote, after publishing.  `past` and
`suspect` are history: values each key has had, and keys the cache may be wrong
about, with each of the three reasons added where it arises.  `entries` and
`pending` are kept after the commit, as history, though the code drops them.

### DocSchema, DocStore, DocTx

Documents are functions from indexed fields to values or `Absent`; other fields
do not matter here.  A transaction holds its own view of documents and index
entries, the keys it has visited and written, and the keys others committed since
it began (`dirty`), which is what the provider's conflict check amounts to.  One
action per operation, with everything `persistCommand` does: lookup of the
previous version, foreign keys, unique scans, index entries, `transaction.docs`,
cascades.  `Longer` maps a value to the values a scan with its prefix runs into,
itself included.

`Update` takes any set of fields (`model.go:217`): the merged document is stored, and
the partial one is indexed (`tx_util.go:369`), so that a field that was left out keeps
its value and loses its entry.  The history `given` is what the last write of each
document said; a field is *left out* where it differs from the document.  The history
`blind` has the documents that a transaction created while another one did.

`DocStore` says what this amounts to, for any number of transactions: a `Put` or
`Patch` requires that no other document in view was given the unique values it gives,
and that the references it gives exist; a `Remove` removes everything reachable
through foreign keys that were given, and nothing that is not reachable through those
that are stored; a commit installs what was written.

### QueryScan

Keys are sequences of tokens, ordered as the store orders them; the only
variable is the content of a collection.  `Plans` is `Optimize`, with one plan per
index it may take, since Go iterates a map in any order.  `Found` is `queryScan`:
the keys between the starting point and the end of the prefix, filtered.

### QueryPages

Operators over the documents `QueryScan` finds.  `Precedes` is the comparison
given to `sort.Slice`; where it is an ordering of the documents at hand the result
is any sequence that respects it (the sort is not stable), and any permutation
where it is not.  `Pages` is the set of pages that may come out.  `Group` appends the
rows with the same values one by one, as `groupByDocs` does; `Aggregate` folds
`applyAggregates` over them from 0.  `Having` follows `docsHaving` with the array
below the slice: removing moves the later elements down in the array that the loop
still walks through to its original end.  No run checks a property of it, since it is
the reverse of what `model.go:99` announces ("Having applies a final filter after any
aggregations have occured"); a theorem says what it does.

### Changes

`docs` and `log` are what is committed: documents, and the documents of
`system_cdc` in commit order.  A transaction works on copies of both, as they were
when it began, plus `own`, its own changes.  `Persist` is `persistCommand`: the
lookup before (`Before`, which a denied query turns into nothing), authorization,
the new document, the record with the difference and the clock's reading.  What
differs between the operations is the command's document and the stored one; they
are the same for create and set, and for update the first is the partial document.
`TimeTravel` undoes the changes since a time, in an order of which only the times
decide; `Revert` sets the result.  `Commit`, `Publish` and `CommitReturns` are those
of `BadgerTx`, with the loop's messages going to every subscriber's queue.
`Deliver` is the callback of `ChangeStream`.  `Allowed` is the decision of
`authorization.go` with the match scripts as sets of actors.  `new`, `blind` (who
changed the document could not query it), `saw` (the changes of the document
committed or made before, by name), `after` and `from` are history.

### Configure

`config`, `cache` and `dag` are the three copies.  A call goes through `Plan`,
`Resolve` (from plan to schemas, drops and their order), then for every collection
`Lock`, `Persist` (store) and `Store` (cache), then `ReadBack` and `SetDag`.  The
ticker is `Tick`, one `TickReads` per cached collection, `TickEnds`.  `Crash`
loses cache, graph and calls; `Open` rebuilds the graph.  `Fail` is any error of
store or lock.  A schema is its foreign keys, a text, and whether it contains
empty objects: `Document.Diff` does not see those (`document.go:602-612`), so a
created collection loses them and always differs from what was asked for.

### DbLifecycle

`producer` and `refresher` are the goroutines of `Open`; a client's `NewTx` blocks
in `Receive`; `Close` is `Close`, `Drain`, `CloseKv`.  `Cancel` is the caller of
`Open` cancelling the context.

## 3. The runs

| run | question | bounds |
|---|---|---|
| `badger` | does the provider implement `AtomicKV`; is comparing timestamps as good as comparing values; is everything committed announced, and nothing else | 2 transactions of all modes, 2 keys, 2 values, 3 mutations in all and at most 2 each (the constraint `Few`), batches flush at 1, drops of both keys |
| `lock` | does the lock implement `Mutex`, for whom; who may take it over; does `Unlock` return | 2 lockers and the ghost of a third, any delay, failing transactions, crashes |
| `tikv` | cache and stream | 2 transactions, 2 keys, 2 values, 2 mutations each, 1 drop of one key or both |
| `doc_serial` | indexes against documents, refinement of `DocStore` | 1 transaction at a time, repeatedly, 3 operations each; 3 collections in a chain of foreign keys, 4 documents, one unique field, of whose two values one begins the other; updates of the name alone or the account alone |
| `doc_concurrent` | lost updates, dangling references, stale entries | 2 transactions, 2 operations each, users owned by an account, updates that leave the account out |
| `query` | does a scan find exactly what a filter finds; what pages and groups are made of it | 2 documents, 2 fields with a negative number, 0, 1 or nothing, 4 indexes, all queries of up to 2 conditions; pages of 1 and 2, 5 orderings |
| `changes` | does time travel restore, does replay rebuild, do immutable values stay; what does a change stream deliver, in which order | 2 transactions (2 operations by the owner, 1 by either user), 2 collections, 1 id, 2 fields (one with a default and x-immutable), 1 subscriber |
| `configure` | copies of the configuration, success of a call | 2 callers, 2 calls, 4 wanted sets of schemas, 1 crash |
| `lifecycle` | order of shutdown, waiting | 2 clients, 2 closers, pool of 2 |
| `changes_travel` | (violation) does time travel return the document of that time | as `changes`, with documents that do not have every field, and a clock in steps of 2 so that there is a time between two changes |
| `doc_duplicates` | (violation) is a unique field unique | 2 transactions, 1 operation each |
| `configure_reopen` | (violation) is what was configured served after a restart | 1 call, 1 restart |

**Bounds.**  `MaxEntries`, `MaxOps`, `MaxCalls`, `MaxCrashes`, `MaxDrops`,
`MaxTime` and `MaxWhere` are guards that bound counters; `MaxLimit` bounds what the
pure operators are applied to.  `MaxPending` is badger's own limit,
made small so that batches flush.  Two transactions
are enough for every conflict the provider detects, since each is between one
committer and one reader; the proof covers any number.  Three collections are the
shortest chain on which a cascade has to be followed twice.  Two lockers race for a
lock that either of them, or a process that has died, may have left behind; the proofs
are for any number.  A pool of two has an empty, a part-filled and a full
state.  Two conditions are enough to have one match and one seek, or two on one
field.  Pages need two documents to overlap.  In `changes`, two operations of
one transaction and one of another, in any order, give up to three changes of a
document: enough to create, change and revert it, to have someone else's change in
between, and to have two commits publish at once.  Its clock advances with every
change (`Ticks`), so equal times are modelled but not met in the run; the
properties do not speak of them.

**Deadlock** is not checked where transactions and calls are bounded in number
and simply end (`badger`, `tikv`, `doc_*`, `changes`, `configure*`) and in
`lifecycle`, where everything may be closed.

**Fairness.**  `LeaseLock!FairSpec`: time passes; a goroutine that can run does;
`Release` is strongly fair because Go's `select` picks a ready case at random, so
an `Unlock` that waits is not passed over for ever in favour of the ticker.
Nobody is obliged to call `TryLock` or `Unlock`.  `DbLifecycle!FairSpec`: the
goroutines run; receivers are strongly fair because Go queues them first-in
first-out; the refresher's `select` does not prefer the ticker for ever once the
context is done.  Clients are not obliged to begin or end transactions, and nobody
is obliged to cancel or close.  `Changes!Fairness`: a publishing loop that has
something to send goes on, in the goroutine that called `Commit`, and a
subscriber's loop takes what is queued for it, in the goroutine that called
`ChangeStream`; the handlers are assumed to return.

**What the violations show.**

* `changes_travel`: a document is created without a field, set with it later, and one
  travels to the time in between.  Undoing the set should take the field away, but
  `RevertOps` skips a former value that is nothing (`document.go:584`), so the field
  stays, and `Revert` stores it.  `api.go:146` says: "TimeTravel sets the document to
  the value it was at the given timestamp."
* `doc_duplicates`: two transactions create documents with the same unique value.
  Each scans the index and finds nothing, nothing is recorded as read, and both
  commit.  `README.md:151` promises uniqueness.
* `configure_reopen`: after `Configure`, a crash and `Open`, the stored collection
  is in the graph but not in the cache, and no operation knows it.  Nothing puts
  it back: the ticker refreshes cached collections only, and, finding none, sets
  the graph to the empty one; `Configure` of the same schemas then creates them
  anew.

**What the passing properties leave out on purpose**, each because the code does not
have the property without it (most were found by running TLC without it).  They
are exceptions in the formulas; the inputs of the runs include the excepted cases
unless it says otherwise here.

* `Serializable` refers to an `AtomicKV` in which a batch may go out in parts that
  are not taken back.  `kv/kv.go:51` promises that `Rollback` takes back any changes
  (`kv/badger/tx.go:65`).
* `InstalledIsAnnounced` allows deletions to be announced that badger refused
  (`kv/badger/tx.go:84`).
* `IndexCoversDocuments` has a document in an index under no value if its last write
  left the field out: `Update` stores the merged document and indexes the partial one
  (`tx_util.go:369`).  `src/README.md:157`, "the value of the field is indexed", does
  not hold of it: a query through that index does not find the document.
* `EntriesAreOfDocuments` excepts entries without a value, which an update leaves and
  nothing removes once the field is given again, and documents created twice at once,
  of which the entries of the overwritten creation stay.
* The prefix that is scanned for a unique value has no closing separator
  (`tx_util.go:351`), so a write whose value begins another one's is refused as a
  duplicate.  `DocStore` allows a write to be refused for any reason.
* `ReferencesHoldAtCommit` speaks of the transaction that writes the reference, and of
  references its write gave.  A transaction that deletes the referred document and
  commits later leaves an orphan, and so does a cascade along a field that an update
  has left out.
* `NoUpdateIsLost` speaks of documents that were there when the transaction began: of
  two concurrent creations of one id both commit, and the second overwrites the first
  without having seen it, since an absent key leaves no trace in a scan
  (`tx_util.go:181`).  `blind` records where that has happened.
* `DocStore!Remove` deletes along all foreign keys: `cascadeDelete` does not look
  at the cascade flag (`tx_util.go:274`).  It follows what was given: a field that an
  update left out does not lead to the document.
* `ImplementsMutex` and `HolderIsOwner` speak of those whose lease has not lapsed.  One
  whose lease has lapsed is not told, and may believe it holds a lock that another has
  taken (`kv/badger/locker.go:134`).  The lock is free from the commit of the delete
  on, a little before `Unlock` returns.
* `UnlockReturns` allows `Unlock` to block for ever once keepalive has ended on the
  error of a refresh (`kv/badger/locker.go:145`, `88`).
* `QueryFindsAll` is limited to `Trusted` plans.  Documents are missed otherwise if
  the index names a field twice, or is used with a gap (`optimizer.go:60`), or a field
  used has two conditions (`optimizer.go:99-107`), or the scan runs backwards
  (`optimizer.go:69-74`), or what is sought is at or below 0: then a document without
  the field passes the filter, where it counts as 0, and has no key to be found by.
* `PagesPartition` asks for an order that decides and fields that are there, or for
  one plan.  The optimizer may take different indexes for two pages, and the
  comparison of a number with nothing is not the reverse of that of nothing with a
  number (`util.go:60-75`).
* `AggregatesAreRight` speaks of a maximum only if it is not below 0 and of a
  minimum only if it is not above: both start from 0 (`util.go:190-205`).
* No property speaks of the filter of groups.  `docsHaving` removes the rows that pass
  (`tx.go:352`), the reverse of `model.go:99`; with several that pass it skips some, or
  panics.  Theorem `HavingIsTurnedRound` says so.
* `TimeTravelRestores` and `ReplayRebuilds` speak of changes that were made knowing
  all earlier ones of the document (`Informed`).  Two concurrent creations of one id
  break the chain, and so does a user who may change but not query
  (`tx_util.go:180`).  `TimeTravelRestores` is the half of `api.go:146` that holds: what
  the version of that time had has its value again.  That nothing else is there does
  not hold (`changes_travel`).  Of an update the record says that the fields it left
  out were removed (`tx_util.go:243`), so `ReplayRebuilds` does not speak of updates.
* `FixedFieldsStay` does not speak of create, which replaces a document that exists,
  immutable values and all (`tx_util.go:88-119`), nor of users who may not query.
* `DeliveredInOrder` allows two commits the wrong way round if the second began
  before the first had returned.
* `CloseReturnsUnlessDry` allows `Close` to wait for ever on an empty pool that
  the producer has left.
* `CacheFollowsStore` allows the refresher's read-then-store race.
* `StaleOnlyIfSuspect` allows a stale cache for each of three reasons: overlapping
  commits, a failed `MSet`, a dropped range.

## 4. The proofs

`BadgerTxProofs`, for any sets of keys, values and transactions and any bounds,
from the assumptions of `BadgerTx` (`Nil` and `NoWrite` are not values, ranges are
sets of keys, bounds are natural numbers):

* `TypeCorrect`: `Spec => []TypeOK`.
* `SnapshotsAreCurrent`: `Spec => []SnapshotCurrent`.  A version no newer than a
  transaction's read timestamp is the one in its snapshot.
* `Refinement`: `Spec => Serializable`, that is, the provider implements
  `AtomicKV`, with its exception for batches.
* `StreamIsOfCommitted`: `Spec => []StreamOfCommitted`, and
  `InstalledAreAnnounced`: `Spec => []InstalledIsAnnounced`.

*Argument.*  `SnapshotCurrent` is what makes the timestamp check sound: `Conflict`
looks at timestamps, `AtomicKV!Commit` at values.  It is not inductive alone.  A
commit gives its keys the timestamp `clock + 1`, which must be above every read
timestamp: `TimestampsBehindClock`.  The refinement further needs that a "write"
transaction that is open has a snapshot (`StartedUnlessBatch`), and that nothing is
buffered where the abstract store would not write: before a transaction is open,
after it was given up, or in a read-only one (`IdleBuffers`).  `IInv` is the
conjunction with `TypeOK`.  One lemma per group of actions shows that it maps to the
abstract action or to a stutter; `StepRefines` puts them together.

The stream is spoken of by positions: `PublishedPrefix` says that a transaction's
messages are as many of its entries as it has sent, at increasing places, which is
`StreamOfCommitted` with the number named.  `Recorded` says that the
versions of a key that a transaction has installed, and the one that is buffered if
there is one, are among its entries in their order, with refused deletions at most
behind them (`RecordedIn`); a flush moves a version from the buffer to the installed
ones and leaves that sequence as it is (`Versions`).  Together they give
`InstalledIsAnnounced`.

`LeaseLockProofs`, for any set of lockers, any delay, any failures and crashes, from the
one assumption of `LeaseLock`, that names differ:

* `TypeCorrect`: `Spec => []TypeOK`.
* `OwnershipIsOrderly`: `Spec => OwnershipMovesOnly`.
* `OneHolder`: `Spec => []MutualExclusion`, and `HolderOwns`: `Spec => []HolderIsOwner`,
  both about lockers whose lease has not lapsed.
* `LeaseIsMutex`: `Spec => ImplementsMutex`.

*Argument.*  `MutualExclusion` speaks of users only.  What makes it true is that a user
on a lease that has not lapsed has a keepalive goroutine and is the stored owner of a
key that has not expired (`ProtectedOwns`); two of them would be the owner of one key.
That can be lost in two ways.  A `TryLock` that commits has read a key that is missing
or expired, and still is: any commit since would have overtaken it, and time makes an
expired lock only more so (`ReadIsCurrent`).  Or a late refresh takes a lapsed lock
again; but then its key had expired, so that no other user is protected by it
(`LateOwnerIsOld`).  `OwnershipMovesOnly` follows from `ReadIsCurrent` alone.  In the
refinement, the delete in `ReleaseDone` is the mutex's `Release`, and so is the lapse of
a lease; `HandOver`, the return of `Unlock`, is a stutter.

`TikvTxProofs`, for any keys, values, transactions, ranges and bounds, from the
assumptions of `TikvTx`:

* `TypeCorrect`: `Spec => []TypeOK`.
* `ReadsAreCommitted`: `Spec => []NoDirtyRead`.
* `CacheIsRight`: `Spec => []StaleOnlyIfSuspect`.
* `StreamIsOfCommitted`: `Spec => []StreamOfCommitted`.

*Argument.*  Commit sends two things: to TiKV what was buffered, to Redis what the
last entry of each key says.  `Recorded` says that they agree, by position in
`entries` and without a recursion over them; even the types need it, since a value
goes to Redis.  `ReadsAreOld` follows every place a read may come from (TiKV, the
cache, snapshots, commits on their way) back to `past`.  `StaleOnlyIfSuspect` needs
`InFlightIsCurrent`: unless a key is suspect, a commit on its way for it carries
what TiKV has, so that the `MSet` that ends it leaves the cache right.

`DocTxProofs`, for any collections, documents, indexes, inputs and transactions,
from the assumptions of `DocSchema` and `DocTx` (foreign keys make no cycle, which
`dag.go` sees to; ids are values):

* `TypeCorrect`: `Spec => []TypeOK`.
* `KnownIdsAreThere`: `Spec => []KnownIdsExist`.
* `UpdatesAreKept`: `Spec => NoUpdateIsLost`.
* `IndexesCoverDocuments`: `Spec => []IndexCoversDocuments`.
* `ReferencesHold`: `Spec => ReferencesHoldAtCommit`.
* `EntriesHaveDocuments`: `Spec => []EntriesAreOfDocuments`.
* `ImplementsDocuments`: `Spec => ImplementsDocStore`.
* `UniqueAlone`: `Spec => []UniqueUnlessLeftOut`, assuming `Alone` (one transaction at a
  time).

All but the last hold for any number of concurrent transactions, and all of them for
updates of any set of fields.  `Alone` is needed for uniqueness (`doc_duplicates`).

*Argument.*  Three facts make a commit safe.  A document that a transaction has not
written looks as it did at its beginning, and one that was there then and is
written has been visited (`Sound`).  A document that nobody has committed since is
still what it was (`Current`).  A commit with a visited key that is dirty is
refused.  The second half of `Sound` has a subtle case: a document that the
transaction itself has deleted is written again without a visit, and it is the
deletion that visited it.

For the indexes the documents to look at are those of `given`: what the last write of
each one said.  They agree with the stored ones but for fields left out (`Agree`).  A
transaction keeps what it was given covered by entries (`Indexed`), and writes a document
together with all its entries and an entry only with its document, so that a commit leaves
the store covered.  For references, `RefersToSeen` says that what a written document was
given as a reference is in view and has been visited, or written by the transaction itself;
a cascade keeps this because what it deletes is closed under given references
(`DoomedClosed`), and the index that it follows covers what was given.  That rests on what
`Reach` computes: closed under the relation it follows, if that relation leads upwards in
a numbering of the collections (`ReachClosed`), by induction over the rounds of its
recursive function.

No entry with a value is other than what its document was given (`Exact`), in every view
and in the store, because a transaction that writes a document writes the entries of the
version it began with (`Swept`); a commit can only go wrong over a version it has not
seen, and that is what `blind` records.  Unique values of one transaction at a time are
distinct among what was given (`Distinct`), its view being the store but for what it has
written (`Untouched`).  For the refinement, a step maps to the step of `DocStore` of the
same kind, or to a stutter; it needs no `Alone`, since `DocStore` says of each transaction
what it may do in its own view, and what a commit installs.

`ConfigureProofs`, for any collections, schemas, callers and bounds, from the
assumptions of `Configure`:

* `TypeCorrect`, with the part that no schema with empty objects gets into the
  store; inductive with `AllWhole`, which says the same of the cache, of plans, and
  of what the ticker has read.
* `CdcRemains`: `Spec => []CdcStays`.  Inductive with: no plan drops `system_cdc`,
  and a call that has locked it has something to store (`CdcKept`).
* `CacheIsStored`: `Spec => []CacheFollowsStore`.  Inductive with: a call has the
  lock of the collection it writes, so that what it caches is still what it stored
  (`LockedByCaller`), and what the ticker has read and not noted as late is still
  what is stored (`SeenIsCurrent`).
* `AppliesWhatIsAskedFor`: `Spec => []AppliedWhenUndisturbed`, assuming
  `NoneWantsCdc`, that the schemas asked for leave `system_cdc` to `Open`.  A caller
  that names exactly the collections there are, `system_cdc` included, gets the early
  return of `calcConfigPlan` (`db.go:488`), and nothing is changed whatever the schemas
  say.  Inductive with: for every collection, either nothing is left to do and the store
  is as wanted, or what is left to do leads there (`Due`), in each of the places a call
  may stand (`Stage`); nobody else runs (`OnItsOwn`).
* `LocksAsPromised`: `Spec => Promised(c)!Spec` for every collection `c`, where
  `Promised(c)` is the `Mutex` of its lock.  With `LeaseIsMutex` it composes the two
  modules: what `Configure` takes a lock to do, the lease lock does.  It needs that a
  call gives back only locks it has (`LockedByCaller`).

`DbLifecycleProofs`, for any number of clients and callers of `Close` and any pool:
`TypeCorrect`, and `BackgroundEnds` (`Spec => []BackgroundEndsFirst`).  Inductive
with: a goroutine of `Open` ends only once the context is cancelled.

`ChangesProofs`, for any collections, fields, actors, rules, transactions,
subscribers and bounds, from the assumptions of `Changes`:

* `TypeCorrect`: `Spec => []TypeOK`.
* `ChangesComeInOrder`: `Spec => []DeliveredInOrder`.
* `DifferencesReplay`: `Spec => []ReplayRebuilds`.
* `FixedFieldsAreKept`: `Spec => []FixedFieldsStay`.
* `TravelRestoresValues`: `Spec => []TimeTravelRestores`, for histories of any length: the
  half of `api.go:146` that holds.

*Argument.*  Every command is one write or only a read (`WorkCases`, `Writes`), so there
is one lemma per kind of step.  The order of the stream: what a subscriber has got and
what is queued for it is one sequence in order (`StreamOf`), and of two transactions the
first has sent everything if the second began after it returned (`Finishes`).  The log:
the change at a place, if it was made knowing all earlier ones, goes from the document
found there to the one stored (`Grounded`), and the committed document is what the last
change left (`Latest`).  Both are true of an open transaction's copy, which is some
first part of the committed log, then its own changes (`Extends`).  A commit moves those
behind the changes of others; what an informed change knew is then still all there is,
because it is known by name (`Recalls`), and places move in order (`Joined`).  Undoing:
after n changes are undone, every field has the first value it had in the documents
passed, if it had any (`Unwinds`), by induction on n; that the changes undone are those
from the last one down to the time asked for, one after the other, is `TravelDescends`.

`QueryProofs`, for any documents, indexes, conditions and values, from the assumptions
of `QueryScan` and `QueryPages` (ids, fields and what they hold are numbers; there is one primary index,
on the primary key):

* `ScansFindAll`: `Spec => []QueryFindsAll`.
* `HavingIsTurnedRound`, about the operator `Having` for any number of rows: unless it
  panics, `docsHaving` leaves every row that does not pass; and the only row that passes is
  what it removes.
* `PagesFitTogether`: `Spec => []PagesPartition`, for any orders and page size; finitely
  many ids.
* `AggregatesAreExact`: `Spec => []AggregatesAreRight`, for any number of documents and
  fields to group by.

*Argument.*  A key, a prefix and a starting point are paths over the same fields with
different values.  By induction over the fields, two paths agree as far as the parts of
their fields do (`SameRows`), and a path does not change where it is given no values
(`EmptyRows`).  A document that passes the filter has the values matched, and values no
less than those sought (`ValuesOfFound`).  So its key begins with the prefix, and comes
no earlier than the starting point: it is that and something more, or it has a greater
value after the prefix (`KeyAfterPrefix`, `KeyAfterValue`).  It was this proof that
showed the last condition of `Trusted` to be needed.

The filter of groups goes turn by turn: what is left stays in order and keeps every row
that does not pass (`TurnIsOrderly`), and if at most one passes, the array is known
exactly before and after its turn (`HavingOfOne`).

Pages: keys are totally ordered (`UpToTotal`, `UpToTransitive`), so a scan has an order
(`OrderExists`, by induction over the number of documents) and comes by every document
once.  With the fields there, the comparison given to the sort compares rows of numbers,
each in its direction (`PrecedesIsLess`); it is an ordering then, and where it decides
between any two documents only one sequence respects it (`OrderIsUnique`).  So two pages
are cut from the same sequence, even if the scans behind them differ (`SameSequence`),
and places on pages go up with their numbers (`PageOf`, `PagesGoUp`).

Aggregates are folds of the library.  A fold expands to a function on the subsets of a
set, whose rows determine it once it is known to exist; that is by induction on the
size (`FoldExists`).  Group and aggregate are then followed row by row: after n rows a
group has the ids of its kind among the first n (`GroupCollects`), and an aggregate is
the count, sum, maximum or minimum so far, from 0 (`AggregateTotals`).  A sum over a
set does not depend on the order in which its elements are taken (`SumAnyOrder`), so
it is the sum over the rows, each of which holds another document (`SumOfRows`).

**What is only model-checked.**  Liveness (`UnlockReturns`, `AbandonedLockExpires`,
`NewTxReturns`, `CloseReturnsUnlessDry`, `ChangesArrive`): fairness and `ENABLED` are
beyond the prover.  So are the library's induction theorems, which take an operator as
a parameter.  Where a proof is about a recursion, the model's own (`Reach`, `Undone`,
`Path`, `Having`) or a fold of the library, the induction is done with a set of numbers
(`SetInduction`, from the least element of its complement) and the function's rows are
named one by one (`TableRows`, `UndoneRows`, `PathRows`, `HavingTurns`).

## 5. What is not modelled

Scripting, triggers and computed fields (an interpreter's effects), YAML and
JSON-schema validation (parsing and a library), transports, metadata, error
wrapping, the registry, builders.  Index building is not, because it never happens:
`configureCollection` stores the new configuration before it reads the one to
compare with (`db.go:431-435`).

Of the modelled parts:

* Joins.  `queryScan` pairs the results of a join with the documents at hand by
  position (`tx_util.go:486-498`), so with two joins, or several results, rows are
  merged that do not belong together; what it should be is not said anywhere.
* `Cmd`.  It leaves a transaction open after a command that failed half way; `DocTx`
  ends it, as `defaultDB.Tx` does.
* Values that are not numbers in queries.  `containsAny` (`document.go:481-487`)
  accepts a document at once if the field contains one of the values, whatever the
  remaining conditions say, and never rejects one; `!=` between two values that Go
  cannot compare panics.  Group keys are joined with dots (`util.go:138`), so that
  groups of texts with dots may fall together.
* Times.  They are recorded in nanoseconds and compared as `float64`, which tells
  times apart from about a quarter of a microsecond on; `Changes` counts in units
  that can be told apart.
* Match scripts of authorization rules are sets of actors; scripts that fail, or
  look at the document, are not modelled.  `model.go:507` says that a request no
  rule matches is denied; the code denies it only if some allow rule is about the
  action (`authorization.go:41-43`), and `Allowed` follows the code.
* Machines of the javascript pool that `authorizeConfigure` and
  `authorizeChangeStream` take and never return (`authorization.go:125`, `184`) are
  the same as those transactions take in `DbLifecycle`.
* `tikvIter`, which cannot seek or go backwards.
* The tikv locker, whose transactions do not read as those of `LeaseLock` do (see there).
* The goroutines of a cascade, one per collection (`tx_util.go:272-297`): `DocTx!Erase` is
  all of them at once.  They share `transaction.docs` and the javascript machine without a
  lock; and where two paths lead to one document, the second delete finds no previous
  version, of which `updateSecondaryIndex` (`tx_util.go:310`) takes the value.

## 6. Plan

Order of work: the storage layer first, since all else is written over its
promise; then documents, configuration, lifecycle; then queries and changes; then
proofs.

Done: all modules of section 2 and the proofs of section 4.

What would add most from here:

1. `DocTx` with `Cmd`: a command that fails after it has stored the document leaves
   an entry missing if the client commits all the same.
2. A cascading delete as the goroutines it starts (`tx_util.go:272`).
3. Strings and joins in `QueryScan`, `tikvIter` as a plan without seeking.
