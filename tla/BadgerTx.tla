------------------------------ MODULE BadgerTx ------------------------------
(***************************************************************************)
(* The embedded key-value provider: kv/badger/{badger,tx,iter}.go over the *)
(* badger library.  Several transactions are open at once, each driven by  *)
(* one goroutine of the application; the steps of different transactions   *)
(* interleave freely.  badger itself (external) gives a transaction a      *)
(* snapshot at its read timestamp, remembers the keys it reads, and        *)
(* refuses a commit if one of them was committed after that timestamp.     *)
(*                                                                         *)
(* A commit and the announcement of what was written are two different     *)
(* steps: Commit first installs the writes, then publishes the recorded    *)
(* entries one message at a time, and other transactions may run between.  *)
(***************************************************************************)
EXTENDS Naturals, Sequences

CONSTANTS Key, Val, Nil, NoWrite, Tx,
          Ranges,       \* the key ranges the application scans or drops
          MaxPending,   \* writes that fit in one badger transaction
          MaxEntries    \* bound on the mutations of one transaction

ASSUME NilAssumption == Nil \notin Val
ASSUME NoWriteAssumption == NoWrite \notin Val \cup {Nil}
ASSUME RangesAssumption == Ranges \subseteq SUBSET Key
ASSUME BoundAssumption == MaxPending \in Nat \ {0} /\ MaxEntries \in Nat

VARIABLES db,        \* newest committed version of every key
          commitTs,  \* oracle.commits: when that version was committed
          clock,     \* last commit timestamp handed out
          status,    \* life cycle of the transaction handle
          mode,      \* kv.TxOpts: "read", "write" or "batch"
          started,   \* badgerTx.txn # nil
          readTs,    \* read timestamp of txn
          snap,      \* the store as of readTs
          reads,     \* keys txn has read
          pending,   \* writes buffered in txn, or in the write batch
          count,     \* how many of them
          entries,   \* badgerTx.entries
          sent,      \* how many entries Commit has published
          stream,    \* messages published, in the order they arrived
          installed  \* history: the versions of every key that each transaction
                     \* has put into the store, in that order

store == <<db, commitTs, clock, installed>>
reader == <<started, readTs, snap, reads>>
writer == <<pending, count>>
vars == <<db, commitTs, clock, status, mode, started, readTs, snap, reads,
          pending, count, entries, sent, stream, installed>>

Value == Val \cup {Nil}
Empty == [k \in Key |-> Nil]
Nothing == [k \in Key |-> NoWrite]
Overlay(base, w) == [k \in Key |-> IF w[k] = NoWrite THEN base[k] ELSE w[k]]

\* A kv.CDC; DELOP is an entry with value Nil.
Entry == [key : Key, value : Value]
Message == [tx : Tx, cdc : Entry]

TypeOK ==
  /\ db \in [Key -> Value]
  /\ commitTs \in [Key -> Nat]
  /\ clock \in Nat
  /\ status \in [Tx -> {"new", "open", "publishing", "committed",
                        "failed", "rolledback", "closed"}]
  /\ mode \in [Tx -> {"read", "write", "batch"}]
  /\ started \in [Tx -> BOOLEAN]
  /\ readTs \in [Tx -> Nat]
  /\ snap \in [Tx -> [Key -> Value]]
  /\ reads \in [Tx -> SUBSET Key]
  /\ pending \in [Tx -> [Key -> Value \cup {NoWrite}]]
  /\ count \in [Tx -> Nat]
  /\ entries \in [Tx -> Seq(Entry)]
  /\ sent \in [Tx -> Nat]
  /\ stream \in Seq(Message)
  /\ installed \in [Tx -> [Key -> Seq(Value)]]

Init ==
  /\ db = Empty
  /\ commitTs = [k \in Key |-> 0]
  /\ clock = 0
  /\ status = [t \in Tx |-> "new"]
  /\ mode = [t \in Tx |-> "read"]
  /\ started = [t \in Tx |-> FALSE]
  /\ readTs = [t \in Tx |-> 0]
  /\ snap = [t \in Tx |-> Empty]
  /\ reads = [t \in Tx |-> {}]
  /\ pending = [t \in Tx |-> Nothing]
  /\ count = [t \in Tx |-> 0]
  /\ entries = [t \in Tx |-> << >>]
  /\ sent = [t \in Tx |-> 0]
  /\ stream = << >>
  /\ installed = [t \in Tx |-> [k \in Key |-> << >>]]

-----------------------------------------------------------------------------
\* Mutation: a read timestamp one behind the snapshot it stands for.
StartBehind(t) == /\ started' = [started EXCEPT ![t] = TRUE]
                  /\ readTs' = [readTs EXCEPT ![t] = clock - 1]
                  /\ snap' = [snap EXCEPT ![t] = db]

\* db.NewTransaction: a snapshot of everything committed so far.
Start(t) == /\ started' = [started EXCEPT ![t] = TRUE]
            /\ readTs' = [readTs EXCEPT ![t] = clock]
            /\ snap' = [snap EXCEPT ![t] = db]

\* NewTx: a batch gets a write batch and, for now, no badger transaction.
NewTx(t, m) ==
  /\ status[t] = "new"
  /\ status' = [status EXCEPT ![t] = "open"]
  /\ mode' = [mode EXCEPT ![t] = m]
  /\ IF m = "batch" THEN UNCHANGED <<started, readTs, snap>> ELSE Start(t)
  /\ UNCHANGED <<store, reads, writer, entries, sent, stream>>

\* The lazy "if b.txn == nil" of Get and NewIterator, which only a batch meets.
EnsureTxn(t) == IF started[t] THEN UNCHANGED <<started, readTs, snap>> ELSE Start(t)

\* txn sees its own writes; the writes of a batch are not in txn.
Visible(t) == IF mode[t] = "write" THEN Overlay(snap'[t], pending[t]) ELSE snap'[t]

\* badger records what an update transaction reads, whether or not the key
\* is there, but not a key it answers from its own writes.
Get(t, k) ==
  /\ status[t] = "open"
  /\ EnsureTxn(t)
  /\ reads' = IF mode[t] = "read" \/ (mode[t] = "write" /\ pending[t][k] # NoWrite)
              THEN reads
              ELSE [reads EXCEPT ![t] = @ \cup {k}]
  /\ UNCHANGED <<store, status, mode, writer, entries, sent, stream>>

\* NewIterator and a scan of range S: only the keys that are there are
\* visited, and only those are recorded as read.
NewIterator(t, S) ==
  /\ status[t] = "open"
  /\ EnsureTxn(t)
  /\ reads' = IF mode[t] = "read" THEN reads
              ELSE [reads EXCEPT ![t] = @ \cup {k \in S : Visible(t)[k] # Nil}]
  /\ UNCHANGED <<store, status, mode, writer, entries, sent, stream>>

-----------------------------------------------------------------------------
\* Mutation: the versions keep the timestamp of the previous commit.
InstallStale(w) ==
  /\ db' = Overlay(db, w)
  /\ clock' = clock + 1
  /\ commitTs' = [k \in Key |-> IF w[k] = NoWrite THEN commitTs[k] ELSE clock]

\* badger commits w: the next timestamp becomes that of every written key.
Install(w) ==
  /\ db' = Overlay(db, w)
  /\ clock' = clock + 1
  /\ commitTs' = [k \in Key |-> IF w[k] = NoWrite THEN commitTs[k] ELSE clock + 1]

\* Those versions are remembered as versions t has put into the store.
Remember(t) ==
  installed' = [installed EXCEPT ![t] =
    [k \in Key |-> IF pending[t][k] = NoWrite THEN @[k] ELSE Append(@[k], pending[t][k])]]

\* Mutation: one entry per key, the first.
RecordOnce(t, k, v) ==
  entries' = IF \E i \in DOMAIN entries[t] : entries[t][i].key = k THEN entries
             ELSE [entries EXCEPT ![t] = Append(@, [key |-> k, value |-> v])]

Record(t, k, v) ==
  entries' = [entries EXCEPT ![t] = Append(@, [key |-> k, value |-> v])]

\* SetEntry or Delete that finds room in txn or in the write batch.
Buffered(t, k, v) ==
  /\ mode[t] \in {"write", "batch"} /\ count[t] < MaxPending
  /\ pending' = [pending EXCEPT ![t][k] = v]
  /\ count' = [count EXCEPT ![t] = @ + 1]
  /\ UNCHANGED store

\* A full write batch commits what it holds and starts over; what went out
\* stays in the store whether the batch is committed or rolled back later.
Flushed(t, k, v) ==
  /\ mode[t] = "batch" /\ count[t] >= MaxPending
  /\ Install(pending[t])
  /\ Remember(t)
  /\ pending' = [pending EXCEPT ![t] = [Nothing EXCEPT ![k] = v]]
  /\ count' = [count EXCEPT ![t] = 1]

\* ErrReadOnlyTxn or ErrTxnTooBig: nothing is buffered.
Refused(t) ==
  /\ mode[t] = "read" \/ (mode[t] = "write" /\ count[t] >= MaxPending)
  /\ UNCHANGED <<store, writer>>

\* Set records the entry once badger has accepted it; a refused Set only
\* returns its error.
Set(t, k, v) ==
  /\ status[t] = "open" /\ Len(entries[t]) < MaxEntries
  /\ Buffered(t, k, v) \/ Flushed(t, k, v)
  /\ Record(t, k, v)
  /\ UNCHANGED <<status, mode, reader, sent, stream>>

\* Delete records the entry first, and keeps it if badger refuses.
Delete(t, k) ==
  /\ status[t] = "open" /\ Len(entries[t]) < MaxEntries
  /\ Buffered(t, k, Nil) \/ Flushed(t, k, Nil) \/ Refused(t)
  /\ Record(t, k, Nil)
  /\ UNCHANGED <<status, mode, reader, sent, stream>>

-----------------------------------------------------------------------------
\* Mutation: only write-write conflicts are noticed.
ConflictOnWrites(t) ==
  \E k \in reads[t] : pending[t][k] # NoWrite /\ commitTs[k] > readTs[t]

\* The oracle's check: a key txn read has a version newer than its snapshot.
Conflict(t) == \E k \in reads[t] : commitTs[k] > readTs[t]

\* Commit, up to the loop that publishes.  Nothing to write: nothing to check.
Commit(t) ==
  /\ status[t] = "open"
  /\ mode[t] = "write" /\ pending[t] # Nothing => ~Conflict(t)
  /\ IF pending[t] = Nothing THEN UNCHANGED store ELSE Install(pending[t]) /\ Remember(t)
  /\ status' = [status EXCEPT ![t] = "publishing"]
  /\ UNCHANGED <<mode, reader, writer, entries, sent, stream>>

\* badger refuses the commit: ErrConflict, ErrBlockedWrites while a prefix is
\* being dropped, or a disk that fails.  The buffered writes are gone.
CommitFails(t) ==
  /\ status[t] = "open"
  /\ pending[t] # Nothing
  /\ status' = [status EXCEPT ![t] = "failed"]
  /\ pending' = [pending EXCEPT ![t] = Nothing]
  /\ UNCHANGED <<store, mode, reader, count, entries, sent, stream>>

\* One turn of the publishing loop, the last of which ends Commit.
Publish(t) ==
  /\ status[t] = "publishing" /\ sent[t] < Len(entries[t])
  /\ stream' = Append(stream, [tx |-> t, cdc |-> entries[t][sent[t] + 1]])
  /\ sent' = [sent EXCEPT ![t] = @ + 1]
  /\ UNCHANGED <<store, status, mode, reader, writer, entries>>

\* Mutation: Commit returns from inside the loop.
CommitReturnsEarly(t) ==
  /\ status[t] = "publishing"
  /\ status' = [status EXCEPT ![t] = "committed"]
  /\ UNCHANGED <<store, mode, reader, writer, entries, sent, stream>>

CommitReturns(t) ==
  /\ status[t] = "publishing" /\ sent[t] = Len(entries[t])
  /\ status' = [status EXCEPT ![t] = "committed"]
  /\ UNCHANGED <<store, mode, reader, writer, entries, sent, stream>>

\* Rollback, of an open transaction or after a commit that failed.
Rollback(t) ==
  /\ status[t] \in {"open", "failed"}
  /\ status' = [status EXCEPT ![t] = "rolledback"]
  /\ pending' = [pending EXCEPT ![t] = Nothing]
  /\ entries' = [entries EXCEPT ![t] = << >>]
  /\ UNCHANGED <<store, mode, reader, count, sent, stream>>

\* Close without Commit or Rollback; after either of them it does nothing.
Close(t) ==
  /\ status[t] = "open"
  /\ status' = [status EXCEPT ![t] = "closed"]
  /\ pending' = [pending EXCEPT ![t] = Nothing]
  /\ UNCHANGED <<store, mode, reader, count, entries, sent, stream>>

\* DropPrefix removes every version of the keys, also those older snapshots
\* read, and leaves no trace in the conflict table or on the stream.
DropPrefix(S) ==
  /\ db' = [k \in Key |-> IF k \in S THEN Nil ELSE db[k]]
  /\ snap' = [t \in Tx |-> [k \in Key |-> IF k \in S THEN Nil ELSE snap[t][k]]]
  /\ UNCHANGED <<commitTs, clock, status, mode, started, readTs, reads,
                 writer, entries, sent, stream, installed>>

TxStep(t) ==
  \/ \E m \in {"read", "write", "batch"} : NewTx(t, m)
  \/ \E k \in Key : Get(t, k) \/ Delete(t, k)
  \/ \E S \in Ranges : NewIterator(t, S)
  \/ \E k \in Key, v \in Val : Set(t, k, v)
  \/ Commit(t) \/ CommitFails(t) \/ Publish(t) \/ CommitReturns(t)
  \/ Rollback(t) \/ Close(t)

Next == (\E t \in Tx : TxStep(t)) \/ (\E S \in Ranges : DropPrefix(S))

Spec == Init /\ [][Next]_vars

-----------------------------------------------------------------------------
Committed(t) == status[t] \in {"publishing", "committed"}

\* A version committed no later than a transaction's read timestamp is the
\* version in its snapshot: what makes comparing timestamps in Conflict
\* (badger's oracle, relied on by Commit, tx.go:115) as good as comparing values.
SnapshotCurrent ==
  \A t \in Tx : started[t] =>
    \A k \in Key : commitTs[k] <= readTs[t] => snap[t][k] = db[k]

\* Where in the stream the messages of a transaction are.
Published(t) == {i \in DOMAIN stream : stream[i].tx = t}

\* Those messages are the first n entries of the transaction, each once and
\* in the order they were recorded: at[m] is the place of entry m.
PublishedInOrder(t, n) ==
  \E at \in [1 .. n -> Published(t)] :
    /\ \A i \in Published(t) : \E m \in 1 .. n : at[m] = i
    /\ \A m \in 1 .. n : stream[at[m]].cdc = entries[t][m]
    /\ \A l, m \in 1 .. n : l < m => at[l] < at[m]

\* The change stream (tx.go:119-124) carries entries of committed
\* transactions only, each once and in the order they were recorded, and all
\* of them once Commit has returned.
StreamOfCommitted ==
  \A t \in Tx :
    /\ Published(t) # {} => Committed(t)
    /\ \E n \in 0 .. Len(entries[t]) :
         /\ PublishedInOrder(t, n)
         /\ status[t] = "committed" => n = Len(entries[t])

\* Once Commit has returned, every version the transaction has put into the
\* store, by its commit or by an earlier flush of a batch, has been announced
\* (tx.go:65-79, 82-91, 119-124): the versions of each key are found among its
\* messages in the order they were installed.  A message of the key after the
\* last of them can only be a deletion: a Delete that badger refused is
\* announced all the same, although nothing was deleted.
InstalledIsAnnounced ==
  \A t \in Tx : \A k \in Key :
    status[t] = "committed" =>
      LET versions == installed[t][k] IN
      \E at \in [DOMAIN versions -> Published(t)] :
        /\ \A m \in DOMAIN versions :
             stream[at[m]].cdc = [key |-> k, value |-> versions[m]]
        /\ \A l, m \in DOMAIN versions : l < m => at[l] < at[m]
        /\ \A i \in Published(t) :
             stream[i].cdc.key = k /\ (\A m \in DOMAIN versions : at[m] < i)
               => stream[i].cdc.value = Nil

\* The store promised by kv/kv.go, implemented by versions and timestamps.
Phase(t) == CASE status[t] = "new"  -> "idle"
              [] status[t] = "open" -> mode[t]
              [] OTHER              -> "ended"

Atomic == INSTANCE AtomicKV WITH phase  <- [t \in Tx |-> Phase(t)],
                                 view   <- snap,
                                 writes <- pending

\* Every behaviour of the provider is one of the abstract store (tx.go:94-126):
\* a committed transaction is serializable in what it read key by key, and a
\* transaction that does not commit leaves no trace, with one exception that
\* AtomicKV states: a batch that has grown past badger's limit has put part
\* of its writes into the store already (tx.go:65), and neither Rollback, Close
\* nor a failing Commit takes that part back.
Serializable == Atomic!Spec
=============================================================================
