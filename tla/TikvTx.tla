------------------------------- MODULE TikvTx -------------------------------
(***************************************************************************)
(* The distributed key-value provider: kv/tikv/{tikv,tx}.go over TiKV,     *)
(* which holds the data, and Redis, which serves as a cache in front of it *)
(* and carries the change stream.  Both are external.  A TiKV transaction  *)
(* reads the snapshot it began with and is refused if a key it writes was  *)
(* committed since.  Redis knows no transactions: Get asks it first, Delete*)
(* removes a key from it before anything is committed, and Commit writes   *)
(* to it after TiKV has committed, with other processes running between.   *)
(***************************************************************************)
EXTENDS Naturals, Sequences

CONSTANTS Key, Val, Nil, NoWrite, Tx,
          Ranges,      \* key ranges that DropPrefix empties
          MaxEntries,  \* bound on the mutations of one transaction
          MaxDrops     \* bound on the number of drops

ASSUME NamesAssumption == Nil \notin Val /\ NoWrite \notin Val \cup {Nil}
ASSUME RangesAssumption == Ranges \subseteq SUBSET Key
ASSUME BoundAssumption == MaxEntries \in Nat /\ MaxDrops \in Nat

VARIABLES db,       \* newest committed version of every key in TiKV
          version,  \* when it was committed
          clock,    \* last commit timestamp
          cache,    \* the value of every key in Redis; Nil: none, or empty
          status,   \* life cycle of the transaction handle
          readonly, \* kv.TxOpts.IsReadOnly
          startTs,  \* start timestamp of the TiKV transaction
          snap,     \* TiKV as of startTs
          pending,  \* writes buffered in the TiKV transaction
          entries,  \* tikvTx.entries
          sent,     \* how many of them Commit has published
          stream,   \* what Redis has published
          past,     \* values every key has had in TiKV (history)
          suspect,  \* keys the cache may be wrong about (history)
          drops     \* number of DropPrefix calls (bounded by MaxDrops)

vars == <<db, version, clock, cache, status, readonly, startTs, snap, pending,
          entries, sent, stream, past, suspect, drops>>
tikv == <<db, version, clock, past, suspect, drops>>

Value == Val \cup {Nil}
Empty == [k \in Key |-> Nil]
Nothing == [k \in Key |-> NoWrite]
Overlay(base, w) == [k \in Key |-> IF w[k] = NoWrite THEN base[k] ELSE w[k]]
Entry == [key : Key, value : Value]

TypeOK ==
  /\ db \in [Key -> Value] /\ cache \in [Key -> Value] /\ past \in [Key -> SUBSET Value]
  /\ suspect \subseteq Key
  /\ version \in [Key -> 0..clock] /\ clock \in Nat /\ drops \in 0..MaxDrops
  /\ status \in [Tx -> {"new", "open", "publishing", "committed", "failed", "ended"}]
  /\ readonly \in [Tx -> BOOLEAN] /\ startTs \in [Tx -> 0..clock]
  /\ snap \in [Tx -> [Key -> Value]]
  /\ pending \in [Tx -> [Key -> Value \cup {NoWrite}]]
  /\ entries \in [Tx -> Seq(Entry)]
  /\ sent \in [Tx -> Nat]
  /\ \A t \in Tx : /\ sent[t] <= Len(entries[t])
                   /\ readonly[t] => pending[t] = Nothing /\ entries[t] = << >>
  /\ stream \in Seq([tx : Tx, cdc : Entry])

Init ==
  /\ db = Empty /\ cache = Empty /\ past = [k \in Key |-> {Nil}] /\ suspect = {}
  /\ version = [k \in Key |-> 0] /\ clock = 0 /\ drops = 0
  /\ status = [t \in Tx |-> "new"] /\ readonly = [t \in Tx |-> FALSE]
  /\ startTs = [t \in Tx |-> 0] /\ snap = [t \in Tx |-> Empty]
  /\ pending = [t \in Tx |-> Nothing] /\ entries = [t \in Tx |-> << >>]
  /\ sent = [t \in Tx |-> 0] /\ stream = << >>

-----------------------------------------------------------------------------
NewTx(t, ro) ==
  /\ status[t] = "new"
  /\ status' = [status EXCEPT ![t] = "open"]
  /\ readonly' = [readonly EXCEPT ![t] = ro]
  /\ startTs' = [startTs EXCEPT ![t] = clock]
  /\ snap' = [snap EXCEPT ![t] = db]
  /\ UNCHANGED <<tikv, cache, pending, entries, sent, stream>>

\* What Get returns: Redis first, then the transaction's own view.  It
\* changes nothing, and no action stands for it.
Got(t, k) == IF cache[k] # Nil THEN cache[k] ELSE Overlay(snap[t], pending[t])[k]

\* Mutation: nobody asks whether the transaction may write.
WritingAnyway(t) == status[t] = "open" /\ Len(entries[t]) < MaxEntries

Writing(t) == status[t] = "open" /\ ~readonly[t] /\ Len(entries[t]) < MaxEntries

Buffer(t, k, v) ==
  /\ pending' = [pending EXCEPT ![t][k] = v]
  /\ entries' = [entries EXCEPT ![t] = Append(@, [key |-> k, value |-> v])]
  /\ UNCHANGED <<tikv, status, readonly, startTs, snap, sent, stream>>

\* Mutation: a write-through cache.
SetThrough(t, k, v) == /\ Writing(t)
                       /\ Buffer(t, k, v)
                       /\ cache' = [cache EXCEPT ![k] = v]

Set(t, k, v) == Writing(t) /\ Buffer(t, k, v) /\ UNCHANGED cache

\* The key leaves Redis at once, whether or not the transaction commits.
Delete(t, k) == /\ Writing(t)
                /\ Buffer(t, k, Nil)
                /\ cache' = [cache EXCEPT ![k] = Nil]

-----------------------------------------------------------------------------
Written(t) == {k \in Key : pending[t][k] # NoWrite}
Conflict(t) == \E k \in Written(t) : version[k] > startTs[t]

\* Written by a commit that has not reached Redis yet.
InFlight(k) == \E t \in Tx : status[t] = "publishing" /\ k \in Written(t)

\* TiKV commits.
Commit(t) ==
  /\ status[t] = "open" /\ ~Conflict(t)
  /\ status' = [status EXCEPT ![t] = "publishing"]
  /\ db' = Overlay(db, pending[t])
  /\ clock' = IF Written(t) = {} THEN clock ELSE clock + 1
  /\ version' = [k \in Key |-> IF k \in Written(t) THEN clock + 1 ELSE version[k]]
  /\ past' = [k \in Key |-> past[k] \cup {db'[k]}]
  /\ suspect' = suspect \cup {k \in Written(t) : InFlight(k)}
  /\ UNCHANGED <<drops, cache, readonly, startTs, snap, pending, entries, sent, stream>>

\* TiKV refuses: a conflict, or a store that cannot be reached.
CommitFails(t) ==
  /\ status[t] = "open" /\ Written(t) # {}
  /\ status' = [status EXCEPT ![t] = "failed"]
  /\ pending' = [pending EXCEPT ![t] = Nothing]
  /\ UNCHANGED <<tikv, cache, readonly, startTs, snap, entries, sent, stream>>

\* Mutation: entries are published before TiKV has committed.
PublishEarly(t) ==
  /\ status[t] \in {"open", "publishing"} /\ sent[t] < Len(entries[t])
  /\ stream' = Append(stream, [tx |-> t, cdc |-> entries[t][sent[t] + 1]])
  /\ sent' = [sent EXCEPT ![t] = @ + 1]
  /\ UNCHANGED <<tikv, cache, status, readonly, startTs, snap, pending, entries>>

\* One turn of the loop; Redis may lose the message, and nobody looks.
Publish(t) ==
  /\ status[t] = "publishing" /\ sent[t] < Len(entries[t])
  /\ \/ stream' = Append(stream, [tx |-> t, cdc |-> entries[t][sent[t] + 1]])
     \/ UNCHANGED stream
  /\ sent' = [sent EXCEPT ![t] = @ + 1]
  /\ UNCHANGED <<tikv, cache, status, readonly, startTs, snap, pending, entries>>

\* The last of the entries in S decides.
LastOf(t, S) == entries[t][CHOOSE i \in S : \A j \in S : j <= i].value

\* Mutation: Commit does not collect deletions in toSet.
CacheSetsOnly(t) ==
  [k \in Key |-> LET S == {i \in DOMAIN entries[t] : entries[t][i].key = k /\ entries[t][i].value # Nil}
                 IN  IF S = {} THEN NoWrite ELSE LastOf(t, S)]

\* toSet: what goes to Redis for every key.
CacheWrites(t) ==
  [k \in Key |-> LET S == {i \in DOMAIN entries[t] : entries[t][i].key = k}
                 IN  IF S = {} THEN NoWrite ELSE LastOf(t, S)]

\* MSet, and Commit returns.
MSet(t) ==
  /\ status[t] = "publishing" /\ sent[t] = Len(entries[t])
  /\ cache' = Overlay(cache, CacheWrites(t))
  /\ status' = [status EXCEPT ![t] = "committed"]
  /\ UNCHANGED <<tikv, readonly, startTs, snap, pending, entries, sent, stream>>

\* MSet fails: Commit returns an error although TiKV has committed.
MSetFails(t) ==
  /\ status[t] = "publishing" /\ sent[t] = Len(entries[t])
  /\ status' = [status EXCEPT ![t] = "failed"]
  /\ suspect' = suspect \cup Written(t)
  /\ UNCHANGED <<db, version, clock, past, drops, cache, readonly, startTs,
                 snap, pending, entries, sent, stream>>

\* Rollback of an open transaction, or Close without Commit.
Rollback(t) ==
  /\ status[t] = "open"
  /\ status' = [status EXCEPT ![t] = "ended"]
  /\ pending' = [pending EXCEPT ![t] = Nothing]
  /\ entries' = [entries EXCEPT ![t] = << >>]
  /\ UNCHANGED <<tikv, cache, readonly, startTs, snap, sent, stream>>

\* DeleteRange removes every version, also those older snapshots read; Redis
\* is not told.
DropPrefix(S) ==
  /\ drops < MaxDrops /\ drops' = drops + 1
  /\ db' = [k \in Key |-> IF k \in S THEN Nil ELSE db[k]]
  /\ version' = [k \in Key |-> IF k \in S THEN 0 ELSE version[k]]
  /\ snap' = [t \in Tx |-> [k \in Key |-> IF k \in S THEN Nil ELSE snap[t][k]]]
  /\ suspect' = suspect \cup S
  /\ UNCHANGED <<clock, past, cache, status, readonly, startTs, pending,
                 entries, sent, stream>>

TxStep(t) ==
  \/ \E ro \in BOOLEAN : NewTx(t, ro)
  \/ \E k \in Key : Delete(t, k) \/ \E v \in Val : Set(t, k, v)
  \/ Commit(t) \/ CommitFails(t) \/ Publish(t) \/ MSet(t) \/ MSetFails(t) \/ Rollback(t)

Next == (\E t \in Tx : TxStep(t)) \/ (\E S \in Ranges : DropPrefix(S))

Spec == Init /\ [][Next]_vars

-----------------------------------------------------------------------------
\* Get (tx.go:45-61) never returns a value that no transaction has committed,
\* other than one of its own.
NoDirtyRead ==
  \A t \in Tx, k \in Key :
    status[t] = "open" => Got(t, k) \in past[k] \cup {pending[t][k]}

\* The cache is wrong about a key that no commit is on its way with for three
\* reasons only: two commits of the key overlapped between TiKV and MSet
\* (tx.go:99-116), an MSet failed, or a range was dropped.
StaleOnlyIfSuspect ==
  \A k \in Key \ suspect : InFlight(k) \/ cache[k] \in {Nil, db[k]}

\* The messages of t on the stream are entries of t among S, in their order.
Announced(t) == {i \in DOMAIN stream : stream[i].tx = t}
AreEntries(t, S) ==
  \E of \in [Announced(t) -> S] :
    /\ \A i, j \in Announced(t) : i < j => of[i] < of[j]
    /\ \A i \in Announced(t) : stream[i].cdc = entries[t][of[i]]

\* The change stream carries entries of transactions that TiKV has committed
\* only, in the order they were recorded and none twice; some may be lost.
StreamOfCommitted ==
  \A t \in Tx :
    /\ Announced(t) # {} => status[t] \in {"publishing", "committed", "failed"}
    /\ AreEntries(t, DOMAIN entries[t])
=============================================================================
