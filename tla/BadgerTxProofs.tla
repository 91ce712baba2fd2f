--------------------------- MODULE BadgerTxProofs ---------------------------
(***************************************************************************)
(* Proofs about BadgerTx, for any keys, values, transactions and bounds:   *)
(* its type invariant, the invariant that makes badger's timestamp check   *)
(* sound, and that the provider implements the abstract store AtomicKV.    *)
(***************************************************************************)
EXTENDS BadgerTx, TLAPS

\* No timestamp is ahead of the clock that hands them out, so that a commit
\* makes every version it writes newer than every open snapshot.
TimestampsBehindClock ==
  /\ \A k \in Key : commitTs[k] <= clock
  /\ \A t \in Tx : readTs[t] <= clock

\* Only a batch is open without a badger transaction behind it.
StartedUnlessBatch ==
  \A t \in Tx : status[t] = "open" /\ mode[t] # "batch" => started[t]

\* Nothing is buffered before a transaction is open, after it has been given
\* up, or in one that cannot write.
IdleBuffers ==
  \A t \in Tx : status[t] \in {"new", "failed", "rolledback", "closed"} \/ mode[t] = "read"
                => pending[t] = Nothing

\* The inductive invariant.
IInv == /\ TypeOK
        /\ TimestampsBehindClock
        /\ SnapshotCurrent
        /\ StartedUnlessBatch
        /\ IdleBuffers

-----------------------------------------------------------------------------
\* Writing a transaction's buffer over a store gives a store.
LEMMA OverlayType ==
  ASSUME NEW base \in [Key -> Value], NEW w \in [Key -> Value \cup {NoWrite}]
  PROVE  Overlay(base, w) \in [Key -> Value]
BY DEF Overlay, Value

\* A commit leaves the variables of the store well typed.
LEMMA InstallType ==
  ASSUME TypeOK, NEW w \in [Key -> Value \cup {NoWrite}], Install(w)
  PROVE  db' \in [Key -> Value] /\ commitTs' \in [Key -> Nat] /\ clock' \in Nat
<1>1. db \in [Key -> Value] /\ commitTs \in [Key -> Nat] /\ clock \in Nat
  BY DEF TypeOK
<1>2. Overlay(db, w) \in [Key -> Value]
  BY <1>1, OverlayType
<1> QED
  BY <1>1, <1>2 DEF Install

\* Remembering the versions a transaction has installed keeps them values.
LEMMA RememberType ==
  ASSUME TypeOK, NEW t \in Tx, Remember(t)
  PROVE  installed' \in [Tx -> [Key -> Seq(Value)]]
<1>1. installed \in [Tx -> [Key -> Seq(Value)]] /\ pending \in [Tx -> [Key -> Value \cup {NoWrite}]]
  BY DEF TypeOK
<1>2. ASSUME NEW k \in Key
      PROVE  (IF pending[t][k] = NoWrite THEN installed[t][k]
              ELSE Append(installed[t][k], pending[t][k])) \in Seq(Value)
  <2>1. CASE pending[t][k] = NoWrite
    BY <1>1, <2>1
  <2>2. CASE pending[t][k] # NoWrite
    <3>1. pending[t][k] \in Value /\ installed[t][k] \in Seq(Value)
      BY <1>1, <2>2
    <3> QED
      BY <2>2, <3>1
  <2> QED
    BY <2>1, <2>2
<1> QED
  BY <1>1, <1>2 DEF Remember

\* A new badger transaction leaves the reader's variables well typed.
LEMMA EnsureTxnType ==
  ASSUME TypeOK, NEW t \in Tx, EnsureTxn(t) \/ Start(t)
  PROVE  /\ started' \in [Tx -> BOOLEAN]
         /\ readTs' \in [Tx -> Nat]
         /\ snap' \in [Tx -> [Key -> Value]]
<1>1. /\ db \in [Key -> Value] /\ clock \in Nat /\ started \in [Tx -> BOOLEAN]
      /\ readTs \in [Tx -> Nat] /\ snap \in [Tx -> [Key -> Value]]
  BY DEF TypeOK
<1>2. CASE UNCHANGED <<started, readTs, snap>>
  BY <1>1, <1>2
<1>3. CASE Start(t)
  BY <1>1, <1>3 DEF Start
<1> QED
  BY <1>2, <1>3 DEF EnsureTxn

\* The initial state is well typed.
LEMMA InitTypeOK == Init => TypeOK
BY DEF Init, TypeOK, Empty, Nothing, Value

\* A step of the program keeps every variable in its type.
LEMMA NextTypeOK == TypeOK /\ [Next]_vars => TypeOK'
<1> SUFFICES ASSUME TypeOK, [Next]_vars PROVE TypeOK'
  OBVIOUS
<1> USE DEF TypeOK
<1>1. ASSUME NEW t \in Tx, NEW m \in {"read", "write", "batch"}, NewTx(t, m)
      PROVE  TypeOK'
  <2>1. /\ started' \in [Tx -> BOOLEAN] /\ readTs' \in [Tx -> Nat]
        /\ snap' \in [Tx -> [Key -> Value]]
    <3>1. UNCHANGED <<started, readTs, snap>> \/ Start(t)
      BY <1>1 DEF NewTx
    <3> QED
      BY <3>1, EnsureTxnType
  <2>2. /\ status' \in [Tx -> {"new", "open", "publishing", "committed",
                              "failed", "rolledback", "closed"}]
        /\ mode' \in [Tx -> {"read", "write", "batch"}]
    BY <1>1 DEF NewTx
  <2>3. UNCHANGED <<db, commitTs, clock, reads, pending, count, entries, sent, stream,
                    installed>>
    BY <1>1 DEF NewTx, store, writer
  <2> QED
    BY <2>1, <2>2, <2>3
<1>2. ASSUME NEW t \in Tx, NEW S \in SUBSET Key,
             EnsureTxn(t), reads' = reads \/ reads' = [reads EXCEPT ![t] = @ \cup S],
             UNCHANGED <<store, status, mode, writer, entries, sent, stream>>
      PROVE  TypeOK'
  <2>1. reads' \in [Tx -> SUBSET Key]
    <3>1. reads \in [Tx -> SUBSET Key] /\ reads[t] \cup S \in SUBSET Key
      OBVIOUS
    <3> HIDE DEF TypeOK
    <3> QED
      BY <1>2, <3>1
  <2>2. /\ started' \in [Tx -> BOOLEAN] /\ readTs' \in [Tx -> Nat]
        /\ snap' \in [Tx -> [Key -> Value]]
    BY <1>2, EnsureTxnType
  <2> QED
    BY <1>2, <2>1, <2>2 DEF store, writer
<1>3. ASSUME NEW t \in Tx, NEW k \in Key, Get(t, k)
      PROVE  TypeOK'
  <2>1. {k} \in SUBSET Key
    OBVIOUS
  <2>2. reads' = reads \/ reads' = [reads EXCEPT ![t] = @ \cup {k}]
    BY <1>3 DEF Get
  <2>3. EnsureTxn(t) /\ UNCHANGED <<store, status, mode, writer, entries, sent, stream>>
    BY <1>3 DEF Get
  <2> QED
    BY <1>2, <2>1, <2>2, <2>3
<1>4. ASSUME NEW t \in Tx, NEW S \in Ranges, NewIterator(t, S)
       PROVE  TypeOK'
  <2>1. {k \in S : Visible(t)[k] # Nil} \in SUBSET Key
    BY RangesAssumption
  <2> QED
    BY <1>2, <1>4, <2>1 DEF NewIterator
<1>5. ASSUME NEW t \in Tx, NEW k \in Key, NEW v \in Value,
             Buffered(t, k, v) \/ Flushed(t, k, v) \/ Refused(t), Record(t, k, v),
             UNCHANGED <<status, mode, reader, sent, stream>>
      PROVE  TypeOK'
  <2>1. entries' \in [Tx -> Seq(Entry)]
    <3>1. [key |-> k, value |-> v] \in Entry
      BY DEF Entry
    <3>2. Append(entries[t], [key |-> k, value |-> v]) \in Seq(Entry)
      BY <3>1
    <3> QED
      BY <1>5, <3>2 DEF Record
  <2>2. CASE Buffered(t, k, v)
    BY <1>5, <2>1, <2>2 DEF Buffered, store, reader
  <2>3. CASE Flushed(t, k, v)
    <3>1. pending[t] \in [Key -> Value \cup {NoWrite}]
      OBVIOUS
    <3>2. db' \in [Key -> Value] /\ commitTs' \in [Key -> Nat] /\ clock' \in Nat
      BY <2>3, <3>1, InstallType DEF Flushed
    <3>3. [Nothing EXCEPT ![k] = v] \in [Key -> Value \cup {NoWrite}]
      BY DEF Nothing
    <3>4. installed' \in [Tx -> [Key -> Seq(Value)]]
      BY <2>3, RememberType DEF Flushed
    <3> QED
      BY <1>5, <2>1, <2>3, <3>2, <3>3, <3>4 DEF Flushed, reader
  <2>4. CASE Refused(t)
    BY <1>5, <2>1, <2>4 DEF Refused, store, reader, writer
  <2> QED
    BY <1>5, <2>2, <2>3, <2>4
<1>6. ASSUME NEW t \in Tx, Commit(t)
      PROVE  TypeOK'
  BY <1>6, InstallType, RememberType DEF Commit, store, reader, writer
<1>7. ASSUME NEW t \in Tx, CommitFails(t) \/ Rollback(t) \/ Close(t)
      PROVE  TypeOK'
  <2>1. Nothing \in [Key -> Value \cup {NoWrite}]
    BY DEF Nothing
  <2> QED
    <3>1. status' \in [Tx -> {"new", "open", "publishing", "committed",
                              "failed", "rolledback", "closed"}]
      BY <1>7 DEF CommitFails, Rollback, Close
    <3>2. pending' \in [Tx -> [Key -> Value \cup {NoWrite}]]
      BY <1>7, <2>1 DEF CommitFails, Rollback, Close
    <3>3. entries' \in [Tx -> Seq(Entry)]
      <4>1. entries' = entries \/ entries' = [entries EXCEPT ![t] = << >>]
        BY <1>7 DEF CommitFails, Rollback, Close
      <4>2. << >> \in Seq(Entry)
        OBVIOUS
      <4> QED
        BY <4>1, <4>2
    <3>4. UNCHANGED <<db, commitTs, clock, mode, started, readTs, snap, reads,
                      count, sent, stream, installed>>
      BY <1>7 DEF CommitFails, Rollback, Close, store, reader
    <3> QED
      BY <3>1, <3>2, <3>3, <3>4
<1>8. ASSUME NEW t \in Tx, Publish(t) \/ CommitReturns(t)
      PROVE  TypeOK'
  <2>1. CASE Publish(t)
    <3>1. entries[t][sent[t] + 1] \in Entry
      BY <2>1 DEF Publish
    <3>2. stream' \in Seq(Message)
      BY <2>1, <3>1 DEF Publish, Message
    <3> QED
      BY <2>1, <3>2 DEF Publish, store, reader, writer
  <2>2. CASE CommitReturns(t)
    BY <2>2 DEF CommitReturns, store, reader, writer
  <2> QED
    BY <1>8, <2>1, <2>2
<1>9. ASSUME NEW S \in Ranges, DropPrefix(S)
      PROVE  TypeOK'
  BY <1>9 DEF DropPrefix, Value, writer
<1>10. CASE UNCHANGED vars
  BY <1>10 DEF vars
<1>11. ASSUME NEW t \in Tx, NEW k \in Key, NEW v \in Val, Set(t, k, v)
       PROVE  TypeOK'
  BY <1>5, <1>11 DEF Set, Value
<1>12. ASSUME NEW t \in Tx, NEW k \in Key, Delete(t, k)
       PROVE  TypeOK'
  BY <1>5, <1>12 DEF Delete, Value
<1> QED
  BY <1>1, <1>3, <1>4, <1>6, <1>7, <1>8, <1>9, <1>10, <1>11, <1>12 DEF Next, TxStep

\* The type invariant of the provider (the declarations of tx.go:12-20).
THEOREM TypeCorrect == Spec => []TypeOK
BY InitTypeOK, NextTypeOK, PTL DEF Spec

-----------------------------------------------------------------------------
(* The inductive invariant.  Each action is reduced to what it does to the   *)
(* versions (an Install, a Start, a drop, or nothing), and then to the life  *)
(* cycle of the transaction.                                                 *)

\* A commit gives its versions a timestamp no snapshot has reached.
LEMMA InstallPreserves ==
  ASSUME TypeOK, TimestampsBehindClock, SnapshotCurrent,
         NEW w \in [Key -> Value \cup {NoWrite}], Install(w),
         UNCHANGED <<started, readTs, snap>>
  PROVE  TimestampsBehindClock' /\ SnapshotCurrent'
<1>1. /\ db \in [Key -> Value] /\ commitTs \in [Key -> Nat] /\ clock \in Nat
      /\ readTs \in [Tx -> Nat]
  BY DEF TypeOK
<1>2. clock' = clock + 1
  BY DEF Install
<1>3. ASSUME NEW k \in Key
      PROVE  \/ w[k] = NoWrite /\ commitTs'[k] = commitTs[k] /\ db'[k] = db[k]
             \/ w[k] # NoWrite /\ commitTs'[k] = clock + 1
  BY DEF Install, Overlay
<1>4. TimestampsBehindClock'
  <2>1. ASSUME NEW k \in Key PROVE commitTs'[k] <= clock'
    BY <1>1, <1>2, <1>3 DEF TimestampsBehindClock
  <2>2. ASSUME NEW t \in Tx PROVE readTs'[t] <= clock'
    BY <1>1, <1>2 DEF TimestampsBehindClock
  <2> QED
    BY <2>1, <2>2 DEF TimestampsBehindClock
<1>5. ASSUME NEW t \in Tx, started'[t], NEW k \in Key, commitTs'[k] <= readTs'[t]
      PROVE  snap'[t][k] = db'[k]
  <2>1. readTs[t] <= clock
    BY DEF TimestampsBehindClock
  <2>2. commitTs'[k] = commitTs[k] /\ db'[k] = db[k]
    BY <1>1, <1>3, <1>5, <2>1
  <2> QED
    BY <1>5, <2>2 DEF SnapshotCurrent
<1> QED
  BY <1>4, <1>5 DEF SnapshotCurrent

\* A snapshot taken now is current.
LEMMA StartPreserves ==
  ASSUME TypeOK, TimestampsBehindClock, SnapshotCurrent, NEW t \in Tx,
         EnsureTxn(t) \/ Start(t), UNCHANGED store
  PROVE  TimestampsBehindClock' /\ SnapshotCurrent'
<1>1. /\ clock \in Nat /\ started \in [Tx -> BOOLEAN]
      /\ readTs \in [Tx -> Nat] /\ snap \in [Tx -> [Key -> Value]]
  BY DEF TypeOK
<1>2. UNCHANGED <<db, commitTs, clock>>
  BY DEF store
<1>3. CASE UNCHANGED <<started, readTs, snap>>
  BY <1>2, <1>3 DEF TimestampsBehindClock, SnapshotCurrent
<1>4. CASE Start(t)
  <2>1. started'[t] /\ readTs'[t] = clock /\ snap'[t] = db
    BY <1>1, <1>4 DEF Start
  <2>2. ASSUME NEW u \in Tx, u # t
        PROVE  started'[u] = started[u] /\ readTs'[u] = readTs[u] /\ snap'[u] = snap[u]
    BY <1>1, <1>4, <2>2 DEF Start
  <2>3. TimestampsBehindClock'
    BY <1>1, <1>2, <2>1, <2>2 DEF TimestampsBehindClock
  <2>4. SnapshotCurrent'
    BY <1>2, <2>1, <2>2 DEF SnapshotCurrent
  <2> QED
    BY <2>3, <2>4
<1> QED
  BY <1>3, <1>4 DEF EnsureTxn

\* What a step may do to the versions, and that it preserves the two facts
\* about them.
LEMMA VersionsInductive ==
  TypeOK /\ TimestampsBehindClock /\ SnapshotCurrent /\ [Next]_vars
    => TimestampsBehindClock' /\ SnapshotCurrent'
<1> SUFFICES ASSUME TypeOK, TimestampsBehindClock, SnapshotCurrent, [Next]_vars
             PROVE  TimestampsBehindClock' /\ SnapshotCurrent'
  OBVIOUS
<1>1. CASE UNCHANGED <<db, commitTs, clock, started, readTs, snap>>
  BY <1>1 DEF TimestampsBehindClock, SnapshotCurrent
<1>2. ASSUME NEW t \in Tx, Install(pending[t]), UNCHANGED reader
      PROVE  TimestampsBehindClock' /\ SnapshotCurrent'
  <2>1. pending[t] \in [Key -> Value \cup {NoWrite}]
    BY DEF TypeOK
  <2> QED
    BY <1>2, <2>1, InstallPreserves DEF reader
<1>3. ASSUME NEW t \in Tx, EnsureTxn(t) \/ Start(t), UNCHANGED store
      PROVE  TimestampsBehindClock' /\ SnapshotCurrent'
  BY <1>3, StartPreserves
<1>4. ASSUME NEW S \in Ranges, DropPrefix(S)
      PROVE  TimestampsBehindClock' /\ SnapshotCurrent'
  <2>1. UNCHANGED <<commitTs, clock, started, readTs>>
    BY <1>4 DEF DropPrefix
  <2>2. ASSUME NEW t \in Tx, NEW k \in Key, snap[t][k] = db[k]
        PROVE  snap'[t][k] = db'[k]
    BY <1>4, <2>2 DEF DropPrefix
  <2> QED
    BY <2>1, <2>2 DEF TimestampsBehindClock, SnapshotCurrent
<1>5. CASE UNCHANGED vars
  BY <1>1, <1>5 DEF vars
<1>6. ASSUME NEW t \in Tx, NEW m \in {"read", "write", "batch"}, NewTx(t, m)
      PROVE  TimestampsBehindClock' /\ SnapshotCurrent'
  BY <1>1, <1>3, <1>6 DEF NewTx, store
<1>7. ASSUME NEW t \in Tx, NEW k \in Key, Get(t, k)
      PROVE  TimestampsBehindClock' /\ SnapshotCurrent'
  BY <1>3, <1>7 DEF Get
<1>8. ASSUME NEW t \in Tx, NEW S \in Ranges, NewIterator(t, S)
      PROVE  TimestampsBehindClock' /\ SnapshotCurrent'
  BY <1>3, <1>8 DEF NewIterator
<1>9. ASSUME NEW t \in Tx, NEW k \in Key, NEW v \in Value,
             Buffered(t, k, v) \/ Flushed(t, k, v) \/ Refused(t), UNCHANGED reader
      PROVE  TimestampsBehindClock' /\ SnapshotCurrent'
  BY <1>1, <1>2, <1>9 DEF Buffered, Flushed, Refused, store, reader
<1>10. ASSUME NEW t \in Tx, NEW k \in Key, NEW v \in Val, Set(t, k, v)
       PROVE  TimestampsBehindClock' /\ SnapshotCurrent'
  BY <1>9, <1>10 DEF Set, Value
<1>11. ASSUME NEW t \in Tx, NEW k \in Key, Delete(t, k)
       PROVE  TimestampsBehindClock' /\ SnapshotCurrent'
  BY <1>9, <1>11 DEF Delete, Value
<1>12. ASSUME NEW t \in Tx, Commit(t)
       PROVE  TimestampsBehindClock' /\ SnapshotCurrent'
  BY <1>1, <1>2, <1>12 DEF Commit, store, reader
<1>13. ASSUME NEW t \in Tx,
              CommitFails(t) \/ Publish(t) \/ CommitReturns(t) \/ Rollback(t) \/ Close(t)
       PROVE  TimestampsBehindClock' /\ SnapshotCurrent'
  BY <1>1, <1>13 DEF CommitFails, Publish, CommitReturns, Rollback, Close, store, reader
<1> QED
  BY <1>4, <1>5, <1>6, <1>7, <1>8, <1>10, <1>11, <1>12, <1>13 DEF Next, TxStep

\* A step of an open transaction that leaves it open: what the life-cycle
\* facts need to know about it.
LEMMA OpenStepPreserves ==
  ASSUME TypeOK, StartedUnlessBatch, IdleBuffers, NEW t \in Tx, status[t] = "open",
         UNCHANGED <<status, mode>>,
         \A u \in Tx : started[u] => started'[u],
         \A u \in Tx : pending'[u] = pending[u] \/ (u = t /\ mode[t] # "read")
  PROVE  StartedUnlessBatch' /\ IdleBuffers'
<1>1. StartedUnlessBatch'
  BY DEF StartedUnlessBatch
<1>2. IdleBuffers'
  BY DEF IdleBuffers
<1> QED
  BY <1>1, <1>2

\* The life-cycle facts: which transactions have a snapshot, which a buffer.
LEMMA LifeCycleInductive ==
  TypeOK /\ StartedUnlessBatch /\ IdleBuffers /\ [Next]_vars
    => StartedUnlessBatch' /\ IdleBuffers'
<1> SUFFICES ASSUME TypeOK, StartedUnlessBatch, IdleBuffers, [Next]_vars
             PROVE  StartedUnlessBatch' /\ IdleBuffers'
  OBVIOUS
<1>1. /\ status \in [Tx -> {"new", "open", "publishing", "committed",
                            "failed", "rolledback", "closed"}]
      /\ mode \in [Tx -> {"read", "write", "batch"}]
      /\ started \in [Tx -> BOOLEAN]
      /\ pending \in [Tx -> [Key -> Value \cup {NoWrite}]]
  BY DEF TypeOK
<1>2. ASSUME NEW t \in Tx, NEW m \in {"read", "write", "batch"}, NewTx(t, m)
      PROVE  StartedUnlessBatch' /\ IdleBuffers'
  <2>1. /\ status[t] = "new" /\ UNCHANGED pending
        /\ status' = [status EXCEPT ![t] = "open"]
        /\ mode' = [mode EXCEPT ![t] = m]
    BY <1>2 DEF NewTx, writer
  <2>2. m # "batch" => started'[t]
    BY <1>1, <1>2 DEF NewTx, Start
  <2>3. \A u \in Tx : started[u] => started'[u]
    BY <1>1, <1>2 DEF NewTx, Start
  <2>4. StartedUnlessBatch'
    BY <1>1, <2>1, <2>2, <2>3 DEF StartedUnlessBatch
  <2>5. IdleBuffers'
    BY <1>1, <2>1 DEF IdleBuffers
  <2> QED
    BY <2>4, <2>5
<1>3. ASSUME NEW t \in Tx, status[t] = "open", EnsureTxn(t),
             UNCHANGED <<status, mode, pending>>
      PROVE  StartedUnlessBatch' /\ IdleBuffers'
  <2>1. \A u \in Tx : started[u] => started'[u]
    BY <1>1, <1>3 DEF EnsureTxn, Start
  <2> QED
    BY <1>3, <2>1, OpenStepPreserves
<1>4. ASSUME NEW t \in Tx, NEW k \in Key, NEW v \in Value, status[t] = "open",
             Buffered(t, k, v) \/ Flushed(t, k, v) \/ Refused(t),
             UNCHANGED <<status, mode, reader>>
      PROVE  StartedUnlessBatch' /\ IdleBuffers'
  <2>1. UNCHANGED started
    BY <1>4 DEF reader
  <2>2. \A u \in Tx : pending'[u] = pending[u] \/ (u = t /\ mode[t] # "read")
    BY <1>1, <1>4 DEF Buffered, Flushed, Refused, writer
  <2> QED
    BY <1>4, <2>1, <2>2, OpenStepPreserves
<1>5. ASSUME NEW t \in Tx, Commit(t) \/ CommitReturns(t) \/ Publish(t)
      PROVE  StartedUnlessBatch' /\ IdleBuffers'
  <2>1. /\ UNCHANGED <<mode, started, pending>>
        /\ \/ UNCHANGED status
           \/ status' = [status EXCEPT ![t] = "publishing"]
           \/ status' = [status EXCEPT ![t] = "committed"]
    BY <1>5 DEF Commit, CommitReturns, Publish, reader, writer
  <2> QED
    BY <1>1, <2>1 DEF StartedUnlessBatch, IdleBuffers
<1>6. ASSUME NEW t \in Tx, CommitFails(t) \/ Rollback(t) \/ Close(t)
      PROVE  StartedUnlessBatch' /\ IdleBuffers'
  <2>1. /\ UNCHANGED <<mode, started>>
        /\ pending' = [pending EXCEPT ![t] = Nothing]
        /\ \/ status' = [status EXCEPT ![t] = "failed"]
           \/ status' = [status EXCEPT ![t] = "rolledback"]
           \/ status' = [status EXCEPT ![t] = "closed"]
    BY <1>6 DEF CommitFails, Rollback, Close, reader
  <2>2. StartedUnlessBatch'
    BY <1>1, <2>1 DEF StartedUnlessBatch
  <2>3. IdleBuffers'
    BY <1>1, <2>1 DEF IdleBuffers
  <2> QED
    BY <2>2, <2>3
<1>7. CASE UNCHANGED <<status, mode, started, pending>>
  BY <1>7 DEF StartedUnlessBatch, IdleBuffers
<1>8. ASSUME NEW t \in Tx, NEW k \in Key, Get(t, k)
      PROVE  StartedUnlessBatch' /\ IdleBuffers'
  BY <1>3, <1>8 DEF Get, writer
<1>9. ASSUME NEW t \in Tx, NEW S \in Ranges, NewIterator(t, S)
      PROVE  StartedUnlessBatch' /\ IdleBuffers'
  BY <1>3, <1>9 DEF NewIterator, writer
<1>10. ASSUME NEW t \in Tx, NEW k \in Key, NEW v \in Val, Set(t, k, v)
       PROVE  StartedUnlessBatch' /\ IdleBuffers'
  BY <1>4, <1>10 DEF Set, Value
<1>11. ASSUME NEW t \in Tx, NEW k \in Key, Delete(t, k)
       PROVE  StartedUnlessBatch' /\ IdleBuffers'
  BY <1>4, <1>11 DEF Delete, Value
<1>12. ASSUME NEW S \in Ranges, DropPrefix(S)
       PROVE  StartedUnlessBatch' /\ IdleBuffers'
  BY <1>7, <1>12 DEF DropPrefix, writer
<1>13. CASE UNCHANGED vars
  BY <1>7, <1>13 DEF vars
<1> QED
  BY <1>2, <1>5, <1>6, <1>8, <1>9, <1>10, <1>11, <1>12, <1>13 DEF Next, TxStep

\* The inductive invariant holds at the start.
LEMMA InitIInv == Init => IInv
<1> SUFFICES ASSUME Init PROVE IInv
  OBVIOUS
<1>1. TypeOK
  BY InitTypeOK
<1>2. TimestampsBehindClock
  BY DEF Init, TimestampsBehindClock
<1>3. SnapshotCurrent
  BY DEF Init, SnapshotCurrent
<1>4. StartedUnlessBatch /\ IdleBuffers
  BY DEF Init, StartedUnlessBatch, IdleBuffers
<1> QED
  BY <1>1, <1>2, <1>3, <1>4 DEF IInv

\* Every reachable state satisfies the inductive invariant.
LEMMA Invariance == Spec => []IInv
<1>1. IInv /\ [Next]_vars => IInv'
  BY NextTypeOK, VersionsInductive, LifeCycleInductive DEF IInv
<1> QED
  BY <1>1, InitIInv, PTL DEF Spec

\* A version no newer than a read timestamp is the one in the snapshot, so
\* that the commit check on timestamps (tx.go:115) decides staleness.
THEOREM SnapshotsAreCurrent == Spec => []SnapshotCurrent
<1>1. IInv => SnapshotCurrent
  BY DEF IInv
<1> QED
  BY <1>1, Invariance, PTL

-----------------------------------------------------------------------------
(* Refinement: every step of the provider is a step of AtomicKV, or stutters *)
(* there (publishing, returning from Commit, a refused Delete).              *)

\* The phase of one transaction changes with its status and nothing else.
LEMMA PhaseUpdate ==
  ASSUME TypeOK, NEW t \in Tx, NEW p,
         \A u \in Tx : u # t => status'[u] = status[u] /\ mode'[u] = mode[u],
         Phase(t)' = p
  PROVE  [u \in Tx |-> Phase(u)]' = [[u \in Tx |-> Phase(u)] EXCEPT ![t] = p]
BY DEF Phase

\* A step that leaves status and mode alone leaves every phase alone.
LEMMA PhaseSame ==
  ASSUME UNCHANGED <<status, mode>>
  PROVE  [u \in Tx |-> Phase(u)]' = [u \in Tx |-> Phase(u)]
BY DEF Phase

\* The empty database is the initial state of the abstract store.
LEMMA InitRefines == Init => Atomic!Init
<1> SUFFICES ASSUME Init PROVE Atomic!Init
  OBVIOUS
<1>1. [t \in Tx |-> Phase(t)] = [t \in Tx |-> "idle"]
  BY DEF Init, Phase
<1> QED
  BY <1>1 DEF Init, Atomic!Init, Atomic!Empty, Atomic!Nothing, Empty, Nothing

\* A read, of one key or of a range, is an abstract read.
LEMMA ReadRefines ==
  ASSUME IInv, NEW t \in Tx, status[t] = "open", NEW S \in SUBSET Key,
         EnsureTxn(t),
         reads' = reads \/ reads' = [reads EXCEPT ![t] = @ \cup S],
         UNCHANGED <<store, status, mode, writer>>
  PROVE  \E R \in SUBSET Key : Atomic!Read(t, R)
<1>1. PICK R \in SUBSET Key : reads' = [reads EXCEPT ![t] = @ \cup R]
  <2>1. reads = [reads EXCEPT ![t] = @ \cup {}]
    BY DEF IInv, TypeOK
  <2>2. {} \in SUBSET Key
    OBVIOUS
  <2> QED
    BY <2>1, <2>2
<1>2. [u \in Tx |-> Phase(u)][t] = mode[t] /\ mode[t] \in {"read", "write", "batch"}
  BY DEF Phase, IInv, TypeOK
<1>3. UNCHANGED snap \/ (mode[t] = "batch" /\ snap' = [snap EXCEPT ![t] = db])
  BY DEF EnsureTxn, Start, IInv, StartedUnlessBatch
<1>4. [u \in Tx |-> Phase(u)]' = [u \in Tx |-> Phase(u)]
  BY PhaseSame
<1>5. UNCHANGED <<db, pending>>
  BY DEF store, writer
<1>6. Atomic!Read(t, R)
  BY <1>1, <1>2, <1>3, <1>4, <1>5 DEF Atomic!Read
<1> QED
  BY <1>6

\* A Set or Delete is an abstract write, a flush and a write, or nothing.
LEMMA WriteRefines ==
  ASSUME IInv, NEW t \in Tx, status[t] = "open", NEW k \in Key, NEW v \in Value,
         Buffered(t, k, v) \/ Flushed(t, k, v) \/ Refused(t),
         UNCHANGED <<status, mode, reader>>
  PROVE  \/ Atomic!Write(t, k, v)
         \/ Atomic!FlushAndWrite(t, k, v)
         \/ UNCHANGED Atomic!vars
<1>1. [u \in Tx |-> Phase(u)][t] = mode[t]
  BY DEF Phase
<1>2. [u \in Tx |-> Phase(u)]' = [u \in Tx |-> Phase(u)]
  BY PhaseSame
<1>3. UNCHANGED <<snap, reads>>
  BY DEF reader
<1>4. CASE Buffered(t, k, v)
  BY <1>1, <1>2, <1>3, <1>4 DEF Buffered, store, Atomic!Write
<1>5. CASE Flushed(t, k, v)
  BY <1>1, <1>2, <1>3, <1>5
     DEF Flushed, Install, Overlay, Nothing,
         Atomic!FlushAndWrite, Atomic!Overlay, Atomic!Nothing
<1>6. CASE Refused(t)
  BY <1>2, <1>3, <1>6 DEF Refused, store, writer, Atomic!vars
<1> QED
  BY <1>4, <1>5, <1>6

\* A commit the oracle lets through is an abstract commit: no key the
\* transaction read has a version newer than its read timestamp, so by
\* SnapshotCurrent its view agrees with the store on all of them.
LEMMA CommitRefines ==
  ASSUME IInv, NEW t \in Tx, Commit(t)
  PROVE  Atomic!Commit(t)
<1>1. /\ status[t] = "open" /\ mode[t] \in {"read", "write", "batch"}
      /\ db \in [Key -> Value] /\ commitTs \in [Key -> Nat] /\ readTs \in [Tx -> Nat]
      /\ reads[t] \in SUBSET Key
  BY DEF Commit, IInv, TypeOK
<1>2. [u \in Tx |-> Phase(u)][t] = mode[t]
  BY <1>1 DEF Phase
<1>3. mode[t] = "write" /\ pending[t] # Nothing => \A k \in reads[t] : snap[t][k] = db[k]
  <2> SUFFICES ASSUME mode[t] = "write", pending[t] # Nothing, NEW k \in reads[t]
               PROVE  snap[t][k] = db[k]
    OBVIOUS
  <2>1. commitTs[k] <= readTs[t]
    BY <1>1 DEF Commit, Conflict
  <2>2. started[t]
    BY <1>1 DEF IInv, StartedUnlessBatch
  <2> QED
    BY <1>1, <2>1, <2>2 DEF IInv, SnapshotCurrent
<1>4. db' = IF mode[t] = "read" THEN db ELSE Overlay(db, pending[t])
  <2>1. Overlay(db, Nothing) = db
    BY <1>1 DEF Overlay, Nothing
  <2>2. mode[t] = "read" => pending[t] = Nothing
    BY DEF IInv, IdleBuffers
  <2> QED
    BY <2>1, <2>2 DEF Commit, Install, store
<1>5. [u \in Tx |-> Phase(u)]' = [[u \in Tx |-> Phase(u)] EXCEPT ![t] = "ended"]
  <2>1. Phase(t)' = "ended" /\ \A u \in Tx : u # t => status'[u] = status[u] /\ mode'[u] = mode[u]
    BY DEF Commit, Phase, IInv, TypeOK
  <2> QED
    BY <2>1, PhaseUpdate DEF IInv
<1>6. UNCHANGED <<snap, reads, pending>>
  BY DEF Commit, reader, writer
<1> QED
  BY <1>1, <1>2, <1>3, <1>4, <1>5, <1>6
     DEF Atomic!Commit, Atomic!Current, Atomic!Overlay, Atomic!Nothing, Overlay, Nothing

\* A transaction that gives up is an abstract abort.
LEMMA AbortRefines ==
  ASSUME IInv, NEW t \in Tx, CommitFails(t) \/ Rollback(t) \/ Close(t)
  PROVE  Atomic!Abort(t) \/ UNCHANGED Atomic!vars
<1>1. /\ UNCHANGED <<db, snap, reads, mode>>
      /\ pending' = [pending EXCEPT ![t] = Nothing]
      /\ status[t] \in {"open", "failed"}
      /\ \/ status' = [status EXCEPT ![t] = "failed"]
         \/ status' = [status EXCEPT ![t] = "rolledback"]
         \/ status' = [status EXCEPT ![t] = "closed"]
  BY DEF CommitFails, Rollback, Close, store, reader
<1>2. [u \in Tx |-> Phase(u)]' = [[u \in Tx |-> Phase(u)] EXCEPT ![t] = "ended"]
  <2>1. Phase(t)' = "ended" /\ \A u \in Tx : u # t => status'[u] = status[u] /\ mode'[u] = mode[u]
    BY <1>1 DEF Phase, IInv, TypeOK
  <2> QED
    BY <2>1, PhaseUpdate DEF IInv
<1>3. CASE status[t] = "open"
  <2>1. [u \in Tx |-> Phase(u)][t] \in {"read", "write", "batch"}
    BY <1>3 DEF Phase, IInv, TypeOK
  <2> QED
    BY <1>1, <1>2, <2>1 DEF Atomic!Abort, Atomic!Nothing, Nothing
<1>4. CASE status[t] = "failed"
  <2>1. pending' = pending
    BY <1>1, <1>4 DEF IInv, IdleBuffers, TypeOK
  <2>2. [u \in Tx |-> Phase(u)]' = [u \in Tx |-> Phase(u)]
    BY <1>2, <1>4 DEF Phase
  <2> QED
    BY <1>1, <2>1, <2>2 DEF Atomic!vars
<1> QED
  BY <1>1, <1>3, <1>4

\* Opening a transaction is an abstract beginning.
LEMMA NewTxRefines ==
  ASSUME IInv, NEW t \in Tx, NEW m \in {"read", "write", "batch"}, NewTx(t, m)
  PROVE  Atomic!Begin(t, m)
<1>1. [u \in Tx |-> Phase(u)][t] = "idle"
  BY DEF NewTx, Phase
<1>2. [u \in Tx |-> Phase(u)]' = [[u \in Tx |-> Phase(u)] EXCEPT ![t] = m]
  <2>1. Phase(t)' = m /\ \A u \in Tx : u # t => status'[u] = status[u] /\ mode'[u] = mode[u]
    BY DEF NewTx, Phase, IInv, TypeOK
  <2> QED
    BY <2>1, PhaseUpdate DEF IInv
<1>3. snap' = IF m = "batch" THEN snap ELSE [snap EXCEPT ![t] = db]
  BY DEF NewTx, Start
<1>4. UNCHANGED <<db, reads, pending>>
  BY DEF NewTx, store, writer
<1> QED
  BY <1>1, <1>2, <1>3, <1>4 DEF Atomic!Begin

\* Every step of the provider is a step of the abstract store, or none.
LEMMA StepRefines == IInv /\ [Next]_vars => [Atomic!Next]_(Atomic!vars)
<1> SUFFICES ASSUME IInv, [Next]_vars PROVE Atomic!Next \/ UNCHANGED Atomic!vars
  OBVIOUS
<1>1. ASSUME NEW t \in Tx, NEW m \in {"read", "write", "batch"}, NewTx(t, m)
      PROVE  Atomic!Next
  BY <1>1, NewTxRefines DEF Atomic!Next
<1>2. ASSUME NEW t \in Tx, NEW k \in Key, Get(t, k)
      PROVE  Atomic!Next
  <2>1. {k} \in SUBSET Key
    OBVIOUS
  <2>2. /\ status[t] = "open" /\ EnsureTxn(t)
        /\ reads' = reads \/ reads' = [reads EXCEPT ![t] = @ \cup {k}]
        /\ UNCHANGED <<store, status, mode, writer>>
    BY <1>2 DEF Get
  <2>3. \E R \in SUBSET Key : Atomic!Read(t, R)
    BY <2>1, <2>2, ReadRefines
  <2> QED
    BY <2>3 DEF Atomic!Next
<1>3. ASSUME NEW t \in Tx, NEW S \in Ranges, NewIterator(t, S)
      PROVE  Atomic!Next
  <2>1. {k \in S : Visible(t)[k] # Nil} \in SUBSET Key
    BY RangesAssumption
  <2>2. /\ status[t] = "open" /\ EnsureTxn(t)
        /\ \/ reads' = reads
           \/ reads' = [reads EXCEPT ![t] = @ \cup {k \in S : Visible(t)[k] # Nil}]
        /\ UNCHANGED <<store, status, mode, writer>>
    BY <1>3 DEF NewIterator
  <2>3. \E R \in SUBSET Key : Atomic!Read(t, R)
    BY <2>1, <2>2, ReadRefines
  <2> QED
    BY <2>3 DEF Atomic!Next
<1>4. ASSUME NEW t \in Tx, NEW k \in Key, NEW v \in Val, Set(t, k, v)
      PROVE  Atomic!Next \/ UNCHANGED Atomic!vars
  <2>1. v \in Value /\ v \in Atomic!Value
    BY DEF Value, Atomic!Value
  <2>2. /\ status[t] = "open" /\ UNCHANGED <<status, mode, reader>>
        /\ Buffered(t, k, v) \/ Flushed(t, k, v) \/ Refused(t)
    BY <1>4 DEF Set
  <2> QED
    BY <2>1, <2>2, WriteRefines DEF Atomic!Next
<1>5. ASSUME NEW t \in Tx, NEW k \in Key, Delete(t, k)
      PROVE  Atomic!Next \/ UNCHANGED Atomic!vars
  <2>1. Nil \in Value /\ Nil \in Atomic!Value
    BY DEF Value, Atomic!Value
  <2>2. /\ status[t] = "open" /\ UNCHANGED <<status, mode, reader>>
        /\ Buffered(t, k, Nil) \/ Flushed(t, k, Nil) \/ Refused(t)
    BY <1>5 DEF Delete
  <2> QED
    BY <2>1, <2>2, WriteRefines DEF Atomic!Next
<1>6. ASSUME NEW t \in Tx, Commit(t)
      PROVE  Atomic!Next
  BY <1>6, CommitRefines DEF Atomic!Next
<1>7. ASSUME NEW t \in Tx, CommitFails(t) \/ Rollback(t) \/ Close(t)
      PROVE  Atomic!Next \/ UNCHANGED Atomic!vars
  BY <1>7, AbortRefines DEF Atomic!Next
<1>8. ASSUME NEW t \in Tx, Publish(t) \/ CommitReturns(t)
      PROVE  UNCHANGED Atomic!vars
  <2>1. UNCHANGED <<db, snap, reads, pending, mode>>
    BY <1>8 DEF Publish, CommitReturns, store, reader, writer
  <2>2. \A u \in Tx : Phase(u)' = Phase(u)
    BY <1>8 DEF Publish, CommitReturns, Phase, IInv, TypeOK
  <2>3. [u \in Tx |-> Phase(u)]' = [u \in Tx |-> Phase(u)]
    BY <2>2
  <2> QED
    BY <2>1, <2>3 DEF Atomic!vars
<1>9. ASSUME NEW S \in Ranges, DropPrefix(S)
      PROVE  Atomic!Next
  <2>1. S \in SUBSET Key
    BY RangesAssumption
  <2>2. [u \in Tx |-> Phase(u)]' = [u \in Tx |-> Phase(u)]
    BY <1>9, PhaseSame DEF DropPrefix
  <2>3. Atomic!Drop(S)
    BY <1>9, <2>2 DEF DropPrefix, writer, Atomic!Drop
  <2> QED
    BY <2>1, <2>3 DEF Atomic!Next
<1>10. CASE UNCHANGED vars
  <2>1. UNCHANGED <<status, mode>> /\ UNCHANGED <<db, snap, reads, pending>>
    BY <1>10 DEF vars
  <2>2. [u \in Tx |-> Phase(u)]' = [u \in Tx |-> Phase(u)]
    BY <2>1, PhaseSame
  <2> QED
    BY <2>1, <2>2 DEF Atomic!vars
<1> QED
  BY <1>1, <1>2, <1>3, <1>4, <1>5, <1>6, <1>7, <1>8, <1>9, <1>10 DEF Next, TxStep

\* The badger provider implements the store AtomicKV: what a committed
\* transaction read was current when it committed, its writes appear together,
\* and one that does not commit leaves no trace, except for the parts a batch
\* has sent out while it was being written (tx.go:65, 94-126).
THEOREM Refinement == Spec => Serializable
BY InitRefines, StepRefines, Invariance, PTL DEF Spec, Serializable, Atomic!Spec
-----------------------------------------------------------------------------
(* The change stream.  What Commit has published is a prefix of what the     *)
(* transaction recorded, in place and in order, whatever other transactions  *)
(* have published in between.                                                *)

\* The publishing loop has sent the first sent[t] entries, none before the
\* commit and all of them when Commit returns.
PublishedPrefix ==
  \A t \in Tx :
    /\ sent[t] <= Len(entries[t])
    /\ ~Committed(t) => sent[t] = 0
    /\ status[t] = "committed" => sent[t] = Len(entries[t])
    /\ PublishedInOrder(t, sent[t])

\* The versions of a key the transaction has put into the store, and the one
\* its commit would add.
Versions(t, k) == IF pending[t][k] = NoWrite \/ Committed(t) THEN installed[t][k]
                  ELSE Append(installed[t][k], pending[t][k])

\* Entries e record the versions vs of key k in their order, and deletions of
\* the key at most after the last: those that badger refused.
RecordedIn(e, k, vs) ==
  \E at \in [DOMAIN vs -> DOMAIN e] :
    /\ \A m \in DOMAIN vs : e[at[m]] = [key |-> k, value |-> vs[m]]
    /\ \A l, m \in DOMAIN vs : l < m => at[l] < at[m]
    /\ \A i \in DOMAIN e :
         e[i].key = k /\ (\A m \in DOMAIN vs : at[m] < i) => e[i].value = Nil

\* So do the entries of every transaction that has not been given up.
Recorded ==
  \A t \in Tx : status[t] \notin {"failed", "rolledback", "closed"} =>
    \A k \in Key : RecordedIn(entries[t], k, Versions(t, k))

\* Messages stay in place, and those of a transaction stay its entries while
\* the entries published so far are the same.
LEMMA OrderKept ==
  ASSUME NEW t \in Tx, NEW n \in Nat, PublishedInOrder(t, n), UNCHANGED stream,
         \A m \in 1 .. n : entries'[t][m] = entries[t][m]
  PROVE  PublishedInOrder(t, n)'
<1>1. Published(t)' = Published(t)
  BY DEF Published
<1> QED
  BY <1>1 DEF PublishedInOrder

\* A message at the end of the stream is after all the others.
LEMMA OrderExtended ==
  ASSUME TypeOK, NEW t \in Tx, Publish(t), NEW u \in Tx, PublishedInOrder(u, sent[u])
  PROVE  PublishedInOrder(u, sent[u])'
<1> DEFINE last == Len(stream) + 1
           msg == [tx |-> t, cdc |-> entries[t][sent[t] + 1]]
           n == sent[t] + 1
<1>1. stream \in Seq(Message) /\ sent \in [Tx -> Nat]
  BY DEF TypeOK
<1>2. /\ DOMAIN stream' = DOMAIN stream \cup {last} /\ DOMAIN stream = 1 .. Len(stream)
      /\ stream'[last] = msg /\ \A i \in DOMAIN stream : stream'[i] = stream[i]
      /\ Len(stream) \in Nat
  <2>1. stream' = Append(stream, msg)
    BY DEF Publish
  <2>2. entries[t][sent[t] + 1] \in Entry
    BY DEF TypeOK, Publish
  <2>3. msg \in Message
    BY <2>2 DEF Message
  <2> QED
    BY <1>1, <2>1, <2>3
<1>3. UNCHANGED entries /\ sent' = [sent EXCEPT ![t] = n]
  BY DEF Publish
<1>4. PICK at \in [1 .. sent[u] -> Published(u)] :
        /\ \A i \in Published(u) : \E m \in 1 .. sent[u] : at[m] = i
        /\ \A m \in 1 .. sent[u] : stream[at[m]].cdc = entries[u][m]
        /\ \A l, m \in 1 .. sent[u] : l < m => at[l] < at[m]
  BY DEF PublishedInOrder
<1>5. Published(u) \subseteq DOMAIN stream
  BY DEF Published
<1> HIDE DEF last, n
<1>6. CASE u # t
  <2>1. Published(u)' = Published(u)
    BY <1>2, <1>6 DEF Published
  <2>2. sent'[u] = sent[u]
    BY <1>1, <1>3, <1>6
  <2>3. \A m \in 1 .. sent[u] : stream'[at[m]].cdc = entries'[u][m]
    BY <1>2, <1>3, <1>4, <1>5
  <2> QED
    BY <1>4, <2>1, <2>2, <2>3 DEF PublishedInOrder
<1>7. CASE u = t
  <2> DEFINE to == [m \in 1 .. n |-> IF m = n THEN last ELSE at[m]]
  <2>1. Published(t)' = Published(t) \cup {last}
    BY <1>2 DEF Published
  <2>2. sent'[t] = n /\ 1 .. n = (1 .. sent[t]) \cup {n} /\ n \notin 1 .. sent[t] /\ n \in Nat
    BY <1>1, <1>3 DEF n
  <2>3. \A m \in 1 .. sent[t] : to[m] = at[m] /\ at[m] \in Published(t) /\ at[m] < last
    BY <1>1, <1>2, <1>4, <1>5, <1>7, <2>2 DEF last
  <2>4. to[n] = last
    BY <2>2
  <2>5. to \in [1 .. n -> Published(t)']
    BY <2>1, <2>2, <2>3
  <2>6. \A i \in Published(t)' : \E m \in 1 .. n : to[m] = i
    BY <1>4, <1>7, <2>1, <2>2, <2>3, <2>4
  <2>7. \A m \in 1 .. n : stream'[to[m]].cdc = entries'[t][m]
    <3>1. stream'[last].cdc = entries[t][n]
      BY <1>2 DEF n
    <3>2. \A m \in 1 .. sent[t] : stream'[at[m]].cdc = entries[t][m]
      BY <1>2, <1>4, <1>5, <1>7
    <3> QED
      BY <1>3, <2>2, <2>3, <2>4, <3>1, <3>2
  <2>8. \A l, m \in 1 .. n : l < m => to[l] < to[m]
    <3> SUFFICES ASSUME NEW l \in 1 .. n, NEW m \in 1 .. n, l < m PROVE to[l] < to[m]
      OBVIOUS
    <3>1. l \in 1 .. sent[t]
      BY <1>1, <2>2 DEF n
    <3> QED
      BY <1>4, <1>7, <2>2, <2>3, <2>4, <3>1
  <2> HIDE DEF to
  <2> QED
    BY <1>7, <2>2, <2>5, <2>6, <2>7, <2>8 DEF PublishedInOrder
<1> QED
  BY <1>6, <1>7

\* A step that publishes nothing and does not touch what is being published.
LEMMA PrefixKept ==
  ASSUME TypeOK, PublishedPrefix, UNCHANGED <<stream, sent>>,
         \A u \in Tx : entries'[u] = entries[u]
                       \/ (sent[u] = 0 /\ Len(entries'[u]) \in Nat /\ status'[u] # "committed"),
         \A u \in Tx : ~Committed(u)' => ~Committed(u),
         \A u \in Tx : status'[u] = "committed" => sent[u] = Len(entries[u])
  PROVE  PublishedPrefix'
<1> SUFFICES ASSUME NEW u \in Tx
             PROVE  /\ sent'[u] <= Len(entries'[u])
                    /\ ~Committed(u)' => sent'[u] = 0
                    /\ status'[u] = "committed" => sent'[u] = Len(entries'[u])
                    /\ PublishedInOrder(u, sent[u])'
  BY DEF PublishedPrefix
<1>1. /\ sent[u] <= Len(entries[u]) /\ sent[u] \in Nat /\ sent'[u] = sent[u]
      /\ ~Committed(u) => sent[u] = 0
      /\ PublishedInOrder(u, sent[u])
  BY DEF PublishedPrefix, TypeOK
<1>2. \A m \in 1 .. sent[u] : entries'[u][m] = entries[u][m]
  BY <1>1
<1>3. PublishedInOrder(u, sent[u])'
  BY <1>1, <1>2, OrderKept
<1> QED
  BY <1>1, <1>3

\* No step disturbs what has been published.
LEMMA PrefixInductive == TypeOK /\ PublishedPrefix /\ [Next]_vars => PublishedPrefix'
<1> SUFFICES ASSUME TypeOK, PublishedPrefix, [Next]_vars PROVE PublishedPrefix'
  OBVIOUS
<1>0. /\ status \in [Tx -> {"new", "open", "publishing", "committed",
                            "failed", "rolledback", "closed"}]
      /\ entries \in [Tx -> Seq(Entry)] /\ sent \in [Tx -> Nat]
      /\ \A u \in Tx : ~Committed(u) => sent[u] = 0
      /\ \A u \in Tx : status[u] = "committed" => sent[u] = Len(entries[u])
  BY DEF TypeOK, PublishedPrefix
<1>1. CASE UNCHANGED <<stream, sent, entries, status>>
  BY <1>0, <1>1, PrefixKept DEF Committed
<1>2. ASSUME NEW t \in Tx, NEW m \in {"read", "write", "batch"}, NewTx(t, m)
      PROVE  PublishedPrefix'
  <2>1. status[t] = "new" /\ status' = [status EXCEPT ![t] = "open"]
        /\ UNCHANGED <<stream, sent, entries>>
    BY <1>2 DEF NewTx
  <2> QED
    BY <1>0, <2>1, PrefixKept DEF Committed
<1>3. ASSUME NEW t \in Tx, NEW k \in Key, NEW v \in Value, status[t] = "open", Record(t, k, v),
             UNCHANGED <<status, sent, stream>>
      PROVE  PublishedPrefix'
  <2>1. entries'[t] = Append(entries[t], [key |-> k, value |-> v]) /\ entries[t] \in Seq(Entry)
    BY <1>0, <1>3 DEF Record
  <2>2. Append(entries[t], [key |-> k, value |-> v]) \in Seq(Entry)
    BY <2>1 DEF Entry
  <2>3. Len(entries'[t]) \in Nat
    BY <2>1, <2>2
  <2>4. \A u \in Tx : u # t => entries'[u] = entries[u]
    BY <1>0, <1>3 DEF Record
  <2>5. sent[t] = 0
    BY <1>0, <1>3 DEF Committed
  <2> QED
    BY <1>0, <1>3, <2>3, <2>4, <2>5, PrefixKept DEF Committed
<1>4. ASSUME NEW t \in Tx, Commit(t) \/ CommitFails(t) \/ Close(t)
      PROVE  PublishedPrefix'
  <2>1. /\ status[t] = "open" /\ UNCHANGED <<stream, sent, entries>>
        /\ \/ status' = [status EXCEPT ![t] = "publishing"]
           \/ status' = [status EXCEPT ![t] = "failed"]
           \/ status' = [status EXCEPT ![t] = "closed"]
    BY <1>4 DEF Commit, CommitFails, Close
  <2> QED
    BY <1>0, <2>1, PrefixKept DEF Committed
<1>5. ASSUME NEW t \in Tx, CommitReturns(t)
      PROVE  PublishedPrefix'
  <2>1. /\ status[t] = "publishing" /\ sent[t] = Len(entries[t])
        /\ UNCHANGED <<stream, sent, entries>> /\ status' = [status EXCEPT ![t] = "committed"]
    BY <1>5 DEF CommitReturns
  <2> QED
    BY <1>0, <2>1, PrefixKept DEF Committed
<1>6. ASSUME NEW t \in Tx, Rollback(t)
      PROVE  PublishedPrefix'
  <2>1. /\ status[t] \in {"open", "failed"} /\ UNCHANGED <<stream, sent>>
        /\ status' = [status EXCEPT ![t] = "rolledback"]
        /\ entries' = [entries EXCEPT ![t] = << >>]
    BY <1>6 DEF Rollback
  <2>2. sent[t] = 0 /\ Len(entries'[t]) \in Nat /\ \A u \in Tx : u # t => entries'[u] = entries[u]
    BY <1>0, <2>1 DEF Committed
  <2> QED
    BY <1>0, <2>1, <2>2, PrefixKept DEF Committed
<1>7. ASSUME NEW t \in Tx, Publish(t)
      PROVE  PublishedPrefix'
  <2>1. /\ status[t] = "publishing" /\ sent[t] < Len(entries[t])
        /\ UNCHANGED <<status, entries>> /\ sent' = [sent EXCEPT ![t] = @ + 1]
    BY <1>7 DEF Publish
  <2>2. ASSUME NEW u \in Tx PROVE PublishedInOrder(u, sent[u])'
    BY <1>7, OrderExtended DEF PublishedPrefix
  <2>3. ASSUME NEW u \in Tx
        PROVE  /\ sent'[u] <= Len(entries'[u])
               /\ ~Committed(u)' => sent'[u] = 0
               /\ status'[u] = "committed" => sent'[u] = Len(entries'[u])
    BY <1>0, <2>1 DEF PublishedPrefix, Committed
  <2> QED
    BY <2>2, <2>3 DEF PublishedPrefix
<1>8. ASSUME NEW t \in Tx, NEW k \in Key, Get(t, k)
      PROVE  PublishedPrefix'
  BY <1>1, <1>8 DEF Get
<1>9. ASSUME NEW t \in Tx, NEW S \in Ranges, NewIterator(t, S)
      PROVE  PublishedPrefix'
  BY <1>1, <1>9 DEF NewIterator
<1>10. ASSUME NEW t \in Tx, NEW k \in Key, NEW v \in Val, Set(t, k, v)
       PROVE  PublishedPrefix'
  BY <1>3, <1>10 DEF Set, Value
<1>11. ASSUME NEW t \in Tx, NEW k \in Key, Delete(t, k)
       PROVE  PublishedPrefix'
  BY <1>3, <1>11 DEF Delete, Value
<1>12. ASSUME NEW S \in Ranges, DropPrefix(S)
       PROVE  PublishedPrefix'
  BY <1>1, <1>12 DEF DropPrefix
<1>13. CASE UNCHANGED vars
  BY <1>1, <1>13 DEF vars
<1> QED
  BY <1>2, <1>4, <1>5, <1>6, <1>7, <1>8, <1>9, <1>10, <1>11, <1>12, <1>13 DEF Next, TxStep

\* What an entry more looks like.
LEMMA OneMore ==
  ASSUME NEW e \in Seq(Entry), NEW k \in Key, NEW v \in Value, NEW n, n = Len(e) + 1
  PROVE  LET f == Append(e, [key |-> k, value |-> v])
         IN  /\ n \in Nat /\ DOMAIN e = 1 .. (n - 1) /\ DOMAIN f = 1 .. n
             /\ f[n] = [key |-> k, value |-> v]
             /\ \A i \in 1 .. (n - 1) : f[i] = e[i]
<1>1. [key |-> k, value |-> v] \in Entry
  BY DEF Entry
<1> QED
  BY <1>1

\* Recording a version that badger accepted: it follows versions recorded
\* before, of which the last may have been overwritten in the buffer.
LEMMA RecordAccepted ==
  ASSUME NEW e \in Seq(Entry), NEW k \in Key, NEW v \in Value,
         NEW vs \in Seq(Value), RecordedIn(e, k, vs),
         NEW ws \in Seq(Value), Len(ws) <= Len(vs),
         \A m \in 1 .. Len(ws) : ws[m] = vs[m]
  PROVE  RecordedIn(Append(e, [key |-> k, value |-> v]), k, Append(ws, v))
<1> DEFINE f == Append(e, [key |-> k, value |-> v])
           us == Append(ws, v)
<1>1. PICK n : n = Len(e) + 1
  OBVIOUS
<1>2. /\ n \in Nat /\ DOMAIN e = 1 .. (n - 1) /\ DOMAIN f = 1 .. n
      /\ f[n] = [key |-> k, value |-> v]
      /\ \A i \in 1 .. (n - 1) : f[i] = e[i]
  BY <1>1, OneMore
<1>3. PICK p : p = Len(ws) + 1
  OBVIOUS
<1>4. /\ p \in Nat /\ DOMAIN us = 1 .. p /\ us[p] = v
      /\ \A m \in 1 .. (p - 1) : us[m] = vs[m] /\ m \in DOMAIN vs
  BY <1>3
<1>5. PICK at \in [DOMAIN vs -> DOMAIN e] :
        /\ \A m \in DOMAIN vs : e[at[m]] = [key |-> k, value |-> vs[m]]
        /\ \A l, m \in DOMAIN vs : l < m => at[l] < at[m]
  BY DEF RecordedIn
<1> HIDE DEF f, us
<1>6. PICK to : to = [m \in 1 .. p |-> IF m = p THEN n ELSE at[m]]
  OBVIOUS
<1>7. \A m \in 1 .. p : m = p \/ m \in 1 .. (p - 1)
  BY <1>4
<1>8. /\ to[p] = n
      /\ \A m \in 1 .. (p - 1) : to[m] = at[m] /\ to[m] \in 1 .. (n - 1)
  <2>1. p \in 1 .. p /\ \A m \in 1 .. (p - 1) : m \in 1 .. p /\ m # p
    BY <1>3, <1>4
  <2> QED
    BY <1>2, <1>4, <1>5, <1>6, <2>1
<1>9. to \in [1 .. p -> 1 .. n]
  <2>1. \A m \in 1 .. p : to[m] \in 1 .. n
    BY <1>1, <1>2, <1>7, <1>8
  <2> QED
    BY <1>6, <2>1
<1>10. \A m \in 1 .. p : f[to[m]] = [key |-> k, value |-> us[m]]
  BY <1>2, <1>4, <1>5, <1>7, <1>8
<1>11. \A l, m \in 1 .. p : l < m => to[l] < to[m]
  <2> SUFFICES ASSUME NEW l \in 1 .. p, NEW m \in 1 .. p, l < m PROVE to[l] < to[m]
    OBVIOUS
  <2>1. l \in 1 .. (p - 1)
    BY <1>4
  <2>2. CASE m = p
    BY <1>2, <1>8, <2>1, <2>2
  <2>3. CASE m # p
    <3>1. m \in 1 .. (p - 1)
      BY <1>7, <2>3
    <3> QED
      BY <1>4, <1>5, <1>8, <2>1, <3>1
  <2> QED
    BY <2>2, <2>3
<1>12. \A i \in 1 .. n : ~(\A m \in 1 .. p : to[m] < i)
  <2>1. p \in 1 .. p
    BY <1>3, <1>4
  <2> QED
    BY <1>2, <1>8, <2>1
<1>13. \E a \in [1 .. p -> 1 .. n] :
         /\ \A m \in 1 .. p : f[a[m]] = [key |-> k, value |-> us[m]]
         /\ \A l, m \in 1 .. p : l < m => a[l] < a[m]
         /\ \A i \in 1 .. n : f[i].key = k /\ (\A m \in 1 .. p : a[m] < i) => f[i].value = Nil
  BY <1>9, <1>10, <1>11, <1>12
<1>14. RecordedIn(f, k, us)
  BY <1>2, <1>4, <1>13 DEF RecordedIn
<1> QED
  BY <1>14 DEF f, us

\* Recording a mutation of another key, or a deletion that badger refused.
LEMMA RecordOther ==
  ASSUME NEW e \in Seq(Entry), NEW k \in Key, NEW v \in Value, NEW c \in Key,
         c = k => v = Nil, NEW vs, RecordedIn(e, c, vs)
  PROVE  RecordedIn(Append(e, [key |-> k, value |-> v]), c, vs)
<1> DEFINE f == Append(e, [key |-> k, value |-> v])
<1>1. PICK n : n = Len(e) + 1
  OBVIOUS
<1>2. /\ n \in Nat /\ DOMAIN e = 1 .. (n - 1) /\ DOMAIN f = 1 .. n
      /\ f[n] = [key |-> k, value |-> v]
      /\ \A i \in 1 .. (n - 1) : f[i] = e[i]
  BY <1>1, OneMore
<1>3. PICK at \in [DOMAIN vs -> DOMAIN e] :
        /\ \A m \in DOMAIN vs : e[at[m]] = [key |-> c, value |-> vs[m]]
        /\ \A l, m \in DOMAIN vs : l < m => at[l] < at[m]
        /\ \A i \in DOMAIN e :
             e[i].key = c /\ (\A m \in DOMAIN vs : at[m] < i) => e[i].value = Nil
  BY DEF RecordedIn
<1> HIDE DEF f
<1>4. \A i \in 1 .. n : i = n \/ i \in 1 .. (n - 1)
  BY <1>2
<1>5. at \in [DOMAIN vs -> DOMAIN f]
  BY <1>2, <1>3
<1>6. \A m \in DOMAIN vs : f[at[m]] = [key |-> c, value |-> vs[m]]
  BY <1>2, <1>3
<1>7. \A i \in DOMAIN f :
        f[i].key = c /\ (\A m \in DOMAIN vs : at[m] < i) => f[i].value = Nil
  BY <1>2, <1>3, <1>4
<1>8. RecordedIn(f, c, vs)
  BY <1>3, <1>5, <1>6, <1>7 DEF RecordedIn
<1> QED
  BY <1>8 DEF f

\* The versions of a key are a sequence of values.
LEMMA VersionsType ==
  ASSUME TypeOK, NEW t \in Tx, NEW k \in Key
  PROVE  Versions(t, k) \in Seq(Value)
<1>1. installed[t][k] \in Seq(Value) /\ pending[t][k] \in Value \cup {NoWrite}
  BY DEF TypeOK
<1> QED
  BY <1>1 DEF Versions

\* Recording a mutation of an open transaction, whether or not badger accepted it.
LEMMA RecordedAppend ==
  ASSUME TypeOK, Recorded, NEW t \in Tx, NEW k \in Key, NEW v \in Value, Record(t, k, v),
         status[t] = "open", UNCHANGED status,
         Buffered(t, k, v) \/ Flushed(t, k, v) \/ (v = Nil /\ Refused(t))
  PROVE  Recorded'
<1>1. /\ entries \in [Tx -> Seq(Entry)] /\ pending \in [Tx -> [Key -> Value \cup {NoWrite}]]
      /\ installed \in [Tx -> [Key -> Seq(Value)]]
  BY DEF TypeOK
<1>2. entries[t] \in Seq(Entry) /\ entries'[t] = Append(entries[t], [key |-> k, value |-> v])
  BY <1>1 DEF Record
<1>3. ~Committed(t) /\ ~Committed(t)'
  BY DEF Committed
<1>4. ASSUME NEW u \in Tx, u # t
      PROVE  /\ entries'[u] = entries[u] /\ pending'[u] = pending[u]
             /\ installed'[u] = installed[u]
  BY <1>1, <1>4 DEF Record, Buffered, Flushed, Refused, Remember, store, writer
<1>5. ASSUME NEW c \in Key
      PROVE  RecordedIn(entries[t], c, Versions(t, c))
  BY DEF Recorded
<1>6. ASSUME NEW c \in Key
      PROVE  \/ (c = k => v = Nil) /\ Versions(t, c)' = Versions(t, c)
             \/ c = k /\ \E ws \in Seq(Value) :
                           /\ Len(ws) <= Len(Versions(t, k))
                           /\ \A m \in 1 .. Len(ws) : ws[m] = Versions(t, k)[m]
                           /\ Versions(t, k)' = Append(ws, v)
  <2>1. /\ installed[t][c] \in Seq(Value) /\ pending[t][c] \in Value \cup {NoWrite}
        /\ v # NoWrite
    BY <1>1, NoWriteAssumption DEF Value
  <2>2. CASE Buffered(t, k, v)
    <3>1. UNCHANGED installed /\ pending' = [pending EXCEPT ![t][k] = v]
      BY <2>2 DEF Buffered, store
    <3>2. CASE c = k
      <4>1. Versions(t, k)' = Append(installed[t][k], v)
        BY <1>1, <1>3, <2>1, <3>1 DEF Versions
      <4>2. Len(installed[t][k]) <= Len(Versions(t, k))
        BY <1>3, <2>1, <3>2 DEF Versions
      <4>3. \A m \in 1 .. Len(installed[t][k]) : installed[t][k][m] = Versions(t, k)[m]
        BY <1>3, <2>1, <3>2 DEF Versions
      <4> QED
        BY <2>1, <3>2, <4>1, <4>2, <4>3
    <3>3. CASE c # k
      <4>1. pending'[t][c] = pending[t][c]
        BY <1>1, <3>1, <3>3
      <4> QED
        BY <1>3, <3>1, <3>3, <4>1 DEF Versions
    <3> QED
      BY <3>2, <3>3
  <2>3. CASE Flushed(t, k, v)
    <3>1. pending' = [pending EXCEPT ![t] = [Nothing EXCEPT ![k] = v]]
      BY <2>3 DEF Flushed
    <3>2. pending'[t][c] = IF c = k THEN v ELSE NoWrite
      BY <1>1, <3>1 DEF Nothing
    <3>3. installed'[t][c] = Versions(t, c)
      BY <1>1, <1>3, <2>3 DEF Flushed, Remember, Versions
    <3>4. CASE c = k
      <4>1. Versions(t, k)' = Append(Versions(t, k), v)
        BY <1>3, <2>1, <3>2, <3>3, <3>4 DEF Versions
      <4> QED
        BY <3>4, <4>1, VersionsType
    <3>5. CASE c # k
      <4>1. Versions(t, c)' = installed'[t][c]
        BY <3>2, <3>5 DEF Versions
      <4> QED
        BY <3>3, <3>5, <4>1
    <3> QED
      BY <3>4, <3>5
  <2>4. CASE v = Nil /\ Refused(t)
    <3>1. UNCHANGED <<pending, installed>>
      BY <2>4 DEF Refused, store, writer
    <3> QED
      BY <1>3, <2>4, <3>1 DEF Versions
  <2> QED
    BY <2>2, <2>3, <2>4
<1>7. ASSUME NEW c \in Key
      PROVE  RecordedIn(entries'[t], c, Versions(t, c)')
  <2>1. CASE (c = k => v = Nil) /\ Versions(t, c)' = Versions(t, c)
    BY <1>2, <1>5, <2>1, RecordOther
  <2>2. ASSUME c = k, NEW ws \in Seq(Value), Len(ws) <= Len(Versions(t, k)),
               \A m \in 1 .. Len(ws) : ws[m] = Versions(t, k)[m],
               Versions(t, k)' = Append(ws, v)
        PROVE  RecordedIn(entries'[t], c, Versions(t, c)')
    <3>1. RecordedIn(entries[t], k, Versions(t, k)) /\ Versions(t, k) \in Seq(Value)
      BY <1>5, VersionsType
    <3>2. RecordedIn(Append(entries[t], [key |-> k, value |-> v]), k, Append(ws, v))
      BY <1>2, <2>2, <3>1, RecordAccepted
    <3> QED
      BY <1>2, <2>2, <3>2
  <2> QED
    BY <1>6, <2>1, <2>2
<1> SUFFICES ASSUME NEW u \in Tx, status'[u] \notin {"failed", "rolledback", "closed"},
                    NEW c \in Key
             PROVE  RecordedIn(entries'[u], c, Versions(u, c)')
  BY DEF Recorded
<1>8. CASE u = t
  BY <1>7, <1>8
<1>9. CASE u # t
  <2>1. Versions(u, c)' = Versions(u, c)
    BY <1>4, <1>9 DEF Versions, Committed
  <2> QED
    BY <1>4, <1>9, <2>1 DEF Recorded
<1> QED
  BY <1>8, <1>9

\* Every step keeps what is buffered or installed recorded.
LEMMA RecordedInductive == TypeOK /\ Recorded /\ [Next]_vars => Recorded'
<1> SUFFICES ASSUME TypeOK, Recorded, [Next]_vars PROVE Recorded'
  OBVIOUS
<1>0. /\ pending \in [Tx -> [Key -> Value \cup {NoWrite}]] /\ entries \in [Tx -> Seq(Entry)]
      /\ installed \in [Tx -> [Key -> Seq(Value)]]
      /\ status \in [Tx -> {"new", "open", "publishing", "committed",
                            "failed", "rolledback", "closed"}]
  BY DEF TypeOK
<1>1. CASE UNCHANGED <<status, pending, entries, installed>>
  BY <1>1 DEF Recorded, Versions, Committed
<1>2. ASSUME NEW t \in Tx, UNCHANGED <<pending, entries, installed>>,
             \A u \in Tx : u # t => status'[u] = status[u],
             \/ status[t] = "new" /\ status'[t] = "open"
             \/ status[t] = "publishing" /\ status'[t] = "committed"
      PROVE  Recorded'
  <2>1. \A u \in Tx : Committed(u)' = Committed(u)
    BY <1>2 DEF Committed
  <2>2. \A u \in Tx, k \in Key : Versions(u, k)' = Versions(u, k)
    BY <1>2, <2>1 DEF Versions
  <2> QED
    BY <1>2, <2>2 DEF Recorded
<1>3. ASSUME NEW t \in Tx, CommitFails(t) \/ Rollback(t) \/ Close(t)
      PROVE  Recorded'
  <2>1. /\ pending' = [pending EXCEPT ![t] = Nothing]
        /\ entries' = entries \/ entries' = [entries EXCEPT ![t] = << >>]
        /\ UNCHANGED installed
        /\ \E x \in {"failed", "rolledback", "closed"} : status' = [status EXCEPT ![t] = x]
    BY <1>3 DEF CommitFails, Rollback, Close, store
  <2>2. status'[t] \in {"failed", "rolledback", "closed"}
    BY <1>0, <2>1
  <2>3. ASSUME NEW u \in Tx, u # t
        PROVE  /\ pending'[u] = pending[u] /\ entries'[u] = entries[u]
               /\ status'[u] = status[u] /\ installed'[u] = installed[u]
    BY <1>0, <2>1, <2>3
  <2>4. ASSUME NEW u \in Tx, u # t, NEW k \in Key
        PROVE  Versions(u, k)' = Versions(u, k)
    BY <2>3, <2>4 DEF Versions, Committed
  <2> QED
    BY <2>2, <2>3, <2>4 DEF Recorded
<1>4. ASSUME NEW t \in Tx, Commit(t)
      PROVE  Recorded'
  <2>1. /\ status[t] = "open" /\ status' = [status EXCEPT ![t] = "publishing"]
        /\ UNCHANGED <<pending, entries>>
    BY <1>4 DEF Commit, writer
  <2>2. status'[t] = "publishing" /\ Committed(t)' /\ ~Committed(t)
    BY <1>0, <2>1 DEF Committed
  <2>3. ASSUME NEW u \in Tx, u # t
        PROVE  status'[u] = status[u] /\ installed'[u] = installed[u]
    BY <1>0, <1>4, <2>1, <2>3 DEF Commit, Remember, store
  <2>4. ASSUME NEW u \in Tx, u # t, NEW k \in Key
        PROVE  Versions(u, k)' = Versions(u, k)
    BY <2>1, <2>3, <2>4 DEF Versions, Committed
  <2>5. ASSUME NEW k \in Key PROVE installed'[t][k] = Versions(t, k)
    <3>1. CASE pending[t] = Nothing
      <4>1. pending[t][k] = NoWrite /\ UNCHANGED installed
        BY <1>4, <3>1 DEF Commit, Nothing, store
      <4> QED
        BY <4>1 DEF Versions
    <3>2. CASE pending[t] # Nothing
      BY <1>0, <1>4, <2>2, <3>2 DEF Commit, Remember, Versions
    <3> QED
      BY <3>1, <3>2
  <2>6. ASSUME NEW k \in Key PROVE Versions(t, k)' = Versions(t, k)
    BY <2>2, <2>5 DEF Versions
  <2> QED
    BY <2>1, <2>3, <2>4, <2>6 DEF Recorded
<1>5. ASSUME NEW t \in Tx, NEW m \in {"read", "write", "batch"}, NewTx(t, m)
      PROVE  Recorded'
  <2>1. /\ status[t] = "new" /\ status' = [status EXCEPT ![t] = "open"]
        /\ UNCHANGED <<pending, entries, installed>>
    BY <1>5 DEF NewTx, writer, store
  <2> QED
    BY <1>0, <1>2, <2>1
<1>6. ASSUME NEW t \in Tx, CommitReturns(t)
      PROVE  Recorded'
  BY <1>0, <1>2, <1>6 DEF CommitReturns, writer, store
<1>7. ASSUME NEW t \in Tx, (\E k \in Key : Get(t, k)) \/ (\E S \in Ranges : NewIterator(t, S))
                           \/ Publish(t)
      PROVE  Recorded'
  BY <1>1, <1>7 DEF Get, NewIterator, Publish, writer, store
<1>8. ASSUME NEW t \in Tx, NEW k \in Key, NEW v \in Val, Set(t, k, v)
      PROVE  Recorded'
  <2>1. v \in Value /\ status[t] = "open" /\ UNCHANGED status /\ Record(t, k, v)
        /\ (Buffered(t, k, v) \/ Flushed(t, k, v))
    BY <1>8 DEF Set, Value
  <2> QED
    BY <2>1, RecordedAppend
<1>9. ASSUME NEW t \in Tx, NEW k \in Key, Delete(t, k)
      PROVE  Recorded'
  <2>1. Nil \in Value /\ status[t] = "open" /\ UNCHANGED status /\ Record(t, k, Nil)
        /\ (Buffered(t, k, Nil) \/ Flushed(t, k, Nil) \/ Refused(t))
    BY <1>9 DEF Delete, Value
  <2> QED
    BY <2>1, RecordedAppend
<1>10. ASSUME NEW S \in Ranges, DropPrefix(S)
       PROVE  Recorded'
  BY <1>1, <1>10 DEF DropPrefix, writer
<1>11. CASE UNCHANGED vars
  BY <1>1, <1>11 DEF vars
<1> QED
  BY <1>3, <1>4, <1>5, <1>6, <1>7, <1>8, <1>9, <1>10, <1>11 DEF Next, TxStep

\* Nothing is buffered, recorded or published at the start.
LEMMA StreamInit == Init => PublishedPrefix /\ Recorded
<1> SUFFICES ASSUME Init PROVE PublishedPrefix /\ Recorded
  OBVIOUS
<1>1. PublishedPrefix
  <2> SUFFICES ASSUME NEW t \in Tx
               PROVE  sent[t] = 0 /\ Len(entries[t]) = 0 /\ PublishedInOrder(t, 0)
    BY DEF PublishedPrefix
  <2>1. sent[t] = 0 /\ entries[t] = << >> /\ stream = << >>
    BY DEF Init
  <2>2. Published(t) = {}
    BY <2>1 DEF Published
  <2>3. [m \in 1 .. 0 |-> 0] \in [1 .. 0 -> Published(t)]
    BY <2>2
  <2>4. PublishedInOrder(t, 0)
    BY <2>2, <2>3 DEF PublishedInOrder
  <2> QED
    BY <2>1, <2>4
<1>2. Recorded
  <2> SUFFICES ASSUME NEW t \in Tx, NEW k \in Key
               PROVE  RecordedIn(entries[t], k, Versions(t, k))
    BY DEF Recorded
  <2>1. entries[t] = << >> /\ Versions(t, k) = << >>
    BY DEF Init, Nothing, Versions
  <2>2. [m \in {} |-> 0] \in [DOMAIN Versions(t, k) -> DOMAIN entries[t]]
    BY <2>1
  <2> QED
    BY <2>1, <2>2 DEF RecordedIn
<1> QED
  BY <1>1, <1>2

\* What the stream and the buffers hold was recorded, always.
LEMMA StreamInvariance == Spec => [](TypeOK /\ PublishedPrefix /\ Recorded)
<1>1. Init => TypeOK /\ PublishedPrefix /\ Recorded
  BY InitTypeOK, StreamInit
<1>2. TypeOK /\ PublishedPrefix /\ Recorded /\ [Next]_vars
        => (TypeOK /\ PublishedPrefix /\ Recorded)'
  BY NextTypeOK, PrefixInductive, RecordedInductive
<1> QED
  BY <1>1, <1>2, PTL DEF Spec

\* The loop of Commit (tx.go:119-124) puts entries of committed transactions
\* on the stream only, each once and in order, and all of them before it
\* returns, however many loops run between each other.
THEOREM StreamIsOfCommitted == Spec => []StreamOfCommitted
<1>1. TypeOK /\ PublishedPrefix => StreamOfCommitted
  <2> SUFFICES ASSUME TypeOK, PublishedPrefix, NEW t \in Tx
               PROVE  /\ Published(t) # {} => Committed(t)
                      /\ \E n \in 0 .. Len(entries[t]) :
                           /\ PublishedInOrder(t, n)
                           /\ status[t] = "committed" => n = Len(entries[t])
    BY DEF StreamOfCommitted
  <2>1. /\ sent[t] \in 0 .. Len(entries[t]) /\ PublishedInOrder(t, sent[t])
        /\ status[t] = "committed" => sent[t] = Len(entries[t])
        /\ ~Committed(t) => sent[t] = 0
    BY DEF PublishedPrefix, TypeOK
  <2>2. sent[t] = 0 => Published(t) = {}
    BY <2>1 DEF PublishedInOrder
  <2> QED
    BY <2>1, <2>2
<1> QED
  BY <1>1, StreamInvariance, PTL

\* Once Commit has returned, every version the transaction has put into the
\* store, a batch's earlier flushes included, is on the stream, the versions of
\* a key in their order and followed for that key by deletions at most
\* (tx.go:65-79, 82-91, 119-124).
THEOREM InstalledAreAnnounced == Spec => []InstalledIsAnnounced
<1>1. TypeOK /\ PublishedPrefix /\ Recorded => InstalledIsAnnounced
  <2> SUFFICES ASSUME TypeOK, PublishedPrefix, Recorded, NEW t \in Tx, NEW k \in Key,
                      status[t] = "committed"
               PROVE  \E to \in [DOMAIN installed[t][k] -> Published(t)] :
                        /\ \A m \in DOMAIN installed[t][k] :
                             stream[to[m]].cdc = [key |-> k, value |-> installed[t][k][m]]
                        /\ \A l, m \in DOMAIN installed[t][k] : l < m => to[l] < to[m]
                        /\ \A i \in Published(t) :
                             stream[i].cdc.key = k /\ (\A m \in DOMAIN installed[t][k] : to[m] < i)
                               => stream[i].cdc.value = Nil
    BY DEF InstalledIsAnnounced
  <2> DEFINE vs == installed[t][k]
  <2>1. DOMAIN entries[t] = 1 .. sent[t] /\ sent[t] \in Nat
    BY DEF PublishedPrefix, TypeOK
  <2>2. PICK at \in [1 .. sent[t] -> Published(t)] :
          /\ \A i \in Published(t) : \E m \in 1 .. sent[t] : at[m] = i
          /\ \A m \in 1 .. sent[t] : stream[at[m]].cdc = entries[t][m]
          /\ \A l, m \in 1 .. sent[t] : l < m => at[l] < at[m]
    BY DEF PublishedPrefix, PublishedInOrder
  <2>3. RecordedIn(entries[t], k, vs)
    <3>1. Versions(t, k) = vs
      BY DEF Versions, Committed
    <3> QED
      BY <3>1 DEF Recorded
  <2>4. PICK of \in [DOMAIN vs -> 1 .. sent[t]] :
          /\ \A m \in DOMAIN vs : entries[t][of[m]] = [key |-> k, value |-> vs[m]]
          /\ \A l, m \in DOMAIN vs : l < m => of[l] < of[m]
          /\ \A i \in 1 .. sent[t] :
               entries[t][i].key = k /\ (\A m \in DOMAIN vs : of[m] < i)
                 => entries[t][i].value = Nil
    BY <2>1, <2>3 DEF RecordedIn
  <2> HIDE DEF vs
  <2>5. PICK to : to = [m \in DOMAIN vs |-> at[of[m]]]
    OBVIOUS
  <2>6. to \in [DOMAIN vs -> Published(t)] /\ \A m \in DOMAIN vs : to[m] = at[of[m]]
    BY <2>2, <2>4, <2>5
  <2>7. \A m \in DOMAIN vs : stream[to[m]].cdc = [key |-> k, value |-> vs[m]]
    BY <2>2, <2>4, <2>6
  <2>8. \A l, m \in DOMAIN vs : l < m => to[l] < to[m]
    BY <2>2, <2>4, <2>6
  <2>9. ASSUME NEW i \in Published(t), stream[i].cdc.key = k, \A m \in DOMAIN vs : to[m] < i
        PROVE  stream[i].cdc.value = Nil
    <3>1. PICK n \in 1 .. sent[t] : at[n] = i
      BY <2>2
    <3>2. Published(t) \subseteq Nat
      BY DEF Published, TypeOK
    <3>3. ASSUME NEW m \in DOMAIN vs PROVE of[m] < n
      <4>1. at[of[m]] < at[n] /\ of[m] \in 1 .. sent[t] /\ at[of[m]] \in Nat /\ at[n] \in Nat
        BY <2>2, <2>4, <2>6, <2>9, <3>1, <3>2
      <4>2. ~(n < of[m]) /\ n # of[m]
        BY <2>2, <4>1
      <4> QED
        BY <2>1, <4>1, <4>2
    <3> QED
      BY <2>2, <2>4, <2>9, <3>1, <3>3
  <2>10. \E a \in [DOMAIN vs -> Published(t)] :
           /\ \A m \in DOMAIN vs : stream[a[m]].cdc = [key |-> k, value |-> vs[m]]
           /\ \A l, m \in DOMAIN vs : l < m => a[l] < a[m]
           /\ \A i \in Published(t) :
                stream[i].cdc.key = k /\ (\A m \in DOMAIN vs : a[m] < i)
                  => stream[i].cdc.value = Nil
    BY <2>6, <2>7, <2>8, <2>9
  <2> QED
    BY <2>10 DEF vs
<1> QED
  BY <1>1, StreamInvariance, PTL
=============================================================================
