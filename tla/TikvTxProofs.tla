--------------------------- MODULE TikvTxProofs ---------------------------
(***************************************************************************)
(* Proofs about TikvTx, for any keys, values, transactions and bounds: its *)
(* types, that no uncommitted value is read, and when the cache is right.  *)
(***************************************************************************)
EXTENDS TikvTx, TLAPS

\* Before a transaction writes, nothing is buffered; before its commit nothing
\* is published.
Untouched ==
  \A t \in Tx :
    /\ status[t] \in {"new", "open"} => sent[t] = 0
    /\ status[t] = "new" => pending[t] = Nothing /\ entries[t] = << >>

TInv == TypeOK /\ Untouched

\* Overlaying writes on values gives values.
LEMMA OverlayType ==
  ASSUME NEW base \in [Key -> Value], NEW w \in [Key -> Value \cup {NoWrite}]
  PROVE  Overlay(base, w) \in [Key -> Value]
BY NamesAssumption DEF Overlay, Value

\* The positions of the entries of a key, and what its last entry says.
Of(t, k) == {i \in DOMAIN entries[t] : entries[t][i].key = k}
Decides(t, k, i) == i \in Of(t, k) /\ \A j \in Of(t, k) : j <= i

\* What is buffered for a key is what its last entry says: the writes of TiKV
\* and those of Redis agree.
Recorded ==
  \A t \in Tx : status[t] \in {"new", "open", "publishing"} =>
    \A k \in Key :
      IF pending[t][k] = NoWrite THEN Of(t, k) = {}
      ELSE \E i \in Of(t, k) : Decides(t, k, i) /\ entries[t][i].value = pending[t][k]

\* Every value that can be read has been committed.
ReadsAreOld ==
  \A k \in Key :
    /\ Nil \in past[k] /\ db[k] \in past[k] /\ cache[k] \in past[k]
    /\ \A t \in Tx : snap[t][k] \in past[k]
    /\ \A t \in Tx : status[t] = "publishing" /\ k \in Written(t) => pending[t][k] \in past[k]

\* Unless a key is suspect, a commit on its way to Redis carries what TiKV has.
InFlightIsCurrent ==
  \A t \in Tx, k \in Key \ suspect :
    status[t] = "publishing" /\ k \in Written(t) => db[k] = pending[t][k]

-----------------------------------------------------------------------------
\* Appending an entry for a key makes it the last one of that key, and leaves
\* those of other keys alone.
LEMMA AppendEntry ==
  ASSUME NEW s \in Seq(Entry), NEW k \in Key, NEW v \in Value
  PROVE  LET e == [key |-> k, value |-> v]
             r == Append(s, e)
         IN  /\ r \in Seq(Entry) /\ Len(r) = Len(s) + 1 /\ DOMAIN r = 1..(Len(s) + 1)
             /\ DOMAIN s = 1..Len(s) /\ Len(s) \in Nat
             /\ r[Len(s) + 1] = e /\ \A i \in 1..Len(s) : r[i] = s[i]
BY DEF Entry

\* The types hold when the provider is opened.
LEMMA TypeInit == Init => TInv
BY NamesAssumption, BoundAssumption
   DEF Init, TInv, TypeOK, Untouched, Empty, Nothing, Value

\* A buffered write keeps the types.
LEMMA BufferType ==
  ASSUME TInv, NEW t \in Tx, NEW k \in Key, NEW v \in Value, Writing(t), Buffer(t, k, v),
         cache' \in [Key -> Value]
  PROVE  TInv'
<1> DEFINE e == [key |-> k, value |-> v]
<1>1. entries[t] \in Seq(Entry)
  BY DEF TInv, TypeOK
<1>2. Append(entries[t], e) \in Seq(Entry) /\ Len(Append(entries[t], e)) = Len(entries[t]) + 1
  BY <1>1, AppendEntry
<1>3. entries' = [entries EXCEPT ![t] = Append(entries[t], e)]
  BY DEF Buffer
<1>4. entries' \in [Tx -> Seq(Entry)]
  BY <1>2, <1>3 DEF TInv, TypeOK
<1>5. pending' \in [Tx -> [Key -> Value \cup {NoWrite}]]
  BY DEF TInv, TypeOK, Buffer
<1>6. ~readonly[t] /\ status[t] = "open"
  BY DEF Writing
<1>7. \A u \in Tx : sent'[u] <= Len(entries'[u])
  BY <1>1, <1>2, <1>3 DEF TInv, TypeOK, Buffer
<1>8. \A u \in Tx : readonly'[u] => pending'[u] = Nothing /\ entries'[u] = << >>
  BY <1>6 DEF TInv, TypeOK, Buffer
<1>9. TypeOK'
  BY <1>4, <1>5, <1>7, <1>8 DEF TInv, TypeOK, Buffer, tikv
<1>10. Untouched'
  BY <1>6 DEF TInv, TypeOK, Untouched, Buffer
<1> QED
  BY <1>9, <1>10 DEF TInv

\* A commit keeps the types: what TiKV holds are values, none newer than its clock.
LEMMA CommitType ==
  ASSUME TInv, NEW t \in Tx, Commit(t)
  PROVE  TInv'
<1>1. db' \in [Key -> Value]
  BY OverlayType DEF Commit, TInv, TypeOK
<1>2. clock' \in Nat /\ clock <= clock' /\ clock' <= clock + 1
  BY DEF Commit, TInv, TypeOK
<1>3. version' \in [Key -> 0..clock']
  BY <1>2 DEF Commit, TInv, TypeOK, Written
<1>4. startTs' \in [Tx -> 0..clock']
  BY <1>2 DEF Commit, TInv, TypeOK
<1>5. past' \in [Key -> SUBSET Value]
  BY <1>1 DEF Commit, TInv, TypeOK
<1>6. suspect' \subseteq Key /\ status' \in [Tx -> {"new", "open", "publishing", "committed", "failed", "ended"}]
  BY DEF Commit, TInv, TypeOK, Written
<1>7. TypeOK'
  BY <1>1, <1>2, <1>3, <1>4, <1>5, <1>6 DEF Commit, TInv, TypeOK
<1>8. Untouched'
  BY DEF Commit, TInv, TypeOK, Untouched
<1> QED
  BY <1>7, <1>8 DEF TInv

\* Appending an element of a set keeps a sequence over it.
LEMMA AppendType ==
  ASSUME NEW S, NEW s \in Seq(S), NEW e \in S
  PROVE  Append(s, e) \in Seq(S)
OBVIOUS

\* Publishing keeps the types: there is an entry at the position it reads.
LEMMA PublishType ==
  ASSUME TInv, NEW t \in Tx, Publish(t)
  PROVE  TInv'
<1> DEFINE m == [tx |-> t, cdc |-> entries[t][sent[t] + 1]]
<1>1. entries[t] \in Seq(Entry) /\ sent[t] \in Nat /\ sent[t] < Len(entries[t])
  BY DEF TInv, TypeOK, Publish
<1>2. entries[t][sent[t] + 1] \in Entry
  BY <1>1
<1>3. m \in [tx : Tx, cdc : Entry]
  BY <1>2
<1>4. stream' \in Seq([tx : Tx, cdc : Entry])
  <2>1. stream \in Seq([tx : Tx, cdc : Entry])
    BY DEF TInv, TypeOK
  <2>2. Append(stream, m) \in Seq([tx : Tx, cdc : Entry])
    BY <1>3, <2>1, AppendType
  <2> QED
    BY <2>1, <2>2 DEF Publish
<1>5. sent' \in [Tx -> Nat] /\ \A u \in Tx : sent'[u] <= Len(entries'[u])
  BY <1>1 DEF TInv, TypeOK, Publish
<1>6. TypeOK'
  BY <1>4, <1>5 DEF TInv, TypeOK, Publish, tikv
<1>7. Untouched'
  BY DEF TInv, TypeOK, Untouched, Publish
<1> QED
  BY <1>6, <1>7 DEF TInv

\* The entry that decides is the one CacheWrites takes.
LEMMA CacheWritesDecided ==
  ASSUME TInv, NEW t \in Tx, NEW k \in Key, NEW i, Decides(t, k, i)
  PROVE  CacheWrites(t)[k] = entries[t][i].value
<1>1. DOMAIN entries[t] \subseteq Nat
  BY DEF TInv, TypeOK
<1>2. \A j \in Of(t, k) : (\A l \in Of(t, k) : l <= j) => j = i
  BY <1>1 DEF Decides, Of
<1>3. (CHOOSE j \in Of(t, k) : \A l \in Of(t, k) : l <= j) = i
  BY <1>2 DEF Decides
<1> QED
  BY <1>3 DEF CacheWrites, LastOf, Of, Decides

\* What goes to Redis is what was buffered for TiKV.
LEMMA SameWrites ==
  ASSUME TInv, Recorded, NEW t \in Tx, status[t] = "publishing", NEW k \in Key
  PROVE  CacheWrites(t)[k] = pending[t][k]
<1>1. CASE pending[t][k] = NoWrite
  <2>1. Of(t, k) = {}
    BY <1>1 DEF Recorded
  <2> QED
    BY <1>1, <2>1 DEF CacheWrites, Of
<1>2. CASE pending[t][k] # NoWrite
  <2>1. PICK i \in Of(t, k) : Decides(t, k, i) /\ entries[t][i].value = pending[t][k]
    BY <1>2 DEF Recorded
  <2> QED
    BY <2>1, CacheWritesDecided
<1> QED
  BY <1>1, <1>2

\* MSet keeps the types: what goes to Redis are values.
LEMMA MSetType ==
  ASSUME TInv, Recorded, NEW t \in Tx, MSet(t)
  PROVE  TInv'
<1>1. \A k \in Key : CacheWrites(t)[k] = pending[t][k]
  BY SameWrites DEF MSet
<1>2. cache' \in [Key -> Value]
  BY <1>1, NamesAssumption DEF MSet, Overlay, TInv, TypeOK
<1>3. TypeOK'
  BY <1>2 DEF TInv, TypeOK, MSet, tikv
<1>4. Untouched'
  BY DEF TInv, TypeOK, Untouched, MSet
<1> QED
  BY <1>3, <1>4 DEF TInv

\* A dropped range is one of keys, and nothing in it is newer than the clock.
LEMMA DropType ==
  ASSUME TInv, NEW S \in Ranges, DropPrefix(S)
  PROVE  TInv'
<1>1. db' \in [Key -> Value] /\ snap' \in [Tx -> [Key -> Value]]
  BY DEF DropPrefix, TInv, TypeOK, Value
<1>2. version' \in [Key -> 0..clock] /\ clock' = clock
  BY DEF DropPrefix, TInv, TypeOK
<1>3. drops' \in 0..MaxDrops /\ suspect' \subseteq Key
  BY RangesAssumption, BoundAssumption DEF DropPrefix, TInv, TypeOK
<1>4. TypeOK'
  BY <1>1, <1>2, <1>3 DEF DropPrefix, TInv, TypeOK
<1>5. Untouched'
  BY DEF TInv, TypeOK, Untouched, DropPrefix
<1> QED
  BY <1>4, <1>5 DEF TInv

\* Every step keeps the types; a step of MSet needs to know what was recorded.
LEMMA TypeStep ==
  ASSUME TInv, Recorded, [Next]_vars
  PROVE  TInv'
<1>1. ASSUME NEW t \in Tx, NEW ro \in BOOLEAN, NewTx(t, ro)
      PROVE  TInv'
  <2>1. snap' \in [Tx -> [Key -> Value]] /\ startTs' \in [Tx -> 0..clock']
    BY <1>1 DEF NewTx, tikv, TInv, TypeOK
  <2>2. TypeOK'
    BY <1>1, <2>1 DEF NewTx, tikv, TInv, TypeOK, Untouched
  <2>3. Untouched'
    BY <1>1 DEF NewTx, tikv, TInv, TypeOK, Untouched
  <2> QED
    BY <2>2, <2>3 DEF TInv
<1>2. ASSUME NEW t \in Tx, NEW k \in Key, Delete(t, k)
      PROVE  TInv'
  <2>1. cache' \in [Key -> Value] /\ Nil \in Value
    BY <1>2 DEF Delete, TInv, TypeOK, Value
  <2> QED
    BY <1>2, <2>1, BufferType DEF Delete
<1>3. ASSUME NEW t \in Tx, NEW k \in Key, NEW v \in Val, Set(t, k, v)
      PROVE  TInv'
  <2>1. cache' \in [Key -> Value] /\ v \in Value
    BY <1>3 DEF Set, TInv, TypeOK, Value
  <2> QED
    BY <1>3, <2>1, BufferType DEF Set
<1>4. ASSUME NEW t \in Tx, CommitFails(t)
      PROVE  TInv'
  <2>1. pending' \in [Tx -> [Key -> Value \cup {NoWrite}]]
    BY <1>4 DEF CommitFails, TInv, TypeOK, Nothing
  <2>2. TypeOK'
    BY <1>4, <2>1 DEF CommitFails, tikv, TInv, TypeOK
  <2>3. Untouched'
    BY <1>4 DEF CommitFails, tikv, TInv, TypeOK, Untouched
  <2> QED
    BY <2>2, <2>3 DEF TInv
<1>5. ASSUME NEW t \in Tx, MSetFails(t)
      PROVE  TInv'
  <2>1. suspect' \subseteq Key
    BY <1>5 DEF MSetFails, TInv, TypeOK, Written
  <2>2. TypeOK'
    BY <1>5, <2>1 DEF MSetFails, TInv, TypeOK
  <2>3. Untouched'
    BY <1>5 DEF MSetFails, TInv, TypeOK, Untouched
  <2> QED
    BY <2>2, <2>3 DEF TInv
<1>6. ASSUME NEW t \in Tx, Rollback(t)
      PROVE  TInv'
  <2>1. pending' \in [Tx -> [Key -> Value \cup {NoWrite}]]
    BY <1>6 DEF Rollback, TInv, TypeOK, Nothing
  <2>2. entries' \in [Tx -> Seq(Entry)] /\ \A u \in Tx : sent'[u] <= Len(entries'[u])
    BY <1>6 DEF Rollback, TInv, TypeOK, Untouched
  <2>3. TypeOK'
    BY <1>6, <2>1, <2>2 DEF Rollback, tikv, TInv, TypeOK
  <2>4. Untouched'
    BY <1>6 DEF Rollback, tikv, TInv, TypeOK, Untouched
  <2> QED
    BY <2>3, <2>4 DEF TInv
<1>7. CASE UNCHANGED vars
  BY <1>7 DEF vars, TInv, TypeOK, Untouched
<1> QED
  BY <1>1, <1>2, <1>3, <1>4, <1>5, <1>6, <1>7, CommitType, PublishType, MSetType, DropType
     DEF Next, TxStep

-----------------------------------------------------------------------------
\* Transactions whose entries and buffered writes stay keep what is recorded.
LEMMA RecordedKept ==
  ASSUME Recorded, entries' = entries, pending' = pending,
         \A t \in Tx : status'[t] \in {"new", "open", "publishing"}
                         => status[t] \in {"new", "open", "publishing"}
  PROVE  Recorded'
BY DEF Recorded, Of, Decides

\* A buffered write is what the last entry of its key says, and no other key
\* is concerned.
LEMMA RecordedBuffer ==
  ASSUME TInv, Recorded, NEW t \in Tx, NEW k \in Key, NEW v \in Value, Writing(t), Buffer(t, k, v)
  PROVE  Recorded'
<1> DEFINE e == [key |-> k, value |-> v]
           n == Len(entries[t]) + 1
<1>1. entries[t] \in Seq(Entry) /\ status[t] = "open"
  BY DEF TInv, TypeOK, Writing
<1>2. /\ DOMAIN entries[t] = 1..(n - 1) /\ n - 1 \in Nat /\ n \in Nat
      /\ DOMAIN entries'[t] = 1..n /\ entries'[t][n] = e
      /\ \A i \in 1..(n - 1) : entries'[t][i] = entries[t][i]
  <2>1. entries'[t] = Append(entries[t], e)
    BY DEF Buffer, TInv, TypeOK
  <2>2. Append(entries[t], e) \in Seq(Entry)
    BY <1>1, AppendEntry
  <2> QED
    BY <1>1, <2>1, <2>2, AppendEntry
<1>3. \A u \in Tx \ {t} : entries'[u] = entries[u] /\ pending'[u] = pending[u]
  BY DEF Buffer, TInv, TypeOK
<1>4. \A c \in Key : pending'[t][c] = IF c = k THEN v ELSE pending[t][c]
  BY DEF Buffer, TInv, TypeOK
<1>5. status' = status /\ v # NoWrite
  BY NamesAssumption DEF Buffer, Value
<1> HIDE DEF n
<1> SUFFICES ASSUME NEW u \in Tx, status[u] \in {"new", "open", "publishing"}, NEW c \in Key
             PROVE  IF pending'[u][c] = NoWrite THEN Of(u, c)' = {}
                    ELSE \E i \in Of(u, c)' : Decides(u, c, i)' /\ entries'[u][i].value = pending'[u][c]
  BY <1>5 DEF Recorded
<1>6. CASE u # t
  BY <1>3, <1>6 DEF Recorded, Of, Decides
<1>7. CASE u = t /\ c = k
  <2>1. n \in Of(t, k)' /\ \A j \in Of(t, k)' : j <= n
    BY <1>2 DEF Of
  <2>2. entries'[t][n].value = v
    BY <1>2
  <2> QED
    BY <1>4, <1>5, <1>7, <2>1, <2>2 DEF Decides
<1>8. CASE u = t /\ c # k
  <2>1. Of(t, c)' = Of(t, c)
    BY <1>2, <1>8 DEF Of
  <2>2. \A i \in Of(t, c) : entries'[t][i] = entries[t][i]
    BY <1>2 DEF Of
  <2>3. pending'[t][c] = pending[t][c]
    BY <1>4, <1>8
  <2> QED
    BY <1>1, <1>8, <2>1, <2>2, <2>3 DEF Recorded, Decides
<1> QED
  BY <1>6, <1>7, <1>8

\* Every step keeps what is recorded for open and committing transactions.
LEMMA RecordedStep ==
  ASSUME TInv, Recorded, [Next]_vars
  PROVE  Recorded'
<1>1. ASSUME NEW t \in Tx, NEW ro \in BOOLEAN, NewTx(t, ro)
      PROVE  Recorded'
  BY <1>1, RecordedKept DEF NewTx, TInv, TypeOK
<1>2. ASSUME NEW t \in Tx, NEW k \in Key, Delete(t, k)
      PROVE  Recorded'
  BY <1>2, RecordedBuffer DEF Delete, Value
<1>3. ASSUME NEW t \in Tx, NEW k \in Key, NEW v \in Val, Set(t, k, v)
      PROVE  Recorded'
  BY <1>3, RecordedBuffer DEF Set, Value
<1>4. ASSUME NEW t \in Tx, Commit(t)
      PROVE  Recorded'
  BY <1>4, RecordedKept DEF Commit, TInv, TypeOK
<1>5. ASSUME NEW t \in Tx, CommitFails(t)
      PROVE  Recorded'
  <2>1. status'[t] = "failed" /\ entries' = entries
    BY <1>5 DEF CommitFails, TInv, TypeOK
  <2>2. \A u \in Tx \ {t} : status'[u] = status[u] /\ pending'[u] = pending[u]
    BY <1>5 DEF CommitFails, TInv, TypeOK
  <2> QED
    BY <2>1, <2>2 DEF Recorded, Of, Decides
<1>6. ASSUME NEW t \in Tx, Publish(t)
      PROVE  Recorded'
  BY <1>6, RecordedKept DEF Publish
<1>7. ASSUME NEW t \in Tx, MSet(t)
      PROVE  Recorded'
  BY <1>7, RecordedKept DEF MSet, TInv, TypeOK
<1>8. ASSUME NEW t \in Tx, MSetFails(t)
      PROVE  Recorded'
  BY <1>8, RecordedKept DEF MSetFails, TInv, TypeOK
<1>9. ASSUME NEW t \in Tx, Rollback(t)
      PROVE  Recorded'
  <2>1. status'[t] = "ended"
    BY <1>9 DEF Rollback, TInv, TypeOK
  <2>2. \A u \in Tx \ {t} : status'[u] = status[u] /\ pending'[u] = pending[u] /\ entries'[u] = entries[u]
    BY <1>9 DEF Rollback, TInv, TypeOK
  <2> QED
    BY <2>1, <2>2 DEF Recorded, Of, Decides
<1>10. ASSUME NEW S \in Ranges, DropPrefix(S)
       PROVE  Recorded'
  BY <1>10, RecordedKept DEF DropPrefix
<1>11. CASE UNCHANGED vars
  BY <1>11, RecordedKept DEF vars
<1> QED
  BY <1>1, <1>2, <1>3, <1>4, <1>5, <1>6, <1>7, <1>8, <1>9, <1>10, <1>11 DEF Next, TxStep

-----------------------------------------------------------------------------
\* What a step of t leaves alone of other transactions, and of its own while
\* it is open.
LEMMA BufferFrame ==
  ASSUME TInv, NEW t \in Tx, NEW k \in Key, NEW v \in Value, Writing(t), Buffer(t, k, v)
  PROVE  /\ status' = status /\ status[t] = "open" /\ snap' = snap
         /\ db' = db /\ past' = past /\ suspect' = suspect
         /\ \A u \in Tx : status[u] = "publishing" => pending'[u] = pending[u]
BY DEF Buffer, Writing, tikv, TInv, TypeOK

\* A transaction that ends without a commit was not publishing.
LEMMA EndFrame ==
  ASSUME TInv, NEW t \in Tx, CommitFails(t) \/ Rollback(t)
  PROVE  /\ \A u \in Tx : status'[u] = "publishing" => status[u] = "publishing" /\ pending'[u] = pending[u]
         /\ \A u \in Tx : status[u] = "publishing" => status'[u] = "publishing"
         /\ db' = db /\ past' = past /\ suspect' = suspect /\ cache' = cache /\ snap' = snap
BY DEF CommitFails, Rollback, tikv, TInv, TypeOK

\* What Commit writes is what the values of the keys become.
LEMMA CommitFrame ==
  ASSUME TInv, NEW t \in Tx, Commit(t)
  PROVE  /\ status[t] = "open" /\ status'[t] = "publishing"
         /\ \A u \in Tx \ {t} : status'[u] = status[u]
         /\ pending' = pending /\ cache' = cache /\ snap' = snap
         /\ \A k \in Key : /\ past'[k] = past[k] \cup {db'[k]}
                           /\ k \in Written(t) => db'[k] = pending[t][k]
                           /\ k \notin Written(t) => db'[k] = db[k]
                           /\ k \in Written(t) /\ InFlight(k) => k \in suspect'
         /\ suspect \subseteq suspect'
BY DEF Commit, TInv, TypeOK, Written, Overlay

\* MSet brings what was buffered to Redis and nothing else.
LEMMA MSetFrame ==
  ASSUME TInv, Recorded, NEW t \in Tx, MSet(t)
  PROVE  /\ status[t] = "publishing" /\ status'[t] = "committed"
         /\ \A u \in Tx \ {t} : status'[u] = status[u]
         /\ pending' = pending /\ snap' = snap
         /\ db' = db /\ past' = past /\ suspect' = suspect
         /\ \A k \in Key : /\ k \in Written(t) => cache'[k] = pending[t][k]
                           /\ k \notin Written(t) => cache'[k] = cache[k]
<1>1. status[t] = "publishing"
  BY DEF MSet
<1>2. \A k \in Key : CacheWrites(t)[k] = pending[t][k]
  BY <1>1, SameWrites
<1>3. \A k \in Key : cache'[k] = IF pending[t][k] = NoWrite THEN cache[k] ELSE pending[t][k]
  BY <1>2 DEF MSet, Overlay
<1> QED
  BY <1>1, <1>3 DEF MSet, tikv, TInv, TypeOK, Written

\* Every step leaves readers with committed values only.
LEMMA ReadsStep ==
  ASSUME TInv, Recorded, ReadsAreOld, [Next]_vars
  PROVE  ReadsAreOld'
<1>1. ASSUME NEW t \in Tx, NEW ro \in BOOLEAN, NewTx(t, ro)
      PROVE  ReadsAreOld'
  BY <1>1 DEF NewTx, tikv, TInv, TypeOK, ReadsAreOld, Written
<1>2. ASSUME NEW t \in Tx, NEW k \in Key, Delete(t, k)
      PROVE  ReadsAreOld'
  <2>1. Nil \in Value /\ cache' = [cache EXCEPT ![k] = Nil]
    BY <1>2 DEF Delete, Value
  <2> QED
    BY <1>2, <2>1, BufferFrame DEF Delete, TInv, TypeOK, ReadsAreOld, Written
<1>3. ASSUME NEW t \in Tx, NEW k \in Key, NEW v \in Val, Set(t, k, v)
      PROVE  ReadsAreOld'
  BY <1>3, BufferFrame DEF Set, Value, ReadsAreOld, Written
<1>4. ASSUME NEW t \in Tx, Commit(t)
      PROVE  ReadsAreOld'
  BY <1>4, CommitFrame DEF ReadsAreOld, Written
<1>5. ASSUME NEW t \in Tx, CommitFails(t) \/ Rollback(t)
      PROVE  ReadsAreOld'
  BY <1>5, EndFrame DEF ReadsAreOld, Written
<1>6. ASSUME NEW t \in Tx, Publish(t)
      PROVE  ReadsAreOld'
  BY <1>6 DEF Publish, tikv, ReadsAreOld, Written
<1>7. ASSUME NEW t \in Tx, MSet(t)
      PROVE  ReadsAreOld'
  BY <1>7, MSetFrame DEF ReadsAreOld, Written
<1>8. ASSUME NEW t \in Tx, MSetFails(t)
      PROVE  ReadsAreOld'
  BY <1>8 DEF MSetFails, TInv, TypeOK, ReadsAreOld, Written
<1>9. ASSUME NEW S \in Ranges, DropPrefix(S)
      PROVE  ReadsAreOld'
  BY <1>9 DEF DropPrefix, ReadsAreOld, Written
<1>10. CASE UNCHANGED vars
  BY <1>10 DEF vars, ReadsAreOld, Written
<1> QED
  BY <1>1, <1>2, <1>3, <1>4, <1>5, <1>6, <1>7, <1>8, <1>9, <1>10 DEF Next, TxStep

\* A second commit of a key on its way makes the key suspect, so that every
\* commit on its way for another key carries what TiKV has.
LEMMA CurrentStep ==
  ASSUME TInv, Recorded, InFlightIsCurrent, [Next]_vars
  PROVE  InFlightIsCurrent'
<1>1. ASSUME NEW t \in Tx, NEW ro \in BOOLEAN, NewTx(t, ro)
      PROVE  InFlightIsCurrent'
  BY <1>1 DEF NewTx, tikv, TInv, TypeOK, InFlightIsCurrent, Written
<1>2. ASSUME NEW t \in Tx, NEW k \in Key, Delete(t, k)
      PROVE  InFlightIsCurrent'
  BY <1>2, BufferFrame DEF Delete, Value, InFlightIsCurrent, Written
<1>3. ASSUME NEW t \in Tx, NEW k \in Key, NEW v \in Val, Set(t, k, v)
      PROVE  InFlightIsCurrent'
  BY <1>3, BufferFrame DEF Set, Value, InFlightIsCurrent, Written
<1>4. ASSUME NEW t \in Tx, Commit(t)
      PROVE  InFlightIsCurrent'
  BY <1>4, CommitFrame DEF InFlightIsCurrent, InFlight, Written
<1>5. ASSUME NEW t \in Tx, CommitFails(t) \/ Rollback(t)
      PROVE  InFlightIsCurrent'
  BY <1>5, EndFrame DEF InFlightIsCurrent, Written
<1>6. ASSUME NEW t \in Tx, Publish(t)
      PROVE  InFlightIsCurrent'
  BY <1>6 DEF Publish, tikv, InFlightIsCurrent, Written
<1>7. ASSUME NEW t \in Tx, MSet(t)
      PROVE  InFlightIsCurrent'
  BY <1>7, MSetFrame DEF InFlightIsCurrent, Written
<1>8. ASSUME NEW t \in Tx, MSetFails(t)
      PROVE  InFlightIsCurrent'
  BY <1>8 DEF MSetFails, TInv, TypeOK, InFlightIsCurrent, Written
<1>9. ASSUME NEW S \in Ranges, DropPrefix(S)
      PROVE  InFlightIsCurrent'
  BY <1>9 DEF DropPrefix, InFlightIsCurrent, Written
<1>10. CASE UNCHANGED vars
  BY <1>10 DEF vars, InFlightIsCurrent, Written
<1> QED
  BY <1>1, <1>2, <1>3, <1>4, <1>5, <1>6, <1>7, <1>8, <1>9, <1>10 DEF Next, TxStep

\* Every step leaves Redis right about the keys it must be right about.
LEMMA StaleStep ==
  ASSUME TInv, Recorded, InFlightIsCurrent, StaleOnlyIfSuspect, [Next]_vars
  PROVE  StaleOnlyIfSuspect'
<1>1. ASSUME NEW t \in Tx, NEW ro \in BOOLEAN, NewTx(t, ro)
      PROVE  StaleOnlyIfSuspect'
  BY <1>1 DEF NewTx, tikv, TInv, TypeOK, StaleOnlyIfSuspect, InFlight, Written
<1>2. ASSUME NEW t \in Tx, NEW k \in Key, Delete(t, k)
      PROVE  StaleOnlyIfSuspect'
  <2>1. Nil \in Value /\ cache' = [cache EXCEPT ![k] = Nil]
    BY <1>2 DEF Delete, Value
  <2> QED
    BY <1>2, <2>1, BufferFrame DEF Delete, TInv, TypeOK, StaleOnlyIfSuspect, InFlight, Written
<1>3. ASSUME NEW t \in Tx, NEW k \in Key, NEW v \in Val, Set(t, k, v)
      PROVE  StaleOnlyIfSuspect'
  BY <1>3, BufferFrame DEF Set, Value, StaleOnlyIfSuspect, InFlight, Written
<1>4. ASSUME NEW t \in Tx, Commit(t)
      PROVE  StaleOnlyIfSuspect'
  BY <1>4, CommitFrame DEF StaleOnlyIfSuspect, InFlight, Written
<1>5. ASSUME NEW t \in Tx, CommitFails(t) \/ Rollback(t)
      PROVE  StaleOnlyIfSuspect'
  BY <1>5, EndFrame DEF StaleOnlyIfSuspect, InFlight, Written
<1>6. ASSUME NEW t \in Tx, Publish(t)
      PROVE  StaleOnlyIfSuspect'
  BY <1>6 DEF Publish, tikv, StaleOnlyIfSuspect, InFlight, Written
<1>7. ASSUME NEW t \in Tx, MSet(t)
      PROVE  StaleOnlyIfSuspect'
  BY <1>7, MSetFrame DEF StaleOnlyIfSuspect, InFlight, InFlightIsCurrent, Written
<1>8. ASSUME NEW t \in Tx, MSetFails(t)
      PROVE  StaleOnlyIfSuspect'
  BY <1>8 DEF MSetFails, TInv, TypeOK, StaleOnlyIfSuspect, InFlight, Written
<1>9. ASSUME NEW S \in Ranges, DropPrefix(S)
      PROVE  StaleOnlyIfSuspect'
  BY <1>9 DEF DropPrefix, StaleOnlyIfSuspect, InFlight, Written
<1>10. CASE UNCHANGED vars
  BY <1>10 DEF vars, StaleOnlyIfSuspect, InFlight, Written
<1> QED
  BY <1>1, <1>2, <1>3, <1>4, <1>5, <1>6, <1>7, <1>8, <1>9, <1>10 DEF Next, TxStep

-----------------------------------------------------------------------------
CacheInv == TInv /\ Recorded /\ ReadsAreOld /\ InFlightIsCurrent /\ StaleOnlyIfSuspect

\* The inductive invariant holds of an opened provider ...
LEMMA CacheInit == Init => CacheInv
<1> SUFFICES ASSUME Init PROVE CacheInv
  OBVIOUS
<1>1. TInv
  BY TypeInit
<1>2. Recorded
  <2>1. \A t \in Tx : entries[t] = << >> /\ pending[t] = Nothing
    BY DEF Init
  <2>2. \A t \in Tx, k \in Key : Of(t, k) = {} /\ pending[t][k] = NoWrite
    <3>1. \A t \in Tx, k \in Key : Of(t, k) = {}
      <4> SUFFICES ASSUME NEW t \in Tx, NEW k \in Key PROVE Of(t, k) = {}
        OBVIOUS
      <4>1. DOMAIN entries[t] = {}
        BY <2>1
      <4> QED
        BY <4>1 DEF Of
    <3>2. \A t \in Tx, k \in Key : pending[t][k] = NoWrite
      BY <2>1 DEF Nothing
    <3> QED
      BY <3>1, <3>2
  <2> QED
    BY <2>2 DEF Recorded
<1>3. ReadsAreOld /\ InFlightIsCurrent /\ StaleOnlyIfSuspect
  BY DEF Init, ReadsAreOld, InFlightIsCurrent, StaleOnlyIfSuspect, Empty
<1> QED
  BY <1>1, <1>2, <1>3 DEF CacheInv

\* ... every step keeps it ...
LEMMA CacheStep == CacheInv /\ [Next]_vars => CacheInv'
BY TypeStep, RecordedStep, ReadsStep, CurrentStep, StaleStep DEF CacheInv

\* ... and so it holds always.
LEMMA CacheInvariant == Spec => []CacheInv
BY CacheInit, CacheStep, PTL DEF Spec

\* The provider's state keeps its types: what Commit publishes and sends to
\* Redis are entries and values, however the calls of the transactions mix.
THEOREM TypeCorrect == Spec => []TypeOK
<1>1. CacheInv => TypeOK
  BY DEF CacheInv, TInv
<1> QED
  BY <1>1, CacheInvariant, PTL

\* Get, which asks Redis first, returns no value that TiKV never committed
\* unless the transaction wrote it itself.
THEOREM ReadsAreCommitted == Spec => []NoDirtyRead
<1>1. CacheInv => NoDirtyRead
  <2> SUFFICES ASSUME CacheInv, NEW t \in Tx, NEW k \in Key, status[t] = "open"
               PROVE  Got(t, k) \in past[k] \cup {pending[t][k]}
    BY DEF NoDirtyRead
  <2>1. cache[k] \in past[k] /\ snap[t][k] \in past[k]
    BY DEF CacheInv, ReadsAreOld
  <2> QED
    BY <2>1 DEF Got, Overlay
<1> QED
  BY <1>1, CacheInvariant, PTL

\* Redis is wrong about a key only while a commit is on its way with it, or
\* after overlapping commits, a failed MSet or a dropped range.
THEOREM CacheIsRight == Spec => []StaleOnlyIfSuspect
<1>1. CacheInv => StaleOnlyIfSuspect
  BY DEF CacheInv
<1> QED
  BY <1>1, CacheInvariant, PTL

-----------------------------------------------------------------------------
(* The change stream.  A message that Redis loses leaves no gap to repair:   *)
(* what does arrive is still an increasing choice of the entries sent.       *)

\* Only a commit publishes, and what arrived is among what it has sent.
AnnouncedSoFar ==
  \A t \in Tx :
    /\ status[t] \in {"new", "open", "ended"} => sent[t] = 0
    /\ AreEntries(t, 1 .. sent[t])

\* A step that sends nothing and keeps the entries of those that have sent.
LEMMA AnnouncedKept ==
  ASSUME TInv, AnnouncedSoFar, UNCHANGED <<stream, sent>>,
         \A u \in Tx : entries'[u] = entries[u] \/ sent[u] = 0,
         \A u \in Tx : status'[u] \in {"new", "open", "ended"} => sent[u] = 0
  PROVE  AnnouncedSoFar'
<1> SUFFICES ASSUME NEW u \in Tx PROVE AreEntries(u, 1 .. sent[u])'
  BY DEF AnnouncedSoFar
<1>1. PICK of \in [Announced(u) -> 1 .. sent[u]] :
        /\ \A i, j \in Announced(u) : i < j => of[i] < of[j]
        /\ \A i \in Announced(u) : stream[i].cdc = entries[u][of[i]]
  BY DEF AnnouncedSoFar, AreEntries
<1>2. Announced(u)' = Announced(u)
  BY DEF Announced
<1>3. \A i \in Announced(u) : entries'[u][of[i]] = entries[u][of[i]]
  <2>1. sent[u] = 0 => Announced(u) = {}
    BY <1>1
  <2> QED
    BY <2>1
<1> QED
  BY <1>1, <1>2, <1>3 DEF AreEntries

\* A message that arrives is an entry after all those that arrived before it;
\* one that is lost is skipped.
LEMMA AnnouncedPublish ==
  ASSUME TInv, AnnouncedSoFar, NEW t \in Tx, Publish(t), NEW u \in Tx
  PROVE  AreEntries(u, 1 .. sent[u])'
<1> DEFINE last == Len(stream) + 1
           msg == [tx |-> t, cdc |-> entries[t][sent[t] + 1]]
           n == sent[t] + 1
<1>1. /\ entries[t] \in Seq(Entry) /\ sent \in [Tx -> Nat] /\ sent[t] < Len(entries[t])
      /\ stream \in Seq([tx : Tx, cdc : Entry]) /\ UNCHANGED entries
      /\ sent' = [sent EXCEPT ![t] = n]
  BY DEF TInv, TypeOK, Publish
<1>2. PICK of \in [Announced(u) -> 1 .. sent[u]] :
        /\ \A i, j \in Announced(u) : i < j => of[i] < of[j]
        /\ \A i \in Announced(u) : stream[i].cdc = entries[u][of[i]]
  BY DEF AnnouncedSoFar, AreEntries
<1>3. sent'[u] \in Nat /\ sent[u] \in Nat /\ sent[u] <= sent'[u]
  BY <1>1
<1>4. \A i \in Announced(u) : of[i] \in 1 .. sent[u] /\ of[i] \in 1 .. sent'[u]
  BY <1>2, <1>3
<1>5. CASE Announced(u)' = Announced(u) /\ \A i \in Announced(u) : stream'[i] = stream[i]
  <2>1. of \in [Announced(u)' -> 1 .. sent'[u]]
    BY <1>2, <1>4, <1>5
  <2>2. \A i \in Announced(u)' : stream'[i].cdc = entries'[u][of[i]]
    BY <1>1, <1>2, <1>5
  <2>3. \A i, j \in Announced(u)' : i < j => of[i] < of[j]
    BY <1>2, <1>5
  <2> QED
    BY <2>1, <2>2, <2>3 DEF AreEntries
<1>6. CASE UNCHANGED stream
  BY <1>5, <1>6 DEF Announced
<1>7. CASE stream' = Append(stream, msg)
  <2>1. msg \in [tx : Tx, cdc : Entry]
    BY <1>1
  <2>2. /\ DOMAIN stream' = DOMAIN stream \cup {last} /\ stream'[last] = msg
        /\ DOMAIN stream = 1 .. Len(stream) /\ Len(stream) \in Nat
        /\ \A i \in DOMAIN stream : stream'[i] = stream[i]
    BY <1>1, <1>7, <2>1
  <2>3. Announced(u) \subseteq DOMAIN stream
    BY DEF Announced
  <2> HIDE DEF last, n
  <2>4. CASE u # t
    <3>1. Announced(u)' = Announced(u)
      BY <2>2, <2>4 DEF Announced
    <3> QED
      BY <1>5, <2>2, <2>3, <3>1
  <2>5. CASE u = t
    <3> DEFINE to == [i \in Announced(t) \cup {last} |-> IF i = last THEN n ELSE of[i]]
    <3>1. Announced(t)' = Announced(t) \cup {last}
      BY <2>2 DEF Announced
    <3>2. sent'[t] = n /\ n \in 1 .. n
      BY <1>1 DEF n
    <3>3. \A i \in Announced(t) : to[i] = of[i] /\ i < last /\ of[i] < n /\ of[i] \in 1 .. n
      BY <1>3, <1>4, <2>2, <2>3, <2>5, <3>2 DEF last, n
    <3>4. to[last] = n /\ last \in Nat
      BY <2>2 DEF last
    <3>5. to \in [Announced(t)' -> 1 .. n]
      BY <3>1, <3>2, <3>3
    <3>6. \A i, j \in Announced(t)' : i < j => to[i] < to[j]
      <4> SUFFICES ASSUME NEW i \in Announced(t)', NEW j \in Announced(t)', i < j
                   PROVE  to[i] < to[j]
        OBVIOUS
      <4>1. i \in Announced(t)
        <5>1. \A l \in Announced(t) : l \in Nat /\ l < last
          BY <2>2, <2>3, <2>5 DEF last
        <5>2. ~(last < j)
          <6>1. CASE j = last
            BY <3>4, <6>1
          <6>2. CASE j \in Announced(t)
            BY <3>4, <5>1, <6>2
          <6> QED
            BY <3>1, <6>1, <6>2
        <5> QED
          BY <3>1, <5>2
      <4>2. CASE j = last
        BY <3>3, <3>4, <4>1, <4>2
      <4>3. CASE j \in Announced(t)
        BY <1>2, <2>5, <3>3, <4>1, <4>3
      <4> QED
        BY <3>1, <4>2, <4>3
    <3>7. \A i \in Announced(t)' : stream'[i].cdc = entries'[t][to[i]]
      <4>1. stream'[last].cdc = entries[t][n]
        BY <2>2 DEF n
      <4>2. \A i \in Announced(t) : stream'[i].cdc = entries[t][of[i]]
        BY <1>2, <2>2, <2>3, <2>5
      <4> QED
        BY <1>1, <3>1, <3>3, <3>4, <4>1, <4>2
    <3> HIDE DEF to
    <3> QED
      BY <2>5, <3>2, <3>5, <3>6, <3>7 DEF AreEntries
  <2> QED
    BY <2>4, <2>5
<1> QED
  BY <1>6, <1>7 DEF Publish

\* No step disturbs what has arrived.
LEMMA AnnouncedStep ==
  ASSUME TInv, AnnouncedSoFar, [Next]_vars
  PROVE  AnnouncedSoFar'
<1>0. /\ status \in [Tx -> {"new", "open", "publishing", "committed", "failed", "ended"}]
      /\ entries \in [Tx -> Seq(Entry)] /\ sent \in [Tx -> Nat]
      /\ \A u \in Tx : status[u] \in {"new", "open", "ended"} => sent[u] = 0
  BY DEF TInv, TypeOK, AnnouncedSoFar
<1>1. ASSUME NEW t \in Tx, NEW ro \in BOOLEAN, NewTx(t, ro)
      PROVE  AnnouncedSoFar'
  BY <1>0, <1>1, AnnouncedKept DEF NewTx
<1>2. ASSUME NEW t \in Tx, NEW k \in Key, NEW v \in Value, Writing(t), Buffer(t, k, v)
      PROVE  AnnouncedSoFar'
  <2>1. /\ status[t] = "open" /\ UNCHANGED <<stream, sent, status>>
        /\ \A u \in Tx : u # t => entries'[u] = entries[u]
    BY <1>0, <1>2 DEF Writing, Buffer
  <2> QED
    BY <1>0, <2>1, AnnouncedKept
<1>3. ASSUME NEW t \in Tx, NEW k \in Key, Delete(t, k)
      PROVE  AnnouncedSoFar'
  BY <1>2, <1>3 DEF Delete, Value
<1>4. ASSUME NEW t \in Tx, NEW k \in Key, NEW v \in Val, Set(t, k, v)
      PROVE  AnnouncedSoFar'
  BY <1>2, <1>4 DEF Set, Value
<1>5. ASSUME NEW t \in Tx, Commit(t) \/ CommitFails(t) \/ MSet(t) \/ MSetFails(t)
      PROVE  AnnouncedSoFar'
  <2>1. /\ UNCHANGED <<stream, sent, entries>>
        /\ \E s \in {"publishing", "committed", "failed"} : status' = [status EXCEPT ![t] = s]
    BY <1>5 DEF Commit, CommitFails, MSet, MSetFails
  <2> QED
    BY <1>0, <2>1, AnnouncedKept
<1>6. ASSUME NEW t \in Tx, Publish(t)
      PROVE  AnnouncedSoFar'
  <2>1. /\ status[t] = "publishing" /\ UNCHANGED status
        /\ \A u \in Tx : u # t => sent'[u] = sent[u]
    BY <1>0, <1>6 DEF Publish
  <2>2. \A u \in Tx : AreEntries(u, 1 .. sent[u])'
    BY <1>6, AnnouncedPublish
  <2> QED
    BY <1>0, <2>1, <2>2 DEF AnnouncedSoFar
<1>7. ASSUME NEW t \in Tx, Rollback(t)
      PROVE  AnnouncedSoFar'
  <2>1. /\ status[t] = "open" /\ UNCHANGED <<stream, sent>>
        /\ status' = [status EXCEPT ![t] = "ended"]
        /\ \A u \in Tx : u # t => entries'[u] = entries[u]
    BY <1>0, <1>7 DEF Rollback
  <2> QED
    BY <1>0, <2>1, AnnouncedKept
<1>8. ASSUME NEW S \in Ranges, DropPrefix(S)
      PROVE  AnnouncedSoFar'
  BY <1>0, <1>8, AnnouncedKept DEF DropPrefix
<1>9. CASE UNCHANGED vars
  BY <1>0, <1>9, AnnouncedKept DEF vars
<1> QED
  BY <1>1, <1>3, <1>4, <1>5, <1>6, <1>7, <1>8, <1>9 DEF Next, TxStep

\* The stream of the distributed provider (tx.go:99-116) carries entries of
\* transactions TiKV has committed only, in order and none twice, although
\* Redis may lose any of them and commits publish between each other.
THEOREM StreamIsOfCommitted == Spec => []StreamOfCommitted
<1>1. Init => AnnouncedSoFar
  <2> SUFFICES ASSUME Init, NEW t \in Tx PROVE sent[t] = 0 /\ AreEntries(t, 1 .. sent[t])
    BY DEF AnnouncedSoFar
  <2>1. sent[t] = 0 /\ stream = << >>
    BY DEF Init
  <2>2. Announced(t) = {}
    BY <2>1 DEF Announced
  <2>3. [i \in {} |-> 0] \in [Announced(t) -> 1 .. sent[t]]
    BY <2>2
  <2> QED
    BY <2>1, <2>2, <2>3 DEF AreEntries
<1>2. CacheInv /\ AnnouncedSoFar /\ [Next]_vars => AnnouncedSoFar'
  BY AnnouncedStep DEF CacheInv
<1>3. CacheInv /\ AnnouncedSoFar => StreamOfCommitted
  <2> SUFFICES ASSUME TInv, AnnouncedSoFar, NEW t \in Tx
               PROVE  /\ Announced(t) # {} => status[t] \in {"publishing", "committed", "failed"}
                      /\ AreEntries(t, DOMAIN entries[t])
    BY DEF CacheInv, StreamOfCommitted
  <2>1. /\ status[t] \in {"new", "open", "publishing", "committed", "failed", "ended"}
        /\ status[t] \in {"new", "open", "ended"} => sent[t] = 0
        /\ 1 .. sent[t] \subseteq DOMAIN entries[t]
    BY DEF TInv, TypeOK, AnnouncedSoFar
  <2>2. PICK of \in [Announced(t) -> 1 .. sent[t]] :
          /\ \A i, j \in Announced(t) : i < j => of[i] < of[j]
          /\ \A i \in Announced(t) : stream[i].cdc = entries[t][of[i]]
    BY DEF AnnouncedSoFar, AreEntries
  <2>3. sent[t] = 0 => Announced(t) = {}
    BY <2>2
  <2>4. of \in [Announced(t) -> DOMAIN entries[t]]
    BY <2>1, <2>2
  <2> QED
    BY <2>1, <2>2, <2>3, <2>4 DEF AreEntries
<1> QED
  BY <1>1, <1>2, <1>3, CacheInvariant, PTL DEF Spec
=============================================================================
