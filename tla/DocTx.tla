------------------------------- MODULE DocTx -------------------------------
(***************************************************************************)
(* Document transactions: tx.go and the write path of tx_util.go over the  *)
(* badger provider.  A document is stored under its primary key; every     *)
(* secondary index has one more key per document, made of the indexed      *)
(* value and the document id.  All of it goes through one key-value        *)
(* transaction, so an operation works on the transaction's own view, and   *)
(* only its commit can be refused: when a key it has visited was committed *)
(* by someone else meanwhile (BadgerTx).  A document or index entry that   *)
(* is not there cannot be visited, since reads go through iterators.       *)
(*                                                                         *)
(* An operation that returns an error ends its transaction, as in          *)
(* defaultDB.Tx (db.go:153-172).  Change-data-capture documents, triggers, *)
(* authorization and validation are left to other modules.                 *)
(*                                                                         *)
(* An update stores the merged document but indexes the partial one, so a  *)
(* field it leaves out keeps its value and loses its index entry.  What    *)
(* the last write of each document said is kept in the history given, and  *)
(* the documents that were created twice at once in the history blind; no  *)
(* guard reads either.                                                     *)
(***************************************************************************)
EXTENDS DocSchema

CONSTANTS Longer,     \* [value -> values a prefix scan for it runs into]
          MaxOps      \* operations per transaction

\* A prefix has no closing separator, and an absent field leaves it bare.
ASSUME LongerAssumption ==
  /\ \A v \in Val : v \in Longer[v] /\ Longer[v] \subseteq Val
  /\ Longer[Absent] = Val \cup {Absent}
ASSUME BoundAssumption == MaxOps \in Nat
ASSUME IdsAssumption == \A c \in Coll : Ids[c] \subseteq Val

VARIABLES docs,  \* committed documents
          ents,  \* committed index entries
          tx,    \* the transactions
          given, \* history: the document each one was last written with
          blind  \* history: documents whose creation overwrote another one

vars == <<docs, ents, tx, given, blind>>

\* Keys of the key-value store.
DocKey(c, id) == <<c, id>>
Entry(i, v, id) == <<i, v, id>>

DocKeys == {DocKey(d.c, d.id) : d \in Documents}
EntryKeys == {Entry(i, v, id) : i \in Index, v \in Val \cup {Absent}, id \in UNION {Ids[c] : c \in Coll}}

\* docs, ents, given: the transaction's view; snap: the documents it began with;
\* reads, writes: keys visited and written; dirty: keys others have committed
\* since it began; known: transaction.docs, the ids hasDocID need not look up.
Fresh == [open |-> FALSE, docs |-> NoDocs, given |-> NoDocs, ents |-> {}, snap |-> NoDocs,
          reads |-> {}, writes |-> {}, dirty |-> {}, known |-> {}, ops |-> 0]

TypeOK ==
  /\ \A c \in Coll : docs[c] \in [Ids[c] -> Doc \cup {NoDoc}]
  /\ \A c \in Coll : given[c] \in [Ids[c] -> Doc \cup {NoDoc}]
  /\ ents \subseteq EntryKeys /\ blind \subseteq DocKeys
  /\ \A t \in Tx :
       /\ tx[t].open \in BOOLEAN /\ tx[t].ops \in 0..MaxOps
       /\ tx[t].known \subseteq DocKeys
       /\ tx[t].reads \cup tx[t].writes \cup tx[t].dirty \subseteq DocKeys \cup EntryKeys
       /\ ~tx[t].open => tx[t] = Fresh

Init == /\ docs = NoDocs /\ ents = {} /\ tx = [t \in Tx |-> Fresh]
        /\ given = NoDocs /\ blind = {}

-----------------------------------------------------------------------------
\* t.Get of an id: a scan that stops at the document if it is there, and
\* visits those whose id is longer if it is not.
Looked(x, c, id) ==
  IF x.docs[c][id] # NoDoc THEN {DocKey(c, id)}
  ELSE {DocKey(c, j) : j \in {l \in Ids[c] \cap Longer[id] : x.docs[c][l] # NoDoc}}

\* The entries a prefix scan of index i for value v runs into.
Scan(entries, i, v) == {e \in entries : e[1] = i /\ e[2] \in Longer[v]}

\* Index entries of document d.
EntriesOf(c, id, d) == IF d = NoDoc THEN {} ELSE {Entry(i, d[i.field], id) : i \in IndexesOf(c)}

\* hasDocID: the transaction has written or looked up the id, or it finds it.
Has(x, c, id) == DocKey(c, id) \in x.known \/ (id \in Ids[c] /\ x.docs[c][id] # NoDoc)
ForeignKeys(c, cmd) ==
  {DocKey(i.foreign, cmd[i.field]) :
     i \in {j \in IndexesOf(c) : j.foreign # NoColl /\ cmd[j.field] # Absent}}

\* updateSecondaryIndex lets a document through: its foreign keys exist, and
\* a scan for each unique value meets no other document.  old: the entries
\* that have just been deleted.
Accepts(x, c, id, cmd, old) ==
  /\ \A k \in ForeignKeys(c, cmd) : Has(x, k[1], k[2])
  /\ \A i \in IndexesOf(c) : i.unique =>
       \A e \in Scan(x.ents \ old, i, cmd[i.field]) : e[3] = id

\* Mutation: the entries of the previous version stay.
WriteKeepingOld(x, c, id, stored, cmd) ==
  LET new == EntriesOf(c, id, cmd)
  IN [x EXCEPT !.docs[c][id] = stored, !.given[c][id] = cmd,
               !.ents = @ \cup new,
               !.reads = @ \cup Looked(x, c, id) \cup (ForeignKeys(c, cmd) \ x.known),
               !.writes = @ \cup {DocKey(c, id)} \cup new,
               !.known = @ \cup {DocKey(c, id)} \cup ForeignKeys(c, cmd),
               !.ops = @ + 1]

\* Mutation: the entry is not written when the document is new.
WriteUnindexed(x, c, id, stored, cmd) ==
  LET old == EntriesOf(c, id, x.docs[c][id])
      new == IF x.docs[c][id] = NoDoc THEN {} ELSE EntriesOf(c, id, cmd)
  IN [x EXCEPT !.docs[c][id] = stored, !.given[c][id] = cmd,
               !.ents = (@ \ old) \cup new,
               !.reads = @ \cup Looked(x, c, id) \cup (ForeignKeys(c, cmd) \ x.known),
               !.writes = @ \cup {DocKey(c, id)} \cup old \cup new,
               !.known = @ \cup {DocKey(c, id)} \cup ForeignKeys(c, cmd),
               !.ops = @ + 1]

\* Mutation: a foreign key that exists is not looked up in the store.
WriteUnchecked(x, c, id, stored, cmd) ==
  LET old == EntriesOf(c, id, x.docs[c][id])
      new == EntriesOf(c, id, cmd)
  IN [x EXCEPT !.docs[c][id] = stored, !.given[c][id] = cmd,
               !.ents = (@ \ old) \cup new,
               !.reads = @ \cup Looked(x, c, id),
               !.writes = @ \cup {DocKey(c, id)} \cup old \cup new,
               !.known = @ \cup {DocKey(c, id)} \cup ForeignKeys(c, cmd),
               !.ops = @ + 1]

\* Mutation: the read of the previous version is not tracked.
WriteUnread(x, c, id, stored, cmd) ==
  LET old == EntriesOf(c, id, x.docs[c][id])
      new == EntriesOf(c, id, cmd)
  IN [x EXCEPT !.docs[c][id] = stored, !.given[c][id] = cmd,
               !.ents = (@ \ old) \cup new,
               !.writes = @ \cup {DocKey(c, id)} \cup old \cup new,
               !.known = @ \cup {DocKey(c, id)} \cup ForeignKeys(c, cmd),
               !.ops = @ + 1]

\* persistCommand for create, set and update: stored goes under the primary
\* key, but the index entries are those of the command's document.
Write(x, c, id, stored, cmd) ==
  LET old == EntriesOf(c, id, x.docs[c][id])
      new == EntriesOf(c, id, cmd)
      scanned == UNION {Scan(x.ents \ old, i, cmd[i.field]) : i \in {j \in IndexesOf(c) : j.unique}}
  IN [x EXCEPT !.docs[c][id] = stored, !.given[c][id] = cmd,
               !.ents = (@ \ old) \cup new,
               !.reads = @ \cup Looked(x, c, id) \cup scanned \cup (ForeignKeys(c, cmd) \ x.known),
               !.writes = @ \cup {DocKey(c, id)} \cup old \cup new,
               !.known = @ \cup {DocKey(c, id)} \cup ForeignKeys(c, cmd),
               !.ops = @ + 1]

\* cascadeDelete: what equality queries on the foreign keys of any collection
\* scan for the ids in S, and the documents they return, whatever the key's
\* cascade flag.
Scanned(x, S) == UNION {Scan(x.ents, p[1], p[2].id) : p \in {q \in Index \X S : q[1].foreign = q[2].c}}

Referring(x, d) ==
  {r \in Documents :
     \E i \in IndexesOf(r.c) :
       /\ i.foreign = d.c
       /\ \E e \in Scan(x.ents, i, d.id) : e[3] = r.id
       /\ x.docs[r.c][r.id] # NoDoc /\ x.docs[r.c][r.id][i.field] = d.id}

\* Mutation: only the documents referring to the deleted one directly.
DoomedOnce(x, c, id) ==
  {[c |-> c, id |-> id]} \cup Referring(x, [c |-> c, id |-> id])

Doomed(x, c, id) ==
  Reach({[c |-> c, id |-> id]}, [d \in Documents |-> Referring(x, d)])

Without(D, keys) ==
  [c \in Coll |-> [id \in Ids[c] |-> IF DocKey(c, id) \in keys THEN NoDoc ELSE D[c][id]]]

\* Mutation: deleted ids stay in transaction.docs.
EraseKeepingKnown(x, gone) ==
  LET keys == {DocKey(d.c, d.id) : d \in gone}
      old == UNION {EntriesOf(d.c, d.id, x.docs[d.c][d.id]) : d \in gone}
  IN [x EXCEPT !.docs = Without(@, keys), !.given = Without(@, keys),
               !.ents = @ \ old,
               !.reads = @ \cup keys,
               !.writes = @ \cup keys \cup old,
               !.ops = @ + 1]

\* persistCommand for delete, with all the deletes it cascades to.
Erase(x, gone) ==
  LET keys == {DocKey(d.c, d.id) : d \in gone}
      old == UNION {EntriesOf(d.c, d.id, x.docs[d.c][d.id]) : d \in gone}
      scanned == Scanned(x, gone)
      loaded == {DocKey(e[1].coll, e[3]) : e \in scanned}
  IN [x EXCEPT !.docs = Without(@, keys), !.given = Without(@, keys),
               !.ents = @ \ old,
               !.reads = @ \cup keys \cup scanned \cup loaded,
               !.writes = @ \cup keys \cup old,
               !.known = @ \ keys,
               !.ops = @ + 1]

-----------------------------------------------------------------------------
Begin(t) ==
  /\ ~tx[t].open
  /\ tx' = [tx EXCEPT ![t] = [Fresh EXCEPT !.open = TRUE, !.docs = docs,
                                           !.ents = ents, !.snap = docs,
                                           !.given = given]]
  /\ UNCHANGED <<docs, ents, given, blind>>

Working(t) == tx[t].open /\ tx[t].ops < MaxOps
Step(t, x) == tx' = [tx EXCEPT ![t] = x] /\ UNCHANGED <<docs, ents, given, blind>>

Get(t, c, id) ==
  /\ Working(t)
  /\ Step(t, [tx[t] EXCEPT !.reads = @ \cup Looked(tx[t], c, id), !.ops = @ + 1])

\* Create does not ask whether the document exists.
Create(t, c, id, d) ==
  /\ Working(t)
  /\ Accepts(tx[t], c, id, d, EntriesOf(c, id, tx[t].docs[c][id]))
  /\ Step(t, Write(tx[t], c, id, d, d))

Set(t, c, id, d) ==
  /\ Working(t)
  /\ c \in Immutable => tx[t].docs[c][id] = NoDoc
  /\ Accepts(tx[t], c, id, d, EntriesOf(c, id, tx[t].docs[c][id]))
  /\ Step(t, Write(tx[t], c, id, d, d))

\* The merged document is stored, the partial one is indexed.
Update(t, c, id, part) ==
  /\ Working(t)
  /\ c \notin Immutable /\ tx[t].docs[c][id] # NoDoc
  /\ Accepts(tx[t], c, id, part, EntriesOf(c, id, tx[t].docs[c][id]))
  /\ Step(t, Write(tx[t], c, id, Merge(tx[t].docs[c][id], part), part))

\* A query fails if it cannot load the document of an entry it scans.  The
\* delete of a document that is not there succeeds, and cascades, unless there
\* are index entries of it to compute.
Delete(t, c, id) ==
  /\ Working(t)
  /\ tx[t].docs[c][id] # NoDoc \/ IndexesOf(c) = {}
  /\ LET gone == Doomed(tx[t], c, id)
     IN  /\ \A e \in Scanned(tx[t], gone) : tx[t].docs[e[1].coll][e[3]] # NoDoc
         /\ \A d \in gone : d.c \notin Immutable \cup Undeletable
         /\ Step(t, Erase(tx[t], gone))

\* The documents of D, but those of the view V where they are written.
Merged(D, V, written) ==
  [c \in Coll |-> [id \in Ids[c] |-> IF DocKey(c, id) \in written THEN V[c][id] ELSE D[c][id]]]

\* What a transaction wrote that was not there when it began and is there now.
Unseen(x) == {DocKey(d.c, d.id) : d \in {e \in Documents :
                /\ DocKey(e.c, e.id) \in x.writes
                /\ x.snap[e.c][e.id] = NoDoc /\ docs[e.c][e.id] # NoDoc}}

\* Mutation: Commit leaves the transaction as it was.
CommitAgain(t) ==
  /\ tx[t].open
  /\ tx[t].writes # {} => tx[t].reads \cap tx[t].dirty = {}
  /\ docs' = Merged(docs, tx[t].docs, tx[t].writes)
  /\ given' = Merged(given, tx[t].given, tx[t].writes)
  /\ blind' = blind \cup Unseen(tx[t])
  /\ ents' = (ents \ tx[t].writes) \cup (tx[t].ents \cap tx[t].writes)
  /\ tx' = [tx EXCEPT ![t].open = FALSE]

\* The commit of the key-value transaction, refused if a key that was visited
\* has been committed by another transaction since this one began.
Commit(t) ==
  /\ tx[t].open
  /\ tx[t].writes # {} => tx[t].reads \cap tx[t].dirty = {}
  /\ docs' = Merged(docs, tx[t].docs, tx[t].writes)
  /\ given' = Merged(given, tx[t].given, tx[t].writes)
  /\ blind' = blind \cup Unseen(tx[t])
  /\ ents' = (ents \ tx[t].writes) \cup (tx[t].ents \cap tx[t].writes)
  /\ tx' = [u \in Tx |-> IF u = t THEN Fresh
                         ELSE IF tx[u].open THEN [tx[u] EXCEPT !.dirty = @ \cup tx[t].writes]
                         ELSE tx[u]]

\* An operation or the commit has returned an error, or the function did.
Rollback(t) == tx[t].open /\ Step(t, Fresh)

Next ==
  \E t \in Tx :
    \/ Begin(t) \/ Commit(t) \/ Rollback(t)
    \/ \E c \in Coll : \E id \in Ids[c] :
         \/ Get(t, c, id) \/ Delete(t, c, id)
         \/ \E d \in Input[c] : Create(t, c, id, d) \/ Set(t, c, id, d)
         \/ \E p \in Partial[c] : Update(t, c, id, p)

Spec == Init /\ [][Next]_vars

-----------------------------------------------------------------------------
Stored(c, id) == id \in Ids[c] /\ docs[c][id] # NoDoc

\* The last write of the document, an update, left the indexed field out.
LeftOut(i, id) == given[i.coll][id][i.field] # docs[i.coll][id][i.field]

\* README.md:157: "The value of the field is indexed".  Every committed
\* document is found under its own value in every index whose field its last
\* write gave.  A field that an update has left out keeps its value, and the
\* document is then in that index under no value (updateSecondaryIndex,
\* tx_util.go:304-381): README.md:157 does not hold of it.
IndexCoversDocuments ==
  \A i \in Index : \A id \in Ids[i.coll] :
    Stored(i.coll, id) =>
      Entry(i, IF LeftOut(i, id) THEN Absent ELSE docs[i.coll][id][i.field], id) \in ents

\* Every index entry with a value is that of a committed document with that
\* value: a scan for a value finds no id that queryScan (tx_util.go:437-443)
\* then fails to load, and no stale value.  The exceptions are documents that
\* two transactions created at once (the entries of the creation that was
\* overwritten stay), and entries without a value (those an update has left
\* stay when the field is given again, and when the document is deleted).
EntriesAreOfDocuments ==
  \A e \in ents :
    e[2] # Absent /\ DocKey(e[1].coll, e[3]) \notin blind
      => Stored(e[1].coll, e[3]) /\ docs[e[1].coll][e[3]][e[1].field] = e[2]

\* transaction.docs (tx.go:28) never vouches for a document that the
\* transaction cannot see: hasDocID skips the lookup for it.
KnownIdsExist ==
  \A t \in Tx : \A k \in tx[t].known : tx[t].docs[k[1]][k[2]] # NoDoc

\* A commit never overwrites or deletes a version of a document that was there
\* when its transaction began, unless the transaction has seen that version: no
\* update is lost.  A document that was not there is not protected: of two
\* transactions that create it, the second to commit overwrites what it has not
\* seen, since there is nothing to visit (tx_util.go:181, blind).
NoLostUpdate ==
  \A t \in Tx : tx[t].open /\ ~tx'[t].open /\ docs' # docs =>
    \A c \in Coll : \A id \in Ids[c] :
      DocKey(c, id) \in tx[t].writes /\ tx[t].snap[c][id] # NoDoc
        => docs[c][id] = tx[t].snap[c][id]
NoUpdateIsLost == [][NoLostUpdate]_vars

\* README.md:148: "Foreign keys are enforced by the database at runtime".  A
\* transaction never commits a document with a foreign key that its last write
\* gave and that names a document that is gone by then, whatever others
\* committed since it checked.  A foreign key that an update has left out is
\* not checked, and a delete that commits second does not find the document.
WrittenReferencesExist ==
  \A t \in Tx : tx[t].open /\ ~tx'[t].open /\ docs' # docs =>
    \A i \in Index : \A id \in Ids[i.coll] :
      LET d == given'[i.coll][id]
      IN  /\ i.foreign # NoColl /\ DocKey(i.coll, id) \in tx[t].writes
          /\ d # NoDoc /\ d[i.field] # Absent
          => /\ docs'[i.coll][id][i.field] = d[i.field]
             /\ docs'[i.foreign][d[i.field]] # NoDoc
ReferencesHoldAtCommit == [][WrittenReferencesExist]_vars

\* README.md:151: "The value of the field must be unique across all documents
\* in the collection".
UniqueAcrossCollection ==
  \A i \in Index : i.unique =>
    \A id, other \in Ids[i.coll] :
      /\ Stored(i.coll, id) /\ Stored(i.coll, other) /\ id # other
      => docs[i.coll][id][i.field] # docs[i.coll][other][i.field]

\* The document layer implements the store without indexes, for any number of
\* transactions at once: what the indexes decide about unique values, foreign
\* keys and cascades is what the documents in view call for.
Plain == INSTANCE DocStore WITH
           open <- {t \in Tx : tx[t].open},
           view <- [t \in Tx |-> tx[t].docs],
           said <- [t \in Tx |-> tx[t].given],
           written <- [t \in Tx |-> {d \in Documents : DocKey(d.c, d.id) \in tx[t].writes}]
ImplementsDocStore == Plain!Spec
=============================================================================
