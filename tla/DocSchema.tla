----------------------------- MODULE DocSchema -----------------------------
(***************************************************************************)
(* Collections, documents and secondary indexes, as far as transactions    *)
(* care: which fields are indexed, which of the indexes are unique, and    *)
(* which field of which collection holds the primary key of another one    *)
(* (model.go:248-326, schema.go:133-233).                                  *)
(***************************************************************************)
EXTENDS Naturals, FiniteSets

CONSTANTS Coll,       \* collections
          Ids,        \* [Coll -> set of primary keys]
          Field,      \* indexed fields of the documents
          Val,        \* field values, primary keys among them
          Absent,     \* the document does not have the field
          NoDoc,      \* there is no such document
          NoColl,     \* the index is not a foreign key
          Index,      \* secondary indexes, one field each
          Tx,         \* transactions
          Input,      \* [Coll -> documents the application writes]
          Partial,    \* [Coll -> partial documents it updates with]
          Immutable,  \* x-immutable collections
          Undeletable \* x-prevent-deletes collections

Doc == [Field -> Val \cup {Absent}]
Documents == UNION {[c : {c}, id : Ids[c]] : c \in Coll}
IndexType == [coll : Coll, field : Field, unique : BOOLEAN,
              foreign : Coll \cup {NoColl}, cascade : BOOLEAN]

ASSUME IndexAssumption == Index \subseteq IndexType /\ IsFiniteSet(Coll)
ASSUME NamesAssumption == Absent \notin Val /\ NoDoc \notin Doc /\ NoColl \notin Coll
\* A foreign key points down some numbering of the collections (dag.go).
ASSUME AcyclicAssumption ==
  \E level \in [Coll -> 0 .. Cardinality(Coll) - 1] :
    \A i \in Index : i.foreign # NoColl => level[i.foreign] < level[i.coll]
ASSUME InputAssumption == \A c \in Coll : Input[c] \subseteq Doc /\ Partial[c] \subseteq Doc
ASSUME ProtectedAssumption == Immutable \subseteq Coll /\ Undeletable \subseteq Coll

IndexesOf(c) == {i \in Index : i.coll = c}
NoDocs == [c \in Coll |-> [id \in Ids[c] |-> NoDoc]]

\* updateDocument (tx_util.go:47-54): the fields of the partial document
\* replace those before.
Merge(before, part) == [f \in Field |-> IF part[f] = Absent THEN before[f] ELSE part[f]]

\* The documents in S, those that refer to them, and so on; foreign keys are
\* acyclic (dag.go), so no chain is longer than the collections.
Reach(S, referring) ==
  LET upTo[n \in 0..Cardinality(Coll)] ==
        IF n = 0 THEN S
        ELSE upTo[n - 1] \cup UNION {referring[d] : d \in upTo[n - 1]}
  IN  upTo[Cardinality(Coll)]
=============================================================================
