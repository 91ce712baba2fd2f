------------------------------ MODULE DocStore ------------------------------
(***************************************************************************)
(* What the document layer promises to transactions: collections of        *)
(* documents, no indexes.  Uniqueness, foreign keys and cascades are       *)
(* statements about the documents a transaction sees, as far as they were  *)
(* given: a write that leaves a field of a document out keeps its value,   *)
(* and promises nothing about it any more.  Transactions see the documents *)
(* of their beginning, and a commit installs those it has written.         *)
(***************************************************************************)
EXTENDS DocSchema

VARIABLES docs,    \* committed documents
          given,   \* what each of them was last written with
          open,    \* the open transactions
          view,    \* documents as each of them sees them
          said,    \* what each of those was last written with
          written  \* documents each of them has written

vars == <<docs, given, open, view, said, written>>

Init == /\ docs = NoDocs /\ given = NoDocs /\ open = {}
        /\ view = [t \in Tx |-> NoDocs] /\ said = [t \in Tx |-> NoDocs]
        /\ written = [t \in Tx |-> {}]

Present(t, c, id) == id \in Ids[c] /\ view[t][c][id] # NoDoc

\* No other document of the collection was given the value of a unique field.
Unique(t, c, id, d) ==
  \A i \in IndexesOf(c) : i.unique =>
    \A other \in Ids[c] \ {id} :
      Present(t, c, other) => said[t][c][other][i.field] # d[i.field]

\* A foreign key, where there is one, is the primary key of a document.
References(t, c, d) ==
  \A i \in IndexesOf(c) :
    i.foreign # NoColl /\ d[i.field] # Absent => Present(t, i.foreign, d[i.field])

\* The documents that have d as a foreign key in D.
Referring(D, d) ==
  {r \in Documents : /\ D[r.c][r.id] # NoDoc
                     /\ \E i \in IndexesOf(r.c) :
                          i.foreign = d.c /\ D[r.c][r.id][i.field] = d.id}
Cascade(D, c, id) ==
  Reach({[c |-> c, id |-> id]}, [d \in Documents |-> Referring(D, d)])

Begin(t) == /\ t \notin open
            /\ open' = open \cup {t}
            /\ view' = [view EXCEPT ![t] = docs] /\ said' = [said EXCEPT ![t] = given]
            /\ UNCHANGED <<docs, given, written>>

Store(t, c, id, d, part) ==
  /\ t \in open
  /\ view' = [view EXCEPT ![t][c][id] = d] /\ said' = [said EXCEPT ![t][c][id] = part]
  /\ written' = [written EXCEPT ![t] = @ \cup {[c |-> c, id |-> id]}]
  /\ UNCHANGED <<docs, given, open>>

Put(t, c, id, d) == /\ Store(t, c, id, d, d)
                    /\ Unique(t, c, id, d) /\ References(t, c, d)

Patch(t, c, id, part) == /\ Present(t, c, id)
                         /\ Store(t, c, id, Merge(view[t][c][id], part), part)
                         /\ Unique(t, c, id, part) /\ References(t, c, part)

\* The documents of D, but for those in S the documents of V.
Over(D, V, S) ==
  [c \in Coll |-> [id \in Ids[c] |-> IF [c |-> c, id |-> id] \in S THEN V[c][id] ELSE D[c][id]]]

\* A delete takes with it every document that was given a key of one that
\* goes, and none that has no such key.
Remove(t, c, id) ==
  /\ t \in open
  /\ \E gone \in SUBSET Documents :
       /\ written' = [written EXCEPT ![t] = @ \cup gone]
       /\ view' = [view EXCEPT ![t] = Over(@, NoDocs, gone)]
       /\ said' = [said EXCEPT ![t] = Over(@, NoDocs, gone)]
       /\ Cascade(said[t], c, id) \subseteq gone
       /\ gone \subseteq Cascade(view[t], c, id)
  /\ UNCHANGED <<docs, given, open>>

End(t) == /\ t \in open
          /\ open' = open \ {t}
          /\ view' = [view EXCEPT ![t] = NoDocs] /\ said' = [said EXCEPT ![t] = NoDocs]
          /\ written' = [written EXCEPT ![t] = {}]

Commit(t) == /\ End(t)
             /\ docs' = Over(docs, view[t], written[t])
             /\ given' = Over(given, said[t], written[t])

Abort(t) == End(t) /\ UNCHANGED <<docs, given>>

Next ==
  \E t \in Tx :
    \/ Begin(t) \/ Commit(t) \/ Abort(t)
    \/ \E c \in Coll : \E id \in Ids[c] :
         \/ \E d \in Input[c] : Put(t, c, id, d)
         \/ \E p \in Partial[c] : Patch(t, c, id, p)
         \/ Remove(t, c, id)

Spec == Init /\ [][Next]_vars
=============================================================================
