---------------------------- MODULE DocTxProofs ----------------------------
(***************************************************************************)
(* Proofs about DocTx, for any collections, documents, indexes, inputs,    *)
(* updates and transactions at once: no update is lost, no id is vouched   *)
(* for that its transaction cannot see, every field that was given is      *)
(* indexed, no commit leaves a foreign key it was given to a document that *)
(* is gone, and the document layer implements DocStore.                    *)
(***************************************************************************)
EXTENDS DocTx, FiniteSetTheorems, WellFoundedInduction, TLAPS

-----------------------------------------------------------------------------
(* Reach, the cascade of a delete: a table with one row per length of the    *)
(* chains of foreign keys, by induction over its rows.                       *)

\* Every nonempty set of naturals has a least element.
LEMMA LeastElement ==
  ASSUME NEW T, T \subseteq Nat, T # {}
  PROVE  \E n \in T : \A m \in T : n <= m
<1>1. IsWellFoundedOn(OpToRel(<, Nat), Nat)
  BY NatLessThanWellFounded
<1>2. PICK n \in T : \A m \in T : ~(<<m, n>> \in OpToRel(<, Nat))
  BY <1>1, WFMin
<1>3. \A m \in T : ~(m < n)
  BY <1>2 DEF OpToRel
<1> QED
  BY <1>3

\* Induction, for the set of the numbers that have a property.
LEMMA SetInduction ==
  ASSUME NEW T, 0 \in T, \A n \in Nat : n \in T => n + 1 \in T
  PROVE  Nat \subseteq T
<1> SUFFICES ASSUME Nat \ T # {} PROVE FALSE
  OBVIOUS
<1>1. PICK n \in Nat \ T : \A m \in Nat \ T : n <= m
  BY LeastElement
<1>2. n # 0 /\ n - 1 \in Nat
  BY <1>1
<1>3. n - 1 \in T
  BY <1>1, <1>2
<1>4. (n - 1) + 1 \in T
  BY <1>2, <1>3
<1> QED
  BY <1>1, <1>4

\* The documents in R and those that refer to them.
Extend(R, referring) == R \cup UNION {referring[d] : d \in R}

\* u is the table that Reach computes: one row per length of the chains.
IsTable(u, m, S, referring) ==
  u = [n \in 0 .. m |-> IF n = 0 THEN S ELSE Extend(u[n - 1], referring)]

\* One more row.
LEMMA TableGrows ==
  ASSUME NEW S, NEW referring, NEW m \in Nat, NEW u, IsTable(u, m, S, referring)
  PROVE  \E w : IsTable(w, m + 1, S, referring)
<1> DEFINE row == Extend(u[m], referring)
           w == [n \in 0 .. (m + 1) |-> IF n = m + 1 THEN row ELSE u[n]]
<1>1. \A n \in 0 .. m : w[n] = u[n]
  OBVIOUS
<1>2. \A n \in 0 .. m :
        u[n] = IF n = 0 THEN S ELSE Extend(u[n - 1], referring)
  BY DEF IsTable
<1>3. w[m + 1] = row
  OBVIOUS
<1>4. ASSUME NEW n \in 0 .. (m + 1)
      PROVE  w[n] = IF n = 0 THEN S ELSE Extend(w[n - 1], referring)
  <2>1. CASE n = m + 1
    <3>1. n # 0 /\ n - 1 = m /\ m \in 0 .. m
      BY <2>1
    <3>2. w[n - 1] = u[m]
      BY <1>1, <3>1
    <3> HIDE DEF w
    <3> QED
      BY <1>3, <2>1, <3>1, <3>2
  <2>2. CASE n \in 0 .. m /\ n # 0
    <3>1. n - 1 \in 0 .. m
      BY <2>2
    <3>2. w[n] = u[n] /\ w[n - 1] = u[n - 1]
      BY <1>1, <2>2, <3>1
    <3> HIDE DEF w
    <3> QED
      BY <1>2, <2>2, <3>2
  <2>3. CASE n = 0
    <3>1. w[0] = u[0] /\ u[0] = S
      BY <1>1, <1>2
    <3> HIDE DEF w
    <3> QED
      BY <2>3, <3>1
  <2> QED
    BY <2>1, <2>2, <2>3
<1>5. DOMAIN w = 0 .. (m + 1) /\ w = [n \in 0 .. (m + 1) |-> w[n]]
  OBVIOUS
<1> HIDE DEF w
<1>6. w = [n \in 0 .. (m + 1) |-> IF n = 0 THEN S ELSE Extend(w[n - 1], referring)]
  BY <1>4, <1>5
<1> QED
  BY <1>6 DEF IsTable

\* There is a table of any length.
LEMMA TableExists ==
  ASSUME NEW S, NEW referring, NEW m \in Nat
  PROVE  \E u : IsTable(u, m, S, referring)
<1> DEFINE T == {n \in Nat : \E u : IsTable(u, n, S, referring)}
<1>1. 0 \in T
  <2>1. IsTable([n \in 0 .. 0 |-> S], 0, S, referring)
    BY DEF IsTable
  <2> QED
    BY <2>1
<1>2. \A n \in Nat : n \in T => n + 1 \in T
  BY TableGrows
<1> HIDE DEF T
<1>3. Nat \subseteq T
  BY <1>1, <1>2, SetInduction
<1> QED
  BY <1>3 DEF T

\* Reach is the last row of the table.
LEMMA ReachTable ==
  ASSUME NEW S, NEW referring
  PROVE  \E u : IsTable(u, Cardinality(Coll), S, referring) /\ Reach(S, referring) = u[Cardinality(Coll)]
<1> DEFINE N == Cardinality(Coll)
           u == CHOOSE f : IsTable(f, N, S, referring)
<1>1. N \in Nat
  BY IndexAssumption, FS_CardinalityType
<1>2. IsTable(u, N, S, referring)
  <2>1. \E f : IsTable(f, N, S, referring)
    BY <1>1, TableExists
  <2> QED
    BY <2>1
<1>3. Reach(S, referring) = u[N]
  BY DEF Reach, IsTable, Extend
<1> QED
  BY <1>2, <1>3

\* The same, row by row.
HasRows(u, m, S, referring) ==
  /\ u[0] = S
  /\ \A n \in Nat : n < m => u[n + 1] = Extend(u[n], referring)

\* A table has these rows.
LEMMA TableRows ==
  ASSUME NEW S, NEW referring, NEW m \in Nat, NEW u, IsTable(u, m, S, referring)
  PROVE  HasRows(u, m, S, referring)
<1>1. \A n \in 0 .. m :
        u[n] = IF n = 0 THEN S ELSE Extend(u[n - 1], referring)
  BY DEF IsTable
<1>2. u[0] = S
  BY <1>1
<1>3. ASSUME NEW n \in Nat, n < m
      PROVE  u[n + 1] = Extend(u[n], referring)
  <2>1. n + 1 \in 0 .. m /\ n + 1 # 0 /\ (n + 1) - 1 = n
    BY <1>3
  <2>2. u[n + 1] = Extend(u[(n + 1) - 1], referring)
    BY <1>1, <2>1
  <2> QED
    BY <2>1, <2>2
<1> QED
  BY <1>2, <1>3 DEF HasRows

\* What is reached are documents, if what refers to documents are documents,
\* and the documents one starts with are reached.
LEMMA ReachType ==
  ASSUME NEW S \in SUBSET Documents, NEW referring \in [Documents -> SUBSET Documents]
  PROVE  Reach(S, referring) \subseteq Documents /\ S \subseteq Reach(S, referring)
<1> DEFINE N == Cardinality(Coll)
<1>1. N \in Nat
  BY IndexAssumption, FS_CardinalityType
<1>2. PICK u : IsTable(u, N, S, referring) /\ Reach(S, referring) = u[N]
  BY ReachTable
<1> HIDE DEF N
<1>3. /\ u[0] = S
      /\ \A n \in Nat : n < N => u[n + 1] = Extend(u[n], referring)
  BY <1>1, <1>2, TableRows DEF HasRows
<1> DEFINE T == {n \in Nat : n <= N => u[n] \subseteq Documents /\ S \subseteq u[n]}
<1>4. 0 \in T
  BY <1>1, <1>3
<1>5. ASSUME NEW n \in Nat, n \in T, n + 1 <= N
      PROVE  u[n + 1] \subseteq Documents /\ S \subseteq u[n + 1]
  <2>1. u[n + 1] = Extend(u[n], referring)
    BY <1>1, <1>3, <1>5
  <2>2. u[n] \subseteq Documents /\ S \subseteq u[n]
    BY <1>1, <1>5
  <2> QED
    BY <2>1, <2>2 DEF Extend
<1>6. \A n \in Nat : n \in T => n + 1 \in T
  <2> SUFFICES ASSUME NEW n \in Nat, n \in T PROVE n + 1 \in T
    OBVIOUS
  <2>1. n + 1 \in Nat
    OBVIOUS
  <2> QED
    BY <1>5, <2>1
<1> HIDE DEF T
<1>7. Nat \subseteq T
  BY <1>4, <1>6, SetInduction
<1> QED
  BY <1>1, <1>2, <1>7 DEF T

\* The more refers to documents, the more is reached.
LEMMA ReachMonotone ==
  ASSUME NEW S, NEW fewer, NEW more, \A d \in Documents : fewer[d] \subseteq more[d],
         S \in SUBSET Documents, fewer \in [Documents -> SUBSET Documents]
  PROVE  Reach(S, fewer) \subseteq Reach(S, more)
<1> DEFINE N == Cardinality(Coll)
<1>1. N \in Nat
  BY IndexAssumption, FS_CardinalityType
<1>2. PICK u : IsTable(u, N, S, fewer) /\ Reach(S, fewer) = u[N]
  BY ReachTable
<1>3. PICK w : IsTable(w, N, S, more) /\ Reach(S, more) = w[N]
  BY ReachTable
<1> HIDE DEF N
<1>4. HasRows(u, N, S, fewer) /\ HasRows(w, N, S, more)
  BY <1>1, <1>2, <1>3, TableRows
<1> DEFINE T == {n \in Nat : n <= N => u[n] \subseteq w[n] /\ u[n] \subseteq Documents}
<1>5. 0 \in T
  BY <1>4 DEF HasRows
<1>6. ASSUME NEW n \in Nat, n \in T, n + 1 <= N
      PROVE  u[n + 1] \subseteq w[n + 1] /\ u[n + 1] \subseteq Documents
  <2>1. u[n + 1] = Extend(u[n], fewer) /\ w[n + 1] = Extend(w[n], more)
    BY <1>1, <1>4, <1>6 DEF HasRows
  <2>2. u[n] \subseteq w[n] /\ u[n] \subseteq Documents
    BY <1>1, <1>6
  <2> QED
    BY <2>1, <2>2 DEF Extend
<1>7. \A n \in Nat : n \in T => n + 1 \in T
  <2> SUFFICES ASSUME NEW n \in Nat, n \in T PROVE n + 1 \in T
    OBVIOUS
  <2>1. n + 1 \in Nat
    OBVIOUS
  <2> QED
    BY <1>6, <2>1
<1> HIDE DEF T
<1>8. Nat \subseteq T
  BY <1>5, <1>7, SetInduction
<1> QED
  BY <1>1, <1>2, <1>3, <1>8 DEF T

\* A referring relation that goes up a numbering of the collections.
Upward(referring) ==
  \E level \in [Coll -> 0 .. Cardinality(Coll) - 1] :
    \A d \in Documents : \A r \in referring[d] : level[d.c] < level[r.c]

\* Along such a relation nothing that refers to a document reached is missed.
LEMMA ReachClosed ==
  ASSUME NEW S \in SUBSET Documents, NEW referring \in [Documents -> SUBSET Documents],
         Upward(referring), NEW d \in Reach(S, referring)
  PROVE  referring[d] \subseteq Reach(S, referring)
<1> DEFINE N == Cardinality(Coll)
<1>1. N \in Nat
  BY IndexAssumption, FS_CardinalityType
<1>2. PICK u : IsTable(u, N, S, referring) /\ Reach(S, referring) = u[N]
  BY ReachTable
<1>3. PICK level \in [Coll -> 0 .. N - 1] :
        \A e \in Documents : \A r \in referring[e] : level[e.c] < level[r.c]
  BY DEF Upward
<1>4. d \in Documents /\ d.c \in Coll
  <2>1. d \in Documents
    BY ReachType
  <2> QED
    BY <2>1 DEF Documents
<1> HIDE DEF N
<1>5. \A e \in Documents : e.c \in Coll
  BY DEF Documents
<1>6. /\ u[0] = S
      /\ \A n \in Nat : n < N => u[n + 1] = Extend(u[n], referring)
  <2>1. HasRows(u, N, S, referring)
    BY <1>1, <1>2, TableRows
  <2> QED
    BY <2>1 DEF HasRows
<1> DEFINE T == {n \in Nat : n < N => /\ u[n] \subseteq Documents
                                      /\ \A r \in u[n + 1] \ u[n] : r \in Documents /\ level[r.c] > n}
<1>7. 0 \in T
  <2> SUFFICES ASSUME 0 < N
               PROVE  u[0] \subseteq Documents /\ \A r \in u[0 + 1] \ u[0] : r \in Documents /\ level[r.c] > 0
    OBVIOUS
  <2>1. u[0 + 1] = Extend(u[0], referring)
    BY <1>6
  <2>2. u[0] \subseteq Documents
    BY <1>6
  <2>3. ASSUME NEW r \in u[0 + 1] \ u[0]
        PROVE  r \in Documents /\ level[r.c] > 0
    <3>1. PICK e \in u[0] : r \in referring[e]
      BY <2>1, <2>3 DEF Extend
    <3>2. e \in Documents /\ r \in Documents /\ level[e.c] < level[r.c]
      BY <1>3, <2>2, <3>1
    <3>3. level[e.c] \in 0 .. N - 1 /\ level[r.c] \in 0 .. N - 1
      BY <1>3, <1>5, <3>2
    <3> QED
      BY <1>1, <3>2, <3>3
  <2> QED
    BY <2>2, <2>3
<1>8. ASSUME NEW n \in Nat, n \in T
      PROVE  n + 1 \in T
  <2> SUFFICES ASSUME n + 1 < N
               PROVE  /\ u[n + 1] \subseteq Documents
                      /\ \A r \in u[(n + 1) + 1] \ u[n + 1] : r \in Documents /\ level[r.c] > n + 1
    OBVIOUS
  <2>1. u[n + 1] = Extend(u[n], referring)
    BY <1>1, <1>6
  <2>2. u[(n + 1) + 1] = Extend(u[n + 1], referring)
    BY <1>1, <1>6
  <2>3. n < N
    BY <1>1
  <2>4. u[n] \subseteq Documents /\ \A r \in u[n + 1] \ u[n] : r \in Documents /\ level[r.c] > n
    BY <1>8, <2>3
  <2>5. u[n + 1] \subseteq Documents
    BY <2>4
  <2>6. ASSUME NEW r \in u[(n + 1) + 1] \ u[n + 1]
        PROVE  r \in Documents /\ level[r.c] > n + 1
    <3>1. PICK e \in u[n + 1] : r \in referring[e]
      BY <2>2, <2>6 DEF Extend
    <3>2. e \in Documents /\ r \in Documents /\ level[e.c] < level[r.c]
      BY <1>3, <2>5, <3>1
    <3>3. e \notin u[n]
      BY <2>1, <2>6, <3>1 DEF Extend
    <3>4. level[e.c] > n
      BY <2>4, <3>1, <3>3
    <3>5. level[e.c] \in 0 .. N - 1 /\ level[r.c] \in 0 .. N - 1
      BY <1>3, <1>5, <3>2
    <3> QED
      BY <1>1, <3>2, <3>4, <3>5
  <2> QED
    BY <2>5, <2>6
<1> HIDE DEF T
<1>9. Nat \subseteq T
  BY <1>7, <1>8, SetInduction
<1>10. N # 0
  BY <1>1, <1>3, <1>4
<1>11. PICK m \in Nat : N = m + 1
  <2>1. N - 1 \in Nat /\ N = (N - 1) + 1
    BY <1>1, <1>10
  <2> QED
    BY <2>1
<1>12. \A r \in u[m + 1] \ u[m] : r \in Documents /\ level[r.c] > m
  BY <1>9, <1>11 DEF T
<1>13. \A r \in Documents : level[r.c] \in 0 .. m
  BY <1>3, <1>5, <1>11
<1>14. u[m + 1] \subseteq u[m]
  BY <1>12, <1>13
<1>15. u[m + 1] = Extend(u[m], referring)
  BY <1>6, <1>11
<1> QED
  BY <1>2, <1>11, <1>14, <1>15 DEF Extend

-----------------------------------------------------------------------------
(* The documents a transaction sees, and those it has visited or written.    *)

\* The documents of a transaction, or of the store, by collection and id.
DocsType(D) == D = [c \in Coll |-> D[c]] /\ \A c \in Coll : D[c] \in [Ids[c] -> Doc \cup {NoDoc}]
TxFields == {"open", "docs", "given", "ents", "snap", "reads", "writes", "dirty", "known", "ops"}
Shape(x) == DOMAIN x = TxFields /\ DocsType(x.docs) /\ DocsType(x.snap) /\ DocsType(x.given)

\* A document has the values of the fields it was last written with, and what
\* is not there was not written.
Fits(c, stored, cmd) == \A i \in IndexesOf(c) : cmd[i.field] \in {Absent, stored[i.field]}
AgreeAt(c, d, g) == (g = NoDoc <=> d = NoDoc) /\ (d # NoDoc => Fits(c, d, g))
Agree(D, G) == \A c \in Coll : \A id \in Ids[c] : AgreeAt(c, D[c][id], G[c][id])

\* A document that is not written looks as it did at the beginning, and one
\* that was there at the beginning and is written has been visited.
Sound(x) ==
  \A c \in Coll : \A id \in Ids[c] :
    /\ DocKey(c, id) \notin x.writes => x.docs[c][id] = x.snap[c][id]
    /\ DocKey(c, id) \in x.writes /\ x.snap[c][id] # NoDoc => DocKey(c, id) \in x.reads

\* Every id that is vouched for is that of a document in view.
Vouched(x) == x.known \subseteq DocKeys /\ \A k \in x.known : x.docs[k[1]][k[2]] # NoDoc

\* A document that nobody has committed since the beginning is as it was.
Current(x) ==
  x.open => \A c \in Coll : \A id \in Ids[c] : DocKey(c, id) \notin x.dirty => docs[c][id] = x.snap[c][id]

Good(x) == Shape(x) /\ Sound(x) /\ Vouched(x) /\ Agree(x.docs, x.given)
DocInv == /\ DocsType(docs) /\ DocsType(given) /\ Agree(docs, given) /\ blind \subseteq DocKeys
          /\ DOMAIN tx = Tx /\ \A t \in Tx : Good(tx[t]) /\ Current(tx[t])

\* An index entry is never taken for a document.
LEMMA EntryIsNoDocKey ==
  ASSUME NEW c, NEW id, NEW i, NEW v, NEW j
  PROVE  DocKey(c, id) # Entry(i, v, j)
BY DEF DocKey, Entry

\* The keys of documents determine collection and id.
LEMMA DocKeyParts ==
  ASSUME NEW c, NEW id
  PROVE  /\ DocKey(c, id)[1] = c /\ DocKey(c, id)[2] = id
         /\ \A d, j : DocKey(c, id) = DocKey(d, j) => c = d /\ id = j
BY DEF DocKey

\* A transaction that has not begun is good.
LEMMA FreshGood == Good(Fresh) /\ ~Fresh.open
<1>1. DocsType(NoDocs)
  BY DEF DocsType, NoDocs
<1>2. Shape(Fresh)
  BY <1>1 DEF Fresh, Shape, TxFields
<1>3. Sound(Fresh) /\ Vouched(Fresh)
  BY DEF Fresh, Sound, Vouched
<1>4. Agree(Fresh.docs, Fresh.given)
  BY DEF Fresh, Agree, AgreeAt, NoDocs
<1> QED
  BY <1>2, <1>3, <1>4 DEF Good, Fresh

\* A document in view is one.
LEMMA InView ==
  ASSUME NEW x, Shape(x), NEW c \in Coll, NEW id \in Ids[c]
  PROVE  x.docs[c][id] \in Doc \cup {NoDoc}
BY DEF Shape, DocsType

\* What Write changes.
Wrote(x, y, c, id, stored, cmd) ==
  /\ DOMAIN y = TxFields /\ y.open = x.open /\ y.snap = x.snap /\ y.dirty = x.dirty
  /\ y.docs = [x.docs EXCEPT ![c][id] = stored]
  /\ y.given = [x.given EXCEPT ![c][id] = cmd]
  /\ y.known = x.known \cup {DocKey(c, id)} \cup ForeignKeys(c, cmd)
  /\ x.reads \cup Looked(x, c, id) \subseteq y.reads
  /\ \A d, j : DocKey(d, j) \in y.writes <=> DocKey(d, j) \in x.writes \cup {DocKey(c, id)}

\* That it is what Write changes.
LEMMA WriteParts ==
  ASSUME NEW x, Shape(x), NEW c, NEW id, NEW stored, NEW cmd,
         NEW y, y = Write(x, c, id, stored, cmd)
  PROVE  Wrote(x, y, c, id, stored, cmd)
<1> DEFINE old == EntriesOf(c, id, x.docs[c][id])
           new == EntriesOf(c, id, cmd)
<1>1. \A d, j : DocKey(d, j) \notin old \cup new
  BY EntryIsNoDocKey DEF EntriesOf
<1>2. DOMAIN x = TxFields
  BY DEF Shape
<1>3. y.writes = x.writes \cup {DocKey(c, id)} \cup old \cup new
  BY <1>2 DEF Write, TxFields
<1>4. /\ DOMAIN y = TxFields /\ y.open = x.open /\ y.snap = x.snap /\ y.dirty = x.dirty
      /\ y.docs = [x.docs EXCEPT ![c][id] = stored]
      /\ y.given = [x.given EXCEPT ![c][id] = cmd]
      /\ y.known = x.known \cup {DocKey(c, id)} \cup ForeignKeys(c, cmd)
      /\ x.reads \cup Looked(x, c, id) \subseteq y.reads
  BY <1>2 DEF Write, TxFields
<1> HIDE DEF old, new
<1>5. \A d, j : DocKey(d, j) \in y.writes <=> DocKey(d, j) \in x.writes \cup {DocKey(c, id)}
  BY <1>1, <1>3
<1> QED
  BY <1>4, <1>5 DEF Wrote

\* One document more or less leaves documents.
LEMMA ExceptType ==
  ASSUME NEW D, DocsType(D), NEW c \in Coll, NEW id \in Ids[c], NEW d \in Doc \cup {NoDoc}
  PROVE  DocsType([D EXCEPT ![c][id] = d])
<1> DEFINE E == [D[c] EXCEPT ![id] = d]
<1>1. E \in [Ids[c] -> Doc \cup {NoDoc}]
  BY DEF DocsType
<1> HIDE DEF E
<1>2. [D EXCEPT ![c][id] = d] = [D EXCEPT ![c] = E]
  BY DEF E
<1>3. DocsType([D EXCEPT ![c] = E])
  BY <1>1 DEF DocsType
<1> QED
  BY <1>2, <1>3

\* Writing a document keeps a transaction good: a version that is replaced has
\* been visited, and the foreign keys it vouches for exist.
LEMMA WriteGood ==
  ASSUME NEW x, Good(x), NEW c \in Coll, NEW id \in Ids[c],
         NEW stored \in Doc, NEW cmd \in Doc, Fits(c, stored, cmd), NEW old,
         Accepts(x, c, id, cmd, old)
  PROVE  Good(Write(x, c, id, stored, cmd))
<1> SUFFICES ASSUME NEW y, y = Write(x, c, id, stored, cmd)
             PROVE  Good(y)
  OBVIOUS
<1>1. Shape(x) /\ Sound(x) /\ Vouched(x) /\ Agree(x.docs, x.given)
  BY DEF Good
<1>2. Wrote(x, y, c, id, stored, cmd)
  BY <1>1, WriteParts
<1>3. stored # NoDoc
  BY NamesAssumption
<1>4. \A d \in Coll : \A j \in Ids[d] :
        y.docs[d][j] = IF d = c /\ j = id THEN stored ELSE x.docs[d][j]
  BY <1>1, <1>2 DEF Shape, DocsType, Wrote
<1>5. Shape(y)
  BY <1>1, <1>2, ExceptType DEF Shape, Wrote
<1>6. Sound(y)
  <2> SUFFICES ASSUME NEW d \in Coll, NEW j \in Ids[d]
               PROVE  /\ DocKey(d, j) \notin y.writes => y.docs[d][j] = y.snap[d][j]
                      /\ DocKey(d, j) \in y.writes /\ y.snap[d][j] # NoDoc => DocKey(d, j) \in y.reads
    BY DEF Sound
  <2>1. CASE d = c /\ j = id
    <3>1. x.docs[c][id] # NoDoc => DocKey(c, id) \in y.reads
      BY <1>2 DEF Looked, Wrote
    <3>2. x.snap[c][id] # NoDoc => x.docs[c][id] # NoDoc \/ DocKey(c, id) \in x.reads
      BY <1>1 DEF Sound
    <3> QED
      BY <1>2, <2>1, <3>1, <3>2 DEF Wrote
  <2>2. CASE ~(d = c /\ j = id)
    <3>1. DocKey(d, j) # DocKey(c, id)
      BY <2>2, DocKeyParts
    <3> QED
      BY <1>1, <1>2, <1>4, <2>2, <3>1 DEF Sound, Wrote
  <2> QED
    BY <2>1, <2>2
<1>7. Vouched(y)
  <2>1. \A d \in Coll : \A j \in Ids[d] : x.docs[d][j] # NoDoc => y.docs[d][j] # NoDoc
    BY <1>3, <1>4
  <2>2. \A k \in x.known : k \in DocKeys /\ y.docs[k[1]][k[2]] # NoDoc
    <3> SUFFICES ASSUME NEW k \in x.known PROVE k \in DocKeys /\ y.docs[k[1]][k[2]] # NoDoc
      OBVIOUS
    <3>1. k \in DocKeys /\ x.docs[k[1]][k[2]] # NoDoc
      BY <1>1 DEF Vouched
    <3>2. PICK d \in Coll : \E j \in Ids[d] : k = DocKey(d, j)
      BY <3>1 DEF DocKeys, Documents
    <3>3. PICK j \in Ids[d] : k = DocKey(d, j)
      BY <3>2
    <3> QED
      BY <2>1, <3>1, <3>3, DocKeyParts
  <2>3. DocKey(c, id) \in DocKeys /\ y.docs[DocKey(c, id)[1]][DocKey(c, id)[2]] # NoDoc
    <3>1. [c |-> c, id |-> id] \in Documents
      BY DEF Documents
    <3> QED
      BY <1>3, <1>4, <3>1, DocKeyParts DEF DocKeys
  <2>4. \A k \in ForeignKeys(c, cmd) : k \in DocKeys /\ y.docs[k[1]][k[2]] # NoDoc
    <3> SUFFICES ASSUME NEW k \in ForeignKeys(c, cmd) PROVE k \in DocKeys /\ y.docs[k[1]][k[2]] # NoDoc
      OBVIOUS
    <3>1. Has(x, k[1], k[2])
      BY DEF Accepts
    <3>2. PICK i \in IndexesOf(c) : i.foreign # NoColl /\ k = DocKey(i.foreign, cmd[i.field])
      BY DEF ForeignKeys
    <3>3. i.foreign \in Coll /\ k[1] = i.foreign /\ k[2] = cmd[i.field] /\ k = DocKey(k[1], k[2])
      BY <3>2, IndexAssumption, DocKeyParts DEF IndexesOf, IndexType
    <3>4. CASE k \in x.known
      BY <2>2, <3>4
    <3>5. CASE k[2] \in Ids[k[1]] /\ x.docs[k[1]][k[2]] # NoDoc
      <4>1. [c |-> k[1], id |-> k[2]] \in Documents
        BY <3>3, <3>5 DEF Documents
      <4>2. k \in DocKeys
        BY <3>3, <4>1 DEF DocKeys
      <4> QED
        BY <2>1, <3>3, <3>5, <4>2
    <3> QED
      BY <3>1, <3>3, <3>4, <3>5 DEF Has
  <2> QED
    BY <1>2, <2>2, <2>3, <2>4 DEF Vouched, Wrote
<1>8. Agree(y.docs, y.given)
  <2>1. \A d \in Coll : \A j \in Ids[d] :
          y.given[d][j] = IF d = c /\ j = id THEN cmd ELSE x.given[d][j]
    BY <1>1, <1>2 DEF Shape, DocsType, Wrote
  <2>2. cmd # NoDoc
    BY NamesAssumption
  <2> QED
    BY <1>1, <1>3, <1>4, <2>1, <2>2 DEF Agree, AgreeAt
<1> QED
  BY <1>5, <1>6, <1>7, <1>8 DEF Good

\* What Erase changes.
Erased(x, y, keys) ==
  /\ DOMAIN y = TxFields /\ y.open = x.open /\ y.snap = x.snap /\ y.dirty = x.dirty
  /\ y.docs = Without(x.docs, keys) /\ y.given = Without(x.given, keys)
  /\ y.known = x.known \ keys
  /\ x.reads \cup keys \subseteq y.reads
  /\ \A d, j : DocKey(d, j) \in y.writes <=> DocKey(d, j) \in x.writes \cup keys

\* That it is what Erase changes.
LEMMA EraseParts ==
  ASSUME NEW x, Shape(x), NEW gone, NEW y, y = Erase(x, gone),
         NEW keys, keys = {DocKey(d.c, d.id) : d \in gone}
  PROVE  Erased(x, y, keys)
<1> DEFINE old == UNION {EntriesOf(d.c, d.id, x.docs[d.c][d.id]) : d \in gone}
<1>1. \A d, j : DocKey(d, j) \notin old
  BY EntryIsNoDocKey DEF EntriesOf
<1>2. DOMAIN x = TxFields
  BY DEF Shape
<1>3. y.writes = x.writes \cup keys \cup old
  BY <1>2 DEF Erase, TxFields
<1>4. /\ DOMAIN y = TxFields /\ y.open = x.open /\ y.snap = x.snap /\ y.dirty = x.dirty
      /\ y.docs = Without(x.docs, keys) /\ y.given = Without(x.given, keys)
      /\ y.known = x.known \ keys
      /\ x.reads \cup keys \subseteq y.reads
  BY <1>2 DEF Erase, TxFields
<1> HIDE DEF old
<1>5. \A d, j : DocKey(d, j) \in y.writes <=> DocKey(d, j) \in x.writes \cup keys
  BY <1>1, <1>3
<1> QED
  BY <1>4, <1>5 DEF Erased

\* Deleting documents keeps a transaction good, whatever the cascade reached.
LEMMA EraseGood ==
  ASSUME NEW x, Good(x), NEW gone
  PROVE  Good(Erase(x, gone))
<1> SUFFICES ASSUME NEW y, y = Erase(x, gone), NEW keys, keys = {DocKey(d.c, d.id) : d \in gone}
             PROVE  Good(y)
  OBVIOUS
<1>1. Shape(x) /\ Sound(x) /\ Vouched(x) /\ Agree(x.docs, x.given)
  BY DEF Good
<1>2. Erased(x, y, keys)
  BY <1>1, EraseParts
<1>3. \A c \in Coll : \A id \in Ids[c] :
        y.docs[c][id] = IF DocKey(c, id) \in keys THEN NoDoc ELSE x.docs[c][id]
  BY <1>2 DEF Erased, Without
<1>4. Shape(y)
  <2>1. \A D : DocsType(D) => DocsType(Without(D, keys))
    BY DEF DocsType, Without
  <2> QED
    BY <1>1, <1>2, <2>1 DEF Shape, Erased
<1>5. Sound(y)
  BY <1>1, <1>2, <1>3 DEF Sound, Erased
<1>6. Vouched(y)
  <2> SUFFICES ASSUME NEW k \in x.known, k \notin keys
               PROVE  k \in DocKeys /\ y.docs[k[1]][k[2]] # NoDoc
    BY <1>2 DEF Vouched, Erased
  <2>1. k \in DocKeys /\ x.docs[k[1]][k[2]] # NoDoc
    BY <1>1 DEF Vouched
  <2>2. PICK d \in Coll : \E j \in Ids[d] : k = DocKey(d, j)
    BY <2>1 DEF DocKeys, Documents
  <2>3. PICK j \in Ids[d] : k = DocKey(d, j)
    BY <2>2
  <2> QED
    BY <1>3, <2>1, <2>3, DocKeyParts
<1>7. Agree(y.docs, y.given)
  <2>1. \A c \in Coll : \A id \in Ids[c] :
          y.given[c][id] = IF DocKey(c, id) \in keys THEN NoDoc ELSE x.given[c][id]
    BY <1>2 DEF Erased, Without
  <2> QED
    BY <1>1, <1>3, <2>1 DEF Agree, AgreeAt
<1> QED
  BY <1>4, <1>5, <1>6, <1>7 DEF Good

-----------------------------------------------------------------------------
\* The parts of the invariant in the next state.
LEMMA NextParts ==
  ASSUME DocsType(docs'), DocsType(given'), Agree(docs', given'), blind' \subseteq DocKeys,
         DOMAIN tx' = Tx, \A u \in Tx : Good(tx'[u]) /\ Current(tx[u])'
  PROVE  DocInv'
BY DEF DocInv, Good, Shape, Sound, Vouched, DocsType, Agree, AgreeAt, Fits

\* An operation of one transaction that keeps it good keeps the invariant.
LEMMA OwnStep ==
  ASSUME DocInv, NEW t \in Tx, NEW y, Good(y), Step(t, y),
         y.open => tx[t].open /\ y.snap = tx[t].snap /\ y.dirty = tx[t].dirty
  PROVE  DocInv'
<1>1. DOMAIN tx' = Tx /\ tx'[t] = y /\ docs' = docs /\ given' = given /\ blind' = blind
  BY DEF Step, DocInv
<1>2. \A u \in Tx \ {t} : tx'[u] = tx[u]
  BY DEF Step, DocInv
<1>3. Current(y)
  BY DEF DocInv, Current
<1>4. \A u \in Tx : Good(tx'[u]) /\ Current(tx'[u])
  BY <1>1, <1>2, <1>3 DEF DocInv
<1>5. \A u \in Tx : Current(tx[u])' <=> Current(tx'[u])
  BY <1>1 DEF Current
<1> QED
  BY <1>1, <1>4, <1>5, NextParts DEF DocInv

\* A visit keeps a transaction good.
LEMMA ReadGood ==
  ASSUME NEW x, Good(x), NEW R, NEW y, y = [x EXCEPT !.reads = @ \cup R, !.ops = @ + 1]
  PROVE  Good(y) /\ y.open = x.open /\ y.snap = x.snap /\ y.dirty = x.dirty
<1>1. /\ DOMAIN y = TxFields /\ y.open = x.open /\ y.snap = x.snap /\ y.dirty = x.dirty
      /\ y.docs = x.docs /\ y.given = x.given
      /\ y.writes = x.writes /\ y.known = x.known /\ y.reads = x.reads \cup R
  BY DEF Good, Shape, TxFields
<1> QED
  BY <1>1 DEF Good, Shape, Sound, Vouched

\* A transaction begins with the committed documents.
LEMMA BeginGood ==
  ASSUME DocsType(docs), DocsType(given), Agree(docs, given), NEW y,
         y = [Fresh EXCEPT !.open = TRUE, !.docs = docs, !.ents = ents, !.snap = docs, !.given = given]
  PROVE  Good(y) /\ Current(y)
<1>1. /\ DOMAIN y = TxFields /\ y.docs = docs /\ y.snap = docs /\ y.given = given
      /\ y.writes = {} /\ y.known = {} /\ y.reads = {}
  BY DEF Fresh, TxFields
<1> QED
  BY <1>1 DEF Good, Shape, Sound, Vouched, Current

\* What others commit makes the keys dirty and nothing else.
LEMMA DirtyGood ==
  ASSUME NEW x, Good(x), NEW W, NEW y, y = [x EXCEPT !.dirty = @ \cup W]
  PROVE  Good(y) /\ y.open = x.open /\ y.snap = x.snap /\ y.dirty = x.dirty \cup W
<1>1. /\ DOMAIN y = TxFields /\ y.open = x.open /\ y.snap = x.snap /\ y.dirty = x.dirty \cup W
      /\ y.docs = x.docs /\ y.given = x.given
      /\ y.writes = x.writes /\ y.known = x.known /\ y.reads = x.reads
  BY DEF Good, Shape, TxFields
<1> QED
  BY <1>1 DEF Good, Shape, Sound, Vouched

\* What a commit leaves of the documents and of the other transactions.
LEMMA CommitParts ==
  ASSUME DocInv, NEW t \in Tx, Commit(t)
  PROVE  /\ DocsType(docs') /\ DocsType(given')
         /\ \A c \in Coll : \A id \in Ids[c] :
              /\ docs'[c][id] = IF DocKey(c, id) \in tx[t].writes THEN tx[t].docs[c][id] ELSE docs[c][id]
              /\ given'[c][id] = IF DocKey(c, id) \in tx[t].writes THEN tx[t].given[c][id] ELSE given[c][id]
         /\ DOMAIN tx' = Tx
         /\ tx'[t] = Fresh
         /\ \A u \in Tx \ {t} : IF tx[u].open THEN tx'[u] = [tx[u] EXCEPT !.dirty = @ \cup tx[t].writes]
                                ELSE tx'[u] = tx[u]
<1>1. DocsType(docs) /\ DocsType(tx[t].docs) /\ DocsType(given) /\ DocsType(tx[t].given)
  BY DEF DocInv, Good, Shape
<1>2. docs' = Merged(docs, tx[t].docs, tx[t].writes) /\ given' = Merged(given, tx[t].given, tx[t].writes)
  BY DEF Commit
<1>3. \A D, V, W : DocsType(D) /\ DocsType(V) => DocsType(Merged(D, V, W))
  BY DEF DocsType, Merged
<1>4. \A D, V, W : \A c \in Coll : \A id \in Ids[c] :
        Merged(D, V, W)[c][id] = IF DocKey(c, id) \in W THEN V[c][id] ELSE D[c][id]
  BY DEF Merged
<1>5. DocsType(docs') /\ DocsType(given')
  BY <1>1, <1>2, <1>3
<1>6. \A c \in Coll : \A id \in Ids[c] :
        /\ docs'[c][id] = IF DocKey(c, id) \in tx[t].writes THEN tx[t].docs[c][id] ELSE docs[c][id]
        /\ given'[c][id] = IF DocKey(c, id) \in tx[t].writes THEN tx[t].given[c][id] ELSE given[c][id]
  BY <1>2, <1>4
<1> QED
  BY <1>5, <1>6 DEF Commit

\* A commit keeps the invariant: what it changes is dirty for all others.
LEMMA CommitKeeps ==
  ASSUME DocInv, NEW t \in Tx, Commit(t)
  PROVE  DocInv'
<1>1. DocsType(docs') /\ DocsType(given') /\ DOMAIN tx' = Tx /\ tx'[t] = Fresh
  BY CommitParts
<1>2. \A c \in Coll : \A id \in Ids[c] :
        DocKey(c, id) \notin tx[t].writes => docs'[c][id] = docs[c][id]
  BY CommitParts
<1>3. ASSUME NEW u \in Tx
      PROVE  Good(tx'[u]) /\ Current(tx[u])'
  <2>1. CASE u = t
    BY <1>1, <2>1, FreshGood DEF Current
  <2>2. CASE u # t /\ tx[u].open
    <3>1. tx'[u] = [tx[u] EXCEPT !.dirty = @ \cup tx[t].writes]
      BY <2>2, CommitParts
    <3>2. Good(tx'[u]) /\ tx'[u].snap = tx[u].snap /\ tx'[u].dirty = tx[u].dirty \cup tx[t].writes
      BY <3>1, DirtyGood DEF DocInv
    <3> QED
      BY <1>2, <2>2, <3>2 DEF DocInv, Current
  <2>3. CASE u # t /\ ~tx[u].open
    <3>1. tx'[u] = tx[u]
      BY <2>3, CommitParts
    <3> QED
      BY <2>3, <3>1 DEF DocInv, Current
  <2> QED
    BY <2>1, <2>2, <2>3
<1>4. Agree(docs', given')
  <2>1. Agree(docs, given) /\ Agree(tx[t].docs, tx[t].given)
    BY DEF DocInv, Good
  <2>2. \A c \in Coll : \A id \in Ids[c] :
          \/ docs'[c][id] = docs[c][id] /\ given'[c][id] = given[c][id]
          \/ docs'[c][id] = tx[t].docs[c][id] /\ given'[c][id] = tx[t].given[c][id]
    BY CommitParts
  <2> QED
    BY <2>1, <2>2 DEF Agree
<1>5. blind' \subseteq DocKeys
  BY DEF Commit, Unseen, DocKeys, DocInv
<1> QED
  BY <1>1, <1>3, <1>4, <1>5, NextParts

\* A merged document has the values of the fields of the partial one.
LEMMA MergeFits ==
  ASSUME NEW c, NEW before \in Doc, NEW p \in Doc
  PROVE  Merge(before, p) \in Doc /\ Fits(c, Merge(before, p), p)
<1>1. Merge(before, p) \in Doc
  BY DEF Merge, Doc
<1>2. \A i \in IndexesOf(c) : i.field \in Field
  BY IndexAssumption DEF IndexesOf, IndexType
<1> QED
  BY <1>1, <1>2 DEF Merge, Fits

\* The invariant holds of an empty store ...
LEMMA DocInit == Init => DocInv
<1>1. Init => /\ DocsType(docs) /\ DocsType(given) /\ Agree(docs, given) /\ blind \subseteq DocKeys
              /\ \A t \in Tx : tx[t] = Fresh
  BY FreshGood DEF Init, Good, Shape, Fresh
<1> QED
  BY <1>1, FreshGood DEF Init, DocInv, Current

\* ... and every step keeps it.
LEMMA DocStep ==
  ASSUME DocInv, [Next]_vars
  PROVE  DocInv'
<1>1. ASSUME NEW t \in Tx, Begin(t)
      PROVE  DocInv'
  <2>1. PICK y : y = [Fresh EXCEPT !.open = TRUE, !.docs = docs, !.ents = ents, !.snap = docs, !.given = given]
    OBVIOUS
  <2>2. Good(y) /\ Current(y)
    BY <2>1, BeginGood DEF DocInv
  <2>3. tx' = [tx EXCEPT ![t] = y] /\ docs' = docs /\ given' = given /\ blind' = blind
    BY <1>1, <2>1 DEF Begin
  <2>4. DOMAIN tx' = Tx /\ \A u \in Tx : Good(tx'[u]) /\ Current(tx'[u])
    BY <2>2, <2>3 DEF DocInv
  <2>5. \A u \in Tx : Current(tx[u])' <=> Current(tx'[u])
    BY <2>3 DEF Current
  <2> QED
    BY <2>3, <2>4, <2>5, NextParts DEF DocInv
<1>2. ASSUME NEW t \in Tx, Rollback(t)
      PROVE  DocInv'
  BY <1>2, OwnStep, FreshGood DEF Rollback
<1>3. ASSUME NEW t \in Tx, NEW c \in Coll, NEW id \in Ids[c], Get(t, c, id)
      PROVE  DocInv'
  <2>1. PICK x, R : x = tx[t] /\ R = Looked(x, c, id)
    OBVIOUS
  <2>2. PICK y : y = [x EXCEPT !.reads = @ \cup R, !.ops = @ + 1]
    OBVIOUS
  <2>3. Good(x) /\ x.open /\ Step(t, y)
    BY <1>3, <2>1, <2>2 DEF Get, Working, DocInv
  <2>4. Good(y) /\ y.open = x.open /\ y.snap = x.snap /\ y.dirty = x.dirty
    BY <2>2, <2>3, ReadGood
  <2> QED
    BY <2>1, <2>3, <2>4, OwnStep
<1>4. ASSUME NEW t \in Tx, NEW c \in Coll, NEW id \in Ids[c],
             NEW stored \in Doc, NEW cmd \in Doc, Fits(c, stored, cmd),
             NEW old, Working(t), Accepts(tx[t], c, id, cmd, old),
             Step(t, Write(tx[t], c, id, stored, cmd))
      PROVE  DocInv'
  <2>1. PICK x, y : x = tx[t] /\ y = Write(x, c, id, stored, cmd)
    OBVIOUS
  <2>2. Good(x) /\ x.open /\ Step(t, y) /\ Accepts(x, c, id, cmd, old)
    BY <1>4, <2>1 DEF Working, DocInv
  <2>3. Good(y)
    BY <1>4, <2>1, <2>2, WriteGood
  <2>4. Wrote(x, y, c, id, stored, cmd)
    BY <2>1, <2>2, WriteParts DEF Good
  <2> QED
    BY <2>1, <2>2, <2>3, <2>4, OwnStep DEF Wrote
<1>5. ASSUME NEW t \in Tx, NEW c \in Coll, NEW id \in Ids[c], NEW d \in Input[c],
             Create(t, c, id, d) \/ Set(t, c, id, d)
      PROVE  DocInv'
  <2>1. d \in Doc /\ Fits(c, d, d)
    BY InputAssumption DEF Fits
  <2> QED
    BY <1>4, <1>5, <2>1 DEF Create, Set
<1>6. ASSUME NEW t \in Tx, NEW c \in Coll, NEW id \in Ids[c], NEW p \in Partial[c], Update(t, c, id, p)
      PROVE  DocInv'
  <2>1. p \in Doc /\ tx[t].docs[c][id] \in Doc
    BY <1>6, InputAssumption, InView DEF Update, DocInv, Good
  <2>2. Merge(tx[t].docs[c][id], p) \in Doc /\ Fits(c, Merge(tx[t].docs[c][id], p), p)
    BY <2>1, MergeFits
  <2> QED
    BY <1>4, <1>6, <2>1, <2>2 DEF Update
<1>7. ASSUME NEW t \in Tx, NEW c \in Coll, NEW id \in Ids[c], Delete(t, c, id)
      PROVE  DocInv'
  <2>1. PICK gone : tx[t].open /\ Step(t, Erase(tx[t], gone))
    BY <1>7 DEF Delete, Working
  <2>2. PICK x, y : x = tx[t] /\ y = Erase(x, gone)
    OBVIOUS
  <2>3. PICK keys : keys = {DocKey(d.c, d.id) : d \in gone}
    OBVIOUS
  <2>4. Good(x) /\ x.open /\ Step(t, y)
    BY <2>1, <2>2 DEF DocInv
  <2>5. Good(y)
    BY <2>2, <2>4, EraseGood
  <2>6. Erased(x, y, keys)
    BY <2>2, <2>3, <2>4, EraseParts DEF Good
  <2> QED
    BY <2>2, <2>4, <2>5, <2>6, OwnStep DEF Erased
<1>8. CASE UNCHANGED vars
  <2>1. docs' = docs /\ given' = given /\ blind' = blind /\ tx' = tx
    BY <1>8 DEF vars
  <2>2. \A u \in Tx : Good(tx'[u]) /\ Current(tx[u])'
    BY <2>1 DEF DocInv, Current
  <2> QED
    BY <2>1, <2>2, NextParts DEF DocInv
<1> QED
  BY <1>1, <1>2, <1>3, <1>5, <1>6, <1>7, <1>8, CommitKeeps DEF Next

\* The store changes by commits only.
LEMMA OnlyCommit ==
  ASSUME [Next]_vars, docs' # docs
  PROVE  \E t \in Tx : Commit(t)
<1>1. \A t \in Tx : ~Begin(t) /\ ~Rollback(t)
  BY DEF Begin, Rollback, Step
<1>2. \A t \in Tx : \A c \in Coll : \A id \in Ids[c] : ~Get(t, c, id) /\ ~Delete(t, c, id)
  BY DEF Get, Delete, Step
<1>3. \A t \in Tx : \A c \in Coll : \A id \in Ids[c] : \A d :
        ~Create(t, c, id, d) /\ ~Set(t, c, id, d) /\ ~Update(t, c, id, d)
  BY DEF Create, Set, Update, Step
<1>4. ~UNCHANGED vars
  BY DEF vars
<1> QED
  BY <1>1, <1>2, <1>3, <1>4 DEF Next

\* The invariant holds always.
LEMMA DocInvariant == Spec => []DocInv
BY DocInit, DocStep, PTL DEF Spec

\* hasDocID (tx.go:28) never skips the lookup of a document that the
\* transaction cannot see, whatever it has written, cascaded or merged.
THEOREM KnownIdsAreThere == Spec => []KnownIdsExist
<1>1. DocInv => KnownIdsExist
  BY DEF DocInv, Good, Vouched, KnownIdsExist
<1> QED
  BY <1>1, DocInvariant, PTL

\* No commit replaces or deletes a version of a document that was there when
\* its transaction began and that the transaction has not seen, for any number
\* of transactions.  Nothing is said of documents that were not there: blind.
THEOREM UpdatesAreKept == Spec => NoUpdateIsLost
<1>1. DocInv /\ [Next]_vars => [NoLostUpdate]_vars
  <2> SUFFICES ASSUME DocInv, [Next]_vars, NEW t \in Tx, tx[t].open, ~tx'[t].open, docs' # docs,
                      NEW c \in Coll, NEW id \in Ids[c],
                      DocKey(c, id) \in tx[t].writes, tx[t].snap[c][id] # NoDoc
               PROVE  docs[c][id] = tx[t].snap[c][id]
    BY DEF NoLostUpdate
  <2>1. PICK u \in Tx : Commit(u)
    BY OnlyCommit
  <2>2. u = t
    <3> SUFFICES ASSUME u # t PROVE FALSE
      OBVIOUS
    <3>1. tx'[t] = [tx[t] EXCEPT !.dirty = @ \cup tx[u].writes]
      BY <2>1, CommitParts
    <3> QED
      BY <3>1, DirtyGood DEF DocInv
  <2>3. DocKey(c, id) \in tx[t].reads
    BY DEF DocInv, Good, Sound
  <2>4. DocKey(c, id) \notin tx[t].dirty
    BY <2>1, <2>2, <2>3 DEF Commit
  <2> QED
    BY <2>4 DEF DocInv, Current
<1> QED
  BY <1>1, DocInvariant, PTL DEF Spec, NoUpdateIsLost

-----------------------------------------------------------------------------
(* The kinds of steps, and the types.                                        *)

\* A create or set stores the document it gives, an update the merged one.
Puts(t, c, id, stored, cmd) ==
  /\ Working(t)
  /\ Accepts(tx[t], c, id, cmd, EntriesOf(c, id, tx[t].docs[c][id]))
  /\ Step(t, Write(tx[t], c, id, stored, cmd))
  /\ \/ cmd \in Input[c] /\ stored = cmd
     \/ cmd \in Partial[c] /\ tx[t].docs[c][id] # NoDoc /\ stored = Merge(tx[t].docs[c][id], cmd)

\* What is stored has the values of the fields that are given.
LEMMA PutsFit ==
  ASSUME DocInv, NEW t \in Tx, NEW c \in Coll, NEW id \in Ids[c],
         NEW stored \in Doc, NEW cmd \in Doc, Puts(t, c, id, stored, cmd)
  PROVE  Fits(c, stored, cmd)
<1>1. CASE stored = cmd
  BY <1>1 DEF Fits
<1>2. CASE tx[t].docs[c][id] # NoDoc /\ stored = Merge(tx[t].docs[c][id], cmd)
  <2>1. tx[t].docs[c][id] \in Doc
    BY <1>2, InView DEF DocInv, Good
  <2> QED
    BY <1>2, <2>1, MergeFits
<1> QED
  BY <1>1, <1>2 DEF Puts

\* Every step of the program is of one of these kinds.
LEMMA Moves ==
  ASSUME DocInv, [Next]_vars
  PROVE  \/ \E t \in Tx : Begin(t) \/ Commit(t) \/ Rollback(t)
         \/ \E t \in Tx : \E c \in Coll : \E id \in Ids[c] : Get(t, c, id) \/ Delete(t, c, id)
         \/ \E t \in Tx : \E c \in Coll : \E id \in Ids[c] : \E stored, cmd \in Doc :
              Puts(t, c, id, stored, cmd)
         \/ UNCHANGED vars
<1>1. ASSUME NEW t \in Tx, NEW c \in Coll, NEW id \in Ids[c], NEW d \in Input[c],
             Create(t, c, id, d) \/ Set(t, c, id, d)
      PROVE  d \in Doc /\ Puts(t, c, id, d, d)
  BY <1>1, InputAssumption DEF Create, Set, Puts
<1>2. ASSUME NEW t \in Tx, NEW c \in Coll, NEW id \in Ids[c], NEW p \in Partial[c], Update(t, c, id, p)
      PROVE  \E stored, cmd \in Doc : Puts(t, c, id, stored, cmd)
  <2>1. p \in Doc /\ tx[t].docs[c][id] \in Doc
    BY <1>2, InputAssumption, InView DEF Update, DocInv, Good
  <2>2. Merge(tx[t].docs[c][id], p) \in Doc
    BY <2>1, MergeFits
  <2> QED
    BY <1>2, <2>1, <2>2 DEF Update, Puts
<1> QED
  BY <1>1, <1>2 DEF Next

\* An index entry of a document, by index, value and id.
IsEntry(e) ==
  \E i \in Index : \E v \in Val \cup {Absent} : \E id \in Ids[i.coll] : e = Entry(i, v, id)

\* What a transaction holds, apart from the documents.
Typed(x) ==
  /\ x.open \in BOOLEAN /\ x.ops \in 0 .. MaxOps
  /\ \A e \in x.ents : IsEntry(e)
  /\ x.reads \cup x.writes \cup x.dirty \subseteq DocKeys \cup EntryKeys
  /\ ~x.open => x = Fresh

TypeInv == DocInv /\ (\A e \in ents : IsEntry(e)) /\ \A t \in Tx : Typed(tx[t])

\* An entry is a key, and names a document that could be there.
LEMMA EntryParts ==
  ASSUME NEW e, IsEntry(e)
  PROVE  /\ e \in EntryKeys /\ e[1] \in Index /\ e[1].coll \in Coll /\ e[3] \in Ids[e[1].coll]
         /\ e = Entry(e[1], e[2], e[3])
<1>1. PICK i \in Index : \E v \in Val \cup {Absent} : \E id \in Ids[i.coll] : e = Entry(i, v, id)
  BY DEF IsEntry
<1>2. PICK v \in Val \cup {Absent} : \E id \in Ids[i.coll] : e = Entry(i, v, id)
  BY <1>1
<1>3. PICK id \in Ids[i.coll] : e = Entry(i, v, id)
  BY <1>2
<1>4. e[1] = i /\ e[2] = v /\ e[3] = id
  BY <1>3 DEF Entry
<1>5. i.coll \in Coll
  BY IndexAssumption DEF IndexType
<1>6. id \in UNION {Ids[c] : c \in Coll}
  BY <1>5
<1>7. e \in EntryKeys
  BY <1>3, <1>6 DEF EntryKeys
<1> QED
  BY <1>3, <1>4, <1>5, <1>7

\* The entries of a document are entries of its collection with its id.
LEMMA EntriesOfParts ==
  ASSUME NEW c \in Coll, NEW id \in Ids[c], NEW d \in Doc \cup {NoDoc}, NEW e \in EntriesOf(c, id, d)
  PROVE  IsEntry(e) /\ e[1].coll = c /\ e[3] = id
<1>1. d # NoDoc /\ d \in Doc
  BY DEF EntriesOf
<1>2. PICK i \in IndexesOf(c) : e = Entry(i, d[i.field], id)
  BY DEF EntriesOf
<1>3. i \in Index /\ i.coll = c /\ i.field \in Field
  BY IndexAssumption DEF IndexesOf, IndexType
<1>4. d[i.field] \in Val \cup {Absent}
  BY <1>1, <1>3 DEF Doc
<1> QED
  BY <1>2, <1>3, <1>4 DEF IsEntry, Entry

\* The key of a document that could be there.
LEMMA DocKeyType ==
  ASSUME NEW c \in Coll, NEW id \in Ids[c]
  PROVE  DocKey(c, id) \in DocKeys
<1>1. [c |-> c, id |-> id] \in Documents
  BY DEF Documents
<1> QED
  BY <1>1 DEF DocKeys

\* What Write changes, entry by entry and key by key.
WroteKeys(x, y, c, id, cmd) ==
  LET old == EntriesOf(c, id, x.docs[c][id])
      new == EntriesOf(c, id, cmd)
  IN  /\ y.ents = (x.ents \ old) \cup new
      /\ y.writes = x.writes \cup {DocKey(c, id)} \cup old \cup new
      /\ y.reads = x.reads \cup Looked(x, c, id)
                   \cup (UNION {Scan(x.ents \ old, i, cmd[i.field]) : i \in {j \in IndexesOf(c) : j.unique}})
                   \cup (ForeignKeys(c, cmd) \ x.known)
      /\ y.ops = x.ops + 1

\* That it is what Write changes.
LEMMA WriteKeys ==
  ASSUME NEW x, Shape(x), NEW c, NEW id, NEW stored, NEW cmd,
         NEW y, y = Write(x, c, id, stored, cmd)
  PROVE  WroteKeys(x, y, c, id, cmd)
<1>1. DOMAIN x = TxFields
  BY DEF Shape
<1> QED
  BY <1>1 DEF Write, WroteKeys, TxFields

\* What Erase changes, entry by entry and key by key.
ErasedKeys(x, y, gone) ==
  LET keys == {DocKey(d.c, d.id) : d \in gone}
      old == UNION {EntriesOf(d.c, d.id, x.docs[d.c][d.id]) : d \in gone}
      scanned == Scanned(x, gone)
  IN  /\ y.ents = x.ents \ old
      /\ y.writes = x.writes \cup keys \cup old
      /\ y.reads = x.reads \cup keys \cup scanned \cup {DocKey(e[1].coll, e[3]) : e \in scanned}
      /\ y.ops = x.ops + 1

\* That it is what Erase changes.
LEMMA EraseKeys ==
  ASSUME NEW x, Shape(x), NEW gone, NEW y, y = Erase(x, gone)
  PROVE  ErasedKeys(x, y, gone)
<1>1. DOMAIN x = TxFields
  BY DEF Shape
<1> QED
  BY <1>1 DEF Erase, ErasedKeys, TxFields

\* What a cascade reaches are documents, the first one among them.
LEMMA DoomedType ==
  ASSUME NEW x, NEW c \in Coll, NEW id \in Ids[c]
  PROVE  Doomed(x, c, id) \subseteq Documents /\ [c |-> c, id |-> id] \in Doomed(x, c, id)
<1> DEFINE S == {[c |-> c, id |-> id]}
           referring == [d \in Documents |-> Referring(x, d)]
<1>1. S \in SUBSET Documents
  BY DEF Documents
<1>2. referring \in [Documents -> SUBSET Documents]
  BY DEF Referring
<1> HIDE DEF S, referring
<1>3. Reach(S, referring) \subseteq Documents /\ S \subseteq Reach(S, referring)
  BY <1>1, <1>2, ReachType
<1>4. Doomed(x, c, id) = Reach(S, referring)
  BY DEF Doomed, S, referring
<1> QED
  BY <1>3, <1>4 DEF S

\* A write visits and writes documents and entries.
LEMMA WriteTyped ==
  ASSUME NEW x, Good(x), Typed(x), x.open, x.ops < MaxOps,
         NEW c \in Coll, NEW id \in Ids[c], NEW stored \in Doc, NEW cmd \in Doc, Fits(c, stored, cmd), NEW old,
         Accepts(x, c, id, cmd, old), NEW y, y = Write(x, c, id, stored, cmd)
  PROVE  Typed(y)
<1>1. Wrote(x, y, c, id, stored, cmd) /\ WroteKeys(x, y, c, id, cmd)
  BY WriteParts, WriteKeys DEF Good
<1>2. Good(y)
  BY WriteGood
<1>3. x.docs[c][id] \in Doc \cup {NoDoc}
  BY DEF Good, Shape, DocsType
<1>4. \A e \in EntriesOf(c, id, x.docs[c][id]) \cup EntriesOf(c, id, cmd) : IsEntry(e)
  BY <1>3, EntriesOfParts
<1>5. \A e \in y.ents : IsEntry(e)
  BY <1>1, <1>4 DEF Typed, WroteKeys
<1>6. y.writes \subseteq DocKeys \cup EntryKeys
  BY <1>1, <1>4, DocKeyType, EntryParts DEF Typed, WroteKeys
<1>7. Looked(x, c, id) \subseteq DocKeys
  BY DocKeyType DEF Looked
<1>8. ForeignKeys(c, cmd) \subseteq DocKeys
  BY <1>1, <1>2 DEF Good, Vouched, Wrote
<1>9. \A i \in IndexesOf(c), E \in SUBSET x.ents : Scan(E, i, cmd[i.field]) \subseteq EntryKeys
  BY EntryParts DEF Typed, Scan
<1>10. y.reads \subseteq DocKeys \cup EntryKeys
  <2>1. UNION {Scan(x.ents \ EntriesOf(c, id, x.docs[c][id]), i, cmd[i.field]) :
                 i \in {j \in IndexesOf(c) : j.unique}} \subseteq EntryKeys
    <3>1. x.ents \ EntriesOf(c, id, x.docs[c][id]) \in SUBSET x.ents
      OBVIOUS
    <3> QED
      BY <1>9, <3>1
  <2> QED
    BY <1>1, <1>7, <1>8, <2>1 DEF Typed, WroteKeys
<1>11. y.ops \in 0 .. MaxOps
  BY <1>1, BoundAssumption DEF Typed, WroteKeys
<1> QED
  BY <1>1, <1>5, <1>6, <1>10, <1>11 DEF Typed, Wrote

\* A delete visits and writes documents and entries.
LEMMA EraseTyped ==
  ASSUME NEW x, Good(x), Typed(x), x.open, x.ops < MaxOps,
         NEW gone \in SUBSET Documents, NEW y, y = Erase(x, gone)
  PROVE  Typed(y)
<1> DEFINE keys == {DocKey(d.c, d.id) : d \in gone}
           old == UNION {EntriesOf(d.c, d.id, x.docs[d.c][d.id]) : d \in gone}
<1>1. Erased(x, y, keys) /\ ErasedKeys(x, y, gone)
  BY EraseParts, EraseKeys DEF Good
<1>2. \A d \in gone : d.c \in Coll /\ d.id \in Ids[d.c]
  BY DEF Documents
<1>3. keys \subseteq DocKeys
  BY <1>2, DocKeyType
<1>4. \A e \in old : IsEntry(e)
  <2> SUFFICES ASSUME NEW d \in gone, NEW e \in EntriesOf(d.c, d.id, x.docs[d.c][d.id])
               PROVE  IsEntry(e)
    OBVIOUS
  <2>1. x.docs[d.c][d.id] \in Doc \cup {NoDoc}
    BY <1>2 DEF Good, Shape, DocsType
  <2> QED
    BY <1>2, <2>1, EntriesOfParts
<1>5. Scanned(x, gone) \subseteq x.ents
  BY DEF Scanned, Scan
<1>6. {DocKey(e[1].coll, e[3]) : e \in Scanned(x, gone)} \subseteq DocKeys
  BY <1>5, EntryParts, DocKeyType DEF Typed
<1>7. Scanned(x, gone) \subseteq EntryKeys /\ old \subseteq EntryKeys
  BY <1>4, <1>5, EntryParts DEF Typed
<1>8. /\ y.ents \subseteq x.ents
      /\ y.writes = x.writes \cup keys \cup old
      /\ y.reads = x.reads \cup keys \cup Scanned(x, gone) \cup {DocKey(e[1].coll, e[3]) : e \in Scanned(x, gone)}
      /\ y.ops = x.ops + 1
  BY <1>1 DEF ErasedKeys
<1>9. y.open = x.open /\ y.dirty = x.dirty
  BY <1>1 DEF Erased
<1> HIDE DEF keys, old
<1>10. y.reads \cup y.writes \cup y.dirty \subseteq DocKeys \cup EntryKeys
  BY <1>3, <1>6, <1>7, <1>8, <1>9 DEF Typed
<1>11. y.ops \in 0 .. MaxOps
  BY <1>8, BoundAssumption DEF Typed
<1> QED
  BY <1>8, <1>9, <1>10, <1>11 DEF Typed

\* A step of one transaction keeps the others and the store typed.
LEMMA TypedStep ==
  ASSUME TypeInv, NEW t \in Tx, NEW y, Typed(y), Step(t, y)
  PROVE  (\A e \in ents' : IsEntry(e)) /\ \A u \in Tx : Typed(tx'[u])
BY DEF TypeInv, DocInv, Step

\* A transaction that has not begun holds nothing.
LEMMA FreshTyped == Typed(Fresh)
BY BoundAssumption DEF Fresh, Typed

\* Every step keeps the types.
LEMMA TypeStep == TypeInv /\ [Next]_vars => TypeInv'
<1> SUFFICES ASSUME TypeInv, [Next]_vars PROVE TypeInv'
  OBVIOUS
<1>1. DocInv /\ DocInv'
  BY DocStep DEF TypeInv
<1> SUFFICES (\A e \in ents' : IsEntry(e)) /\ \A u \in Tx : Typed(tx'[u])
  BY <1>1 DEF TypeInv, Typed
<1>2. ASSUME NEW t \in Tx, Begin(t)
      PROVE  (\A e \in ents' : IsEntry(e)) /\ \A u \in Tx : Typed(tx'[u])
  <2>1. PICK y : y = [Fresh EXCEPT !.open = TRUE, !.docs = docs, !.ents = ents, !.snap = docs, !.given = given]
    OBVIOUS
  <2>2. y.open = TRUE /\ y.ents = ents /\ y.reads = {} /\ y.writes = {} /\ y.dirty = {} /\ y.ops = 0
    BY <2>1 DEF Fresh
  <2>3. Typed(y)
    <3>1. y.open /\ y.open \in BOOLEAN
      BY <2>2
    <3>2. y.ops \in 0 .. MaxOps
      BY <2>2, BoundAssumption
    <3>3. \A e \in y.ents : IsEntry(e)
      BY <2>2 DEF TypeInv
    <3>4. y.reads \cup y.writes \cup y.dirty \subseteq DocKeys \cup EntryKeys
      BY <2>2
    <3> QED
      BY <3>1, <3>2, <3>3, <3>4 DEF Typed
  <2>4. Step(t, y)
    BY <1>2, <2>1 DEF Begin, Step
  <2> QED
    BY <2>3, <2>4, TypedStep
<1>3. ASSUME NEW t \in Tx, Rollback(t)
      PROVE  (\A e \in ents' : IsEntry(e)) /\ \A u \in Tx : Typed(tx'[u])
  BY <1>3, FreshTyped, TypedStep DEF Rollback
<1>4. ASSUME NEW t \in Tx, Commit(t)
      PROVE  (\A e \in ents' : IsEntry(e)) /\ \A u \in Tx : Typed(tx'[u])
  <2>1. \A e \in ents' : IsEntry(e)
    <3>1. ents' = (ents \ tx[t].writes) \cup (tx[t].ents \cap tx[t].writes)
      BY <1>4 DEF Commit
    <3>2. (\A e \in ents : IsEntry(e)) /\ \A e \in tx[t].ents : IsEntry(e)
      BY DEF TypeInv, Typed
    <3> QED
      BY <3>1, <3>2
  <2>2. ASSUME NEW u \in Tx
        PROVE  Typed(tx'[u])
    <3>1. CASE u = t
      BY <1>1, <1>4, <3>1, CommitParts, FreshTyped
    <3>2. CASE u # t /\ tx[u].open
      <4>1. tx'[u] = [tx[u] EXCEPT !.dirty = @ \cup tx[t].writes] /\ DOMAIN tx[u] = TxFields
        BY <1>1, <1>4, <3>2, CommitParts DEF DocInv, Good, Shape
      <4>2. /\ tx'[u].open = tx[u].open /\ tx'[u].ents = tx[u].ents /\ tx'[u].ops = tx[u].ops
            /\ tx'[u].reads = tx[u].reads /\ tx'[u].writes = tx[u].writes
            /\ tx'[u].dirty = tx[u].dirty \cup tx[t].writes
        BY <4>1 DEF TxFields
      <4>3. Typed(tx[u]) /\ Typed(tx[t])
        BY DEF TypeInv
      <4> QED
        BY <3>2, <4>2, <4>3 DEF Typed
    <3>3. CASE u # t /\ ~tx[u].open
      BY <1>1, <1>4, <3>3, CommitParts DEF TypeInv
    <3> QED
      BY <3>1, <3>2, <3>3
  <2> QED
    BY <2>1, <2>2
<1>5. ASSUME NEW t \in Tx, NEW c \in Coll, NEW id \in Ids[c], Get(t, c, id)
      PROVE  (\A e \in ents' : IsEntry(e)) /\ \A u \in Tx : Typed(tx'[u])
  <2>1. PICK x : x = tx[t]
    OBVIOUS
  <2>2. PICK y : y = [x EXCEPT !.reads = @ \cup Looked(x, c, id), !.ops = @ + 1]
    OBVIOUS
  <2>3. Step(t, y) /\ x.open /\ x.ops < MaxOps /\ Typed(x) /\ DOMAIN x = TxFields
    BY <1>1, <1>5, <2>1, <2>2 DEF Get, Working, TypeInv, DocInv, Good, Shape
  <2>4. /\ y.open = x.open /\ y.ents = x.ents /\ y.ops = x.ops + 1 /\ y.writes = x.writes
        /\ y.dirty = x.dirty /\ y.reads = x.reads \cup Looked(x, c, id)
    BY <2>2, <2>3 DEF TxFields
  <2>5. Looked(x, c, id) \subseteq DocKeys
    BY DocKeyType DEF Looked
  <2>6. Typed(y)
    BY <2>3, <2>4, <2>5, BoundAssumption DEF Typed
  <2> QED
    BY <2>3, <2>6, TypedStep
<1>6. ASSUME NEW t \in Tx, NEW c \in Coll, NEW id \in Ids[c], Delete(t, c, id)
      PROVE  (\A e \in ents' : IsEntry(e)) /\ \A u \in Tx : Typed(tx'[u])
  <2>1. PICK x : x = tx[t]
    OBVIOUS
  <2>2. PICK gone : gone = Doomed(x, c, id)
    OBVIOUS
  <2>3. PICK y : y = Erase(x, gone)
    OBVIOUS
  <2>4. Step(t, y) /\ x.open /\ x.ops < MaxOps /\ Typed(x) /\ Good(x)
    BY <1>1, <1>6, <2>1, <2>2, <2>3 DEF Delete, Working, TypeInv, DocInv
  <2>5. gone \in SUBSET Documents
    BY <2>2, DoomedType
  <2>6. Typed(y)
    BY <2>3, <2>4, <2>5, EraseTyped
  <2> QED
    BY <2>4, <2>6, TypedStep
<1>7. ASSUME NEW t \in Tx, NEW c \in Coll, NEW id \in Ids[c], NEW stored \in Doc, NEW cmd \in Doc,
             Puts(t, c, id, stored, cmd)
      PROVE  (\A e \in ents' : IsEntry(e)) /\ \A u \in Tx : Typed(tx'[u])
  <2>1. PICK x : x = tx[t]
    OBVIOUS
  <2>2. PICK y : y = Write(x, c, id, stored, cmd)
    OBVIOUS
  <2>3. /\ Step(t, y) /\ x.open /\ x.ops < MaxOps /\ Typed(x) /\ Good(x)
        /\ Accepts(x, c, id, cmd, EntriesOf(c, id, x.docs[c][id])) /\ Fits(c, stored, cmd)
    BY <1>1, <1>7, <2>1, <2>2, PutsFit DEF Puts, Working, TypeInv, DocInv
  <2>4. Typed(y)
    BY <2>2, <2>3, WriteTyped
  <2> QED
    BY <2>3, <2>4, TypedStep
<1>8. CASE UNCHANGED vars
  BY <1>8 DEF vars, TypeInv
<1> QED
  BY <1>1, <1>2, <1>3, <1>4, <1>5, <1>6, <1>7, <1>8, Moves

\* The types hold always.
LEMMA TypeInvariant == Spec => []TypeInv
<1>1. Init => TypeInv
  BY DocInit, FreshTyped DEF Init, TypeInv
<1> QED
  BY <1>1, TypeStep, PTL DEF Spec

\* The document layer visits, writes and vouches for documents and index
\* entries of its collections only, its cascades and prefix scans included,
\* and a transaction that has ended leaves nothing behind (tx.go, tx_util.go).
THEOREM TypeCorrect == Spec => []TypeOK
<1>1. TypeInv => TypeOK
  <2> SUFFICES ASSUME TypeInv PROVE TypeOK
    OBVIOUS
  <2>1. \A c \in Coll : docs[c] \in [Ids[c] -> Doc \cup {NoDoc}]
    BY DEF TypeInv, DocInv, DocsType
  <2>2. ents \subseteq EntryKeys /\ blind \subseteq DocKeys
    BY EntryParts DEF TypeInv, DocInv
  <2>3. \A t \in Tx : Typed(tx[t]) /\ tx[t].known \subseteq DocKeys
    BY DEF TypeInv, DocInv, Good, Vouched
  <2>4. \A c \in Coll : given[c] \in [Ids[c] -> Doc \cup {NoDoc}]
    BY DEF TypeInv, DocInv, DocsType
  <2> QED
    BY <2>1, <2>2, <2>3, <2>4 DEF TypeOK, Typed
<1> QED
  BY <1>1, TypeInvariant, PTL

-----------------------------------------------------------------------------
(* The indexes cover what was given, in every view and in the store, and the *)
(* documents a transaction has written refer to documents it has visited.    *)

\* Every document in view has the entries it was given, an entry is written with its
\* document only, and a document with all its entries.
Indexed(x) ==
  /\ \A c \in Coll : \A id \in Ids[c] : EntriesOf(c, id, x.given[c][id]) \subseteq x.ents
  /\ \A i \in Index : \A v, id : Entry(i, v, id) \in x.writes => DocKey(i.coll, id) \in x.writes
  /\ \A c \in Coll : \A id \in Ids[c] :
       DocKey(c, id) \in x.writes => EntriesOf(c, id, x.given[c][id]) \subseteq x.writes

\* The document is in view, and its key has been visited or written.
Sees(x, c, id) == /\ id \in Ids[c] /\ x.docs[c][id] # NoDoc
                  /\ DocKey(c, id) \in x.reads \cup x.writes

\* What is vouched for, and what written documents refer to, has been visited.
RefersToSeen(x) ==
  /\ x.known \subseteq x.reads \cup x.writes
  /\ \A i \in Index : \A id \in Ids[i.coll] :
       LET d == x.given[i.coll][id]
       IN  /\ i.foreign # NoColl /\ DocKey(i.coll, id) \in x.writes
           /\ d # NoDoc /\ d[i.field] # Absent
           => Sees(x, i.foreign, d[i.field])

\* Every committed document has the entries it was given.
Covers == \A c \in Coll : \A id \in Ids[c] : EntriesOf(c, id, given[c][id]) \subseteq ents

IndexInv == TypeInv /\ Covers /\ \A t \in Tx : Indexed(tx[t]) /\ RefersToSeen(tx[t])

\* Entries of different documents are different.
LEMMA EntriesApart ==
  ASSUME NEW c \in Coll, NEW id \in Ids[c], NEW d,
         NEW b \in Coll, NEW j \in Ids[b], NEW f,
         NEW e, e \in EntriesOf(c, id, d), e \in EntriesOf(b, j, f)
  PROVE  c = b /\ id = j
<1>1. PICK i \in IndexesOf(c) : e = Entry(i, d[i.field], id)
  BY DEF EntriesOf
<1>2. PICK k \in IndexesOf(b) : e = Entry(k, f[k.field], j)
  BY DEF EntriesOf
<1>3. e[1] = i /\ e[3] = id /\ e[1] = k /\ e[3] = j
  BY <1>1, <1>2 DEF Entry
<1> QED
  BY <1>3 DEF IndexesOf

\* An entry among those of a document names its index and its id.
LEMMA EntryOfDocument ==
  ASSUME NEW c \in Coll, NEW id \in Ids[c], NEW d, NEW i, NEW v, NEW j,
         Entry(i, v, j) \in EntriesOf(c, id, d)
  PROVE  i \in Index /\ i.coll = c /\ j = id
<1>1. PICK k \in IndexesOf(c) : Entry(i, v, j) = Entry(k, d[k.field], id)
  BY DEF EntriesOf
<1>2. k = i /\ id = j
  BY <1>1 DEF Entry
<1> QED
  BY <1>2 DEF IndexesOf

\* A document key among written entries is none of them, and an entry among
\* document keys neither.
LEMMA KeyOfDocument ==
  ASSUME NEW c, NEW id, NEW b, NEW j, NEW d, NEW i, NEW v
  PROVE  DocKey(c, id) \notin EntriesOf(b, j, d) /\ Entry(i, v, j) # DocKey(c, id)
BY EntryIsNoDocKey DEF EntriesOf

\* A write keeps view and index together.
LEMMA WriteIndexed ==
  ASSUME NEW x, Good(x), Indexed(x), NEW c \in Coll, NEW id \in Ids[c],
         NEW stored \in Doc, NEW cmd \in Doc,
         NEW y, y = Write(x, c, id, stored, cmd)
  PROVE  Indexed(y)
<1> DEFINE old == EntriesOf(c, id, x.docs[c][id])
           new == EntriesOf(c, id, cmd)
<1>1. Wrote(x, y, c, id, stored, cmd)
  BY WriteParts DEF Good
<1>2. y.ents = (x.ents \ old) \cup new /\ y.writes = x.writes \cup {DocKey(c, id)} \cup old \cup new
  <2>1. WroteKeys(x, y, c, id, cmd)
    BY WriteKeys DEF Good
  <2> QED
    BY <2>1 DEF WroteKeys
<1>3. \A b \in Coll : \A j \in Ids[b] :
        y.given[b][j] = IF b = c /\ j = id THEN cmd ELSE x.given[b][j]
  BY <1>1 DEF Good, Shape, DocsType, Wrote
<1>5. ASSUME NEW b \in Coll, NEW j \in Ids[b], ~(b = c /\ j = id), NEW e \in EntriesOf(b, j, x.given[b][j])
      PROVE  e \notin old
  <2>1. PICK f, g : f = x.given[b][j] /\ g = x.docs[c][id]
    OBVIOUS
  <2>2. e \in EntriesOf(b, j, f)
    BY <2>1
  <2>3. e \notin EntriesOf(c, id, g)
    BY <1>5, <2>2, EntriesApart
  <2> QED
    BY <2>1, <2>3
<1>6. ASSUME NEW b \in Coll, NEW j \in Ids[b]
      PROVE  EntriesOf(b, j, y.given[b][j]) \subseteq y.ents
  <2>1. CASE b = c /\ j = id
    BY <1>2, <1>3, <2>1
  <2>2. CASE ~(b = c /\ j = id)
    <3>1. y.given[b][j] = x.given[b][j]
      BY <1>3, <2>2
    <3>2. EntriesOf(b, j, x.given[b][j]) \subseteq x.ents \ old
      BY <1>5, <2>2 DEF Indexed
    <3> HIDE DEF old
    <3> QED
      BY <1>2, <3>1, <3>2
  <2> QED
    BY <2>1, <2>2
<1>7. ASSUME NEW i \in Index, NEW v, NEW j, Entry(i, v, j) \in y.writes
      PROVE  DocKey(i.coll, j) \in y.writes
  <2>1. CASE Entry(i, v, j) \in x.writes
    BY <1>2, <2>1 DEF Indexed
  <2>2. CASE Entry(i, v, j) \in old \cup new
    BY <1>2, <2>2, EntryOfDocument
  <2> HIDE DEF old, new
  <2> QED
    BY <1>2, <1>7, <2>1, <2>2, EntryIsNoDocKey
<1>8. ASSUME NEW b \in Coll, NEW j \in Ids[b], DocKey(b, j) \in y.writes
      PROVE  EntriesOf(b, j, y.given[b][j]) \subseteq y.writes
  <2>1. CASE b = c /\ j = id
    BY <1>2, <1>3, <2>1
  <2>2. CASE ~(b = c /\ j = id)
    <3>1. DocKey(b, j) \in x.writes
      BY <1>1, <1>8, <2>2, DocKeyParts DEF Wrote
    <3>2. EntriesOf(b, j, x.given[b][j]) \subseteq x.writes
      BY <3>1 DEF Indexed
    <3> QED
      BY <1>2, <1>3, <2>2, <3>2
  <2> QED
    BY <2>1, <2>2
<1> QED
  BY <1>6, <1>7, <1>8 DEF Indexed

\* The keys of the documents that are gone.
LEMMA GoneKeys ==
  ASSUME NEW gone \in SUBSET Documents, NEW c, NEW id
  PROVE  DocKey(c, id) \in {DocKey(d.c, d.id) : d \in gone} <=> [c |-> c, id |-> id] \in gone
<1>1. \A d \in gone : d = [c |-> d.c, id |-> d.id]
  BY DEF Documents
<1>2. ASSUME NEW d \in gone, DocKey(c, id) = DocKey(d.c, d.id)
      PROVE  [c |-> c, id |-> id] \in gone
  BY <1>1, <1>2, DocKeyParts
<1>3. ASSUME [c |-> c, id |-> id] \in gone
      PROVE  \E d \in gone : DocKey(c, id) = DocKey(d.c, d.id)
  <2>1. PICK d \in gone : d = [c |-> c, id |-> id]
    BY <1>3
  <2>2. d.c = c /\ d.id = id
    BY <2>1
  <2> QED
    BY <2>2
<1> QED
  BY <1>2, <1>3

\* Deletes keep view and index together.
LEMMA EraseIndexed ==
  ASSUME NEW x, Good(x), Indexed(x), NEW gone \in SUBSET Documents, NEW y, y = Erase(x, gone)
  PROVE  Indexed(y)
<1> DEFINE keys == {DocKey(d.c, d.id) : d \in gone}
           old == UNION {EntriesOf(d.c, d.id, x.docs[d.c][d.id]) : d \in gone}
<1>1. Erased(x, y, keys)
  BY EraseParts DEF Good
<1>2. y.ents = x.ents \ old /\ y.writes = x.writes \cup keys \cup old
  BY EraseKeys DEF Good, ErasedKeys
<1>3. \A c \in Coll : \A id \in Ids[c] :
        y.given[c][id] = IF DocKey(c, id) \in keys THEN NoDoc ELSE x.given[c][id]
  BY <1>1 DEF Erased, Without
<1>4. \A d \in gone : d.c \in Coll /\ d.id \in Ids[d.c] /\ DocKey(d.c, d.id) \in keys
  BY DEF Documents
<1>5. ASSUME NEW c \in Coll, NEW id \in Ids[c], DocKey(c, id) \notin keys, NEW f, NEW e \in EntriesOf(c, id, f)
      PROVE  e \notin old
  BY <1>4, <1>5, EntriesApart
<1>6. ASSUME NEW i \in Index, NEW v, NEW j, Entry(i, v, j) \in old
      PROVE  DocKey(i.coll, j) \in keys
  BY <1>4, <1>6, EntryOfDocument
<1>7. \A i \in Index : \A v, j : Entry(i, v, j) \notin keys
  BY EntryIsNoDocKey
<1>8. \A c, id : DocKey(c, id) \notin old
  BY KeyOfDocument
<1> HIDE DEF old, keys
<1>9. ASSUME NEW c \in Coll, NEW id \in Ids[c]
      PROVE  /\ EntriesOf(c, id, y.given[c][id]) \subseteq y.ents
             /\ DocKey(c, id) \in y.writes => EntriesOf(c, id, y.given[c][id]) \subseteq y.writes
  <2>1. CASE DocKey(c, id) \in keys
    <3>1. EntriesOf(c, id, y.given[c][id]) = {}
      BY <1>3, <2>1 DEF EntriesOf
    <3> QED
      BY <3>1
  <2>2. CASE DocKey(c, id) \notin keys
    <3>1. y.given[c][id] = x.given[c][id]
      BY <1>3, <2>2
    <3>2. EntriesOf(c, id, x.given[c][id]) \subseteq x.ents \ old
      BY <1>5, <2>2 DEF Indexed
    <3>3. DocKey(c, id) \in x.writes => EntriesOf(c, id, x.given[c][id]) \subseteq x.writes
      BY DEF Indexed
    <3> QED
      BY <1>2, <1>8, <2>2, <3>1, <3>2, <3>3
  <2> QED
    BY <2>1, <2>2
<1>10. \A i \in Index : \A v, j : Entry(i, v, j) \in y.writes => DocKey(i.coll, j) \in y.writes
  BY <1>2, <1>6, <1>7 DEF Indexed
<1> QED
  BY <1>9, <1>10 DEF Indexed

\* A document in view that was given a reference to d is found by the query for d.
LEMMA ReferringFound ==
  ASSUME NEW x, Good(x), Indexed(x), NEW d \in Documents, NEW i \in Index, NEW id \in Ids[i.coll],
         i.foreign = d.c, x.given[i.coll][id] # NoDoc, x.given[i.coll][id][i.field] = d.id
  PROVE  [c |-> i.coll, id |-> id] \in Referring(x, d)
<1> DEFINE r == [c |-> i.coll, id |-> id]
           e == Entry(i, d.id, id)
<1>1. i.coll \in Coll /\ i \in IndexesOf(i.coll)
  BY IndexAssumption DEF IndexType, IndexesOf
<1>2. r \in Documents /\ r.c = i.coll /\ r.id = id
  BY <1>1 DEF Documents
<1>3. e \in x.ents
  <2>1. e \in EntriesOf(i.coll, id, x.given[i.coll][id])
    BY <1>1 DEF EntriesOf
  <2> QED
    BY <1>1, <2>1 DEF Indexed
<1>4. d.id \in Longer[d.id]
  BY IdsAssumption, LongerAssumption DEF Documents
<1>5. e \in Scan(x.ents, i, d.id) /\ e[3] = id
  BY <1>3, <1>4 DEF Scan, Entry
<1>6. d.id \in Val /\ d.id # Absent
  BY IdsAssumption, NamesAssumption DEF Documents
<1>7. x.docs[i.coll][id] # NoDoc /\ x.docs[i.coll][id][i.field] = d.id
  BY <1>1, <1>6 DEF Good, Agree, AgreeAt, Fits
<1> HIDE DEF e, r
<1> QED
  BY <1>1, <1>2, <1>5, <1>7 DEF Referring, r

\* A cascade misses no document that refers to one it deletes.
LEMMA DoomedClosed ==
  ASSUME NEW x, NEW c \in Coll, NEW id \in Ids[c], NEW d \in Doomed(x, c, id)
  PROVE  Referring(x, d) \subseteq Doomed(x, c, id)
<1> DEFINE S == {[c |-> c, id |-> id]}
           referring == [e \in Documents |-> Referring(x, e)]
<1>1. S \in SUBSET Documents /\ referring \in [Documents -> SUBSET Documents]
  BY DEF Documents, Referring
<1>2. Upward(referring)
  <2>1. PICK level \in [Coll -> 0 .. Cardinality(Coll) - 1] :
          \A i \in Index : i.foreign # NoColl => level[i.foreign] < level[i.coll]
    BY AcyclicAssumption
  <2>2. ASSUME NEW e \in Documents, NEW r \in referring[e]
        PROVE  level[e.c] < level[r.c]
    <3>1. PICK i \in IndexesOf(r.c) : i.foreign = e.c
      BY DEF Referring
    <3>2. i \in Index /\ i.coll = r.c /\ i.foreign # NoColl
      BY <3>1, NamesAssumption DEF IndexesOf, Documents
    <3> QED
      BY <2>1, <3>1, <3>2
  <2> QED
    BY <2>1, <2>2 DEF Upward
<1>3. Doomed(x, c, id) = Reach(S, referring)
  BY DEF Doomed
<1>4. d \in Documents /\ referring[d] = Referring(x, d)
  BY DoomedType
<1> HIDE DEF S, referring
<1> QED
  BY <1>1, <1>2, <1>3, <1>4, ReachClosed

\* What a transaction sees it keeps seeing while documents stay and visits add up.
LEMMA StillSeen ==
  ASSUME NEW x, NEW y, NEW c, NEW id, Sees(x, c, id), y.docs[c][id] # NoDoc,
         x.reads \cup x.writes \subseteq y.reads \cup y.writes
  PROVE  Sees(y, c, id)
BY DEF Sees

\* A write refers to what it has just looked up, or vouched for before.
LEMMA WriteRefers ==
  ASSUME NEW x, Good(x), RefersToSeen(x), NEW c \in Coll, NEW id \in Ids[c],
         NEW stored \in Doc, NEW cmd \in Doc, Fits(c, stored, cmd), NEW old,
         Accepts(x, c, id, cmd, old), NEW y, y = Write(x, c, id, stored, cmd)
  PROVE  RefersToSeen(y)
<1>1. Wrote(x, y, c, id, stored, cmd) /\ WroteKeys(x, y, c, id, cmd)
  BY WriteParts, WriteKeys DEF Good
<1>2. Good(y)
  BY WriteGood
<1>3. \A b \in Coll : \A j \in Ids[b] :
        y.docs[b][j] = IF b = c /\ j = id THEN stored ELSE x.docs[b][j]
  BY <1>1 DEF Good, Shape, DocsType, Wrote
<1>3a. \A b \in Coll : \A j \in Ids[b] :
        y.given[b][j] = IF b = c /\ j = id THEN cmd ELSE x.given[b][j]
  BY <1>1 DEF Good, Shape, DocsType, Wrote
<1>4. stored # NoDoc
  BY NamesAssumption
<1>5. /\ x.reads \subseteq y.reads /\ x.writes \subseteq y.writes /\ DocKey(c, id) \in y.writes
      /\ ForeignKeys(c, cmd) \ x.known \subseteq y.reads
  BY <1>1 DEF WroteKeys
<1>6. y.known = x.known \cup {DocKey(c, id)} \cup ForeignKeys(c, cmd)
  BY <1>1 DEF Wrote
<1>7. y.known \subseteq y.reads \cup y.writes
  BY <1>5, <1>6 DEF RefersToSeen
<1>8. ASSUME NEW i \in Index, NEW j \in Ids[i.coll], i.foreign # NoColl, DocKey(i.coll, j) \in y.writes,
             y.given[i.coll][j] # NoDoc, y.given[i.coll][j][i.field] # Absent
      PROVE  Sees(y, i.foreign, y.given[i.coll][j][i.field])
  <2>1. i.coll \in Coll /\ i.foreign \in Coll
    BY <1>8, IndexAssumption DEF IndexType
  <2>2. CASE i.coll = c /\ j = id
    <3>1. PICK v : v = cmd[i.field]
      OBVIOUS
    <3>2. i \in IndexesOf(c) /\ v = cmd[i.field] /\ v = y.given[i.coll][j][i.field]
      BY <1>3a, <2>1, <2>2, <3>1 DEF IndexesOf
    <3>3. DocKey(i.foreign, v) \in ForeignKeys(c, cmd)
      BY <1>8, <3>2 DEF ForeignKeys
    <3>4. DocKey(i.foreign, v) \in DocKeys /\ y.docs[i.foreign][v] # NoDoc
      BY <1>2, <1>6, <3>3, DocKeyParts DEF Good, Vouched
    <3>5. v \in Ids[i.foreign]
      BY <3>4, DocKeyParts DEF DocKeys, Documents
    <3> QED
      BY <1>6, <1>7, <3>2, <3>3, <3>4, <3>5 DEF Sees
  <2>3. CASE ~(i.coll = c /\ j = id)
    <3>1. y.given[i.coll][j] = x.given[i.coll][j]
      BY <1>3a, <2>1, <2>3
    <3>2. DocKey(i.coll, j) \in x.writes
      BY <1>1, <1>8, <2>3, DocKeyParts DEF Wrote
    <3>3. PICK v : v = x.given[i.coll][j][i.field]
      OBVIOUS
    <3>4. Sees(x, i.foreign, v)
      BY <1>8, <3>1, <3>2, <3>3 DEF RefersToSeen
    <3>5. y.docs[i.foreign][v] # NoDoc
      BY <1>3, <1>4, <2>1, <3>4 DEF Sees
    <3>6. Sees(y, i.foreign, v)
      BY <1>5, <3>4, <3>5, StillSeen
    <3> QED
      BY <3>1, <3>3, <3>6
  <2> QED
    BY <2>2, <2>3
<1> QED
  BY <1>7, <1>8 DEF RefersToSeen

\* A cascade leaves no document that refers to one it deletes.
LEMMA EraseRefers ==
  ASSUME NEW x, Good(x), Indexed(x), RefersToSeen(x), NEW c \in Coll, NEW id \in Ids[c],
         NEW gone, gone = Doomed(x, c, id), NEW y, y = Erase(x, gone)
  PROVE  RefersToSeen(y)
<1> DEFINE keys == {DocKey(d.c, d.id) : d \in gone}
<1>1. gone \in SUBSET Documents
  BY DoomedType
<1>2. Erased(x, y, keys) /\ ErasedKeys(x, y, gone)
  BY EraseParts, EraseKeys DEF Good
<1>3. \A b \in Coll : \A j \in Ids[b] :
        y.docs[b][j] = IF DocKey(b, j) \in keys THEN NoDoc ELSE x.docs[b][j]
  BY <1>2 DEF Erased, Without
<1>3a. \A b \in Coll : \A j \in Ids[b] :
        y.given[b][j] = IF DocKey(b, j) \in keys THEN NoDoc ELSE x.given[b][j]
  BY <1>2 DEF Erased, Without
<1>4. /\ x.reads \subseteq y.reads /\ x.writes \subseteq y.writes
      /\ \A b, j : DocKey(b, j) \in y.writes <=> DocKey(b, j) \in x.writes \cup keys
      /\ y.known \subseteq x.known
  BY <1>2 DEF Erased, ErasedKeys
<1>5. y.known \subseteq y.reads \cup y.writes
  BY <1>4 DEF RefersToSeen
<1>6. \A b, j : DocKey(b, j) \in keys <=> [c |-> b, id |-> j] \in gone
  BY <1>1, GoneKeys
<1> HIDE DEF keys
<1>7. ASSUME NEW i \in Index, NEW j \in Ids[i.coll], i.foreign # NoColl, DocKey(i.coll, j) \in y.writes,
             y.given[i.coll][j] # NoDoc, y.given[i.coll][j][i.field] # Absent
      PROVE  Sees(y, i.foreign, y.given[i.coll][j][i.field])
  <2>1. i.coll \in Coll /\ i.foreign \in Coll
    BY <1>7, IndexAssumption DEF IndexType
  <2>2. DocKey(i.coll, j) \notin keys /\ y.given[i.coll][j] = x.given[i.coll][j]
    BY <1>3a, <1>7, <2>1
  <2>3. PICK v : v = x.given[i.coll][j][i.field]
    OBVIOUS
  <2>4. Sees(x, i.foreign, v)
    BY <1>4, <1>7, <2>2, <2>3 DEF RefersToSeen
  <2>5. DocKey(i.foreign, v) \notin keys
    <3> SUFFICES ASSUME DocKey(i.foreign, v) \in keys PROVE FALSE
      OBVIOUS
    <3>1. PICK d \in gone : d = [c |-> i.foreign, id |-> v]
      BY <1>6
    <3>2. d \in Documents /\ d.c = i.foreign /\ d.id = v
      BY <1>1, <3>1
    <3>3. [c |-> i.coll, id |-> j] \in Referring(x, d)
      BY <1>7, <2>2, <2>3, <3>2, ReferringFound
    <3>4. [c |-> i.coll, id |-> j] \in gone
      BY <3>3, DoomedClosed
    <3> QED
      BY <1>6, <2>2, <3>4
  <2>6. y.docs[i.foreign][v] # NoDoc
    BY <1>3, <2>1, <2>4, <2>5 DEF Sees
  <2>7. Sees(y, i.foreign, v)
    BY <1>4, <2>4, <2>6, StillSeen
  <2> QED
    BY <2>2, <2>3, <2>7
<1> QED
  BY <1>5, <1>7 DEF RefersToSeen

\* A transaction that has not begun has no document to cover.
LEMMA FreshIndexed == Indexed(Fresh) /\ RefersToSeen(Fresh)
<1>1. Fresh.given = NoDocs /\ Fresh.reads = {} /\ Fresh.writes = {} /\ Fresh.known = {}
  BY DEF Fresh
<1>2. \A c \in Coll : \A id \in Ids[c] : EntriesOf(c, id, NoDocs[c][id]) = {}
  BY DEF NoDocs, EntriesOf
<1> QED
  BY <1>1, <1>2 DEF Indexed, RefersToSeen

\* Visits, and what others commit, leave documents and index as they are.
LEMMA SameViewIndexed ==
  ASSUME NEW x, Indexed(x), RefersToSeen(x), NEW y, y.docs = x.docs, y.given = x.given, y.ents = x.ents,
         y.writes = x.writes, y.known = x.known, x.reads \subseteq y.reads
  PROVE  Indexed(y) /\ RefersToSeen(y)
<1>1. Indexed(y)
  BY DEF Indexed
<1>2. RefersToSeen(y)
  BY DEF RefersToSeen, Sees
<1> QED
  BY <1>1, <1>2

\* What is committed is covered by the entries that are committed with it,
\* and a document that is not written keeps its entries.
LEMMA CommitIndexed ==
  ASSUME TypeInv, Covers, NEW t \in Tx, Indexed(tx[t]), Commit(t)
  PROVE  Covers'
<1> SUFFICES ASSUME NEW c \in Coll, NEW id \in Ids[c]
             PROVE  EntriesOf(c, id, given'[c][id]) \subseteq ents'
  BY DEF Covers, EntriesOf
<1>1. PICK x : x = tx[t]
  OBVIOUS
<1>2. given'[c][id] = IF DocKey(c, id) \in x.writes THEN x.given[c][id] ELSE given[c][id]
  BY <1>1, CommitParts DEF TypeInv
<1>3. ents' = (ents \ x.writes) \cup (x.ents \cap x.writes)
  BY <1>1 DEF Commit
<1>4. CASE DocKey(c, id) \in x.writes
  <2>1. EntriesOf(c, id, x.given[c][id]) \subseteq x.ents \cap x.writes
    BY <1>1, <1>4 DEF Indexed
  <2> QED
    BY <1>2, <1>3, <1>4, <2>1
<1>5. CASE DocKey(c, id) \notin x.writes
  <2>1. EntriesOf(c, id, given[c][id]) \subseteq ents
    BY DEF Covers
  <2>2. ASSUME NEW e \in EntriesOf(c, id, given[c][id])
        PROVE  e \notin x.writes
    <3>1. given[c][id] \in Doc \cup {NoDoc}
      BY DEF TypeInv, DocInv, DocsType
    <3>2. IsEntry(e) /\ e[1].coll = c /\ e[3] = id
      BY <3>1, EntriesOfParts
    <3>3. e = Entry(e[1], e[2], e[3]) /\ e[1] \in Index
      BY <3>2, EntryParts
    <3> QED
      BY <1>1, <1>5, <3>2, <3>3 DEF Indexed
  <2> QED
    BY <1>2, <1>3, <1>5, <2>1, <2>2
<1> QED
  BY <1>4, <1>5

\* A step of one transaction keeps the rest covered.
LEMMA IndexedOwnStep ==
  ASSUME IndexInv, NEW t \in Tx, NEW y, Indexed(y), RefersToSeen(y), Step(t, y)
  PROVE  Covers' /\ \A u \in Tx : Indexed(tx'[u]) /\ RefersToSeen(tx'[u])
<1>1. given' = given /\ ents' = ents /\ DOMAIN tx = Tx /\ tx' = [tx EXCEPT ![t] = y]
  BY DEF Step, IndexInv, TypeInv, DocInv
<1>2. Covers'
  BY <1>1 DEF IndexInv, Covers, EntriesOf
<1>3. \A u \in Tx : Indexed(tx'[u]) /\ RefersToSeen(tx'[u])
  BY <1>1 DEF IndexInv
<1> QED
  BY <1>2, <1>3

\* Every step keeps what was given and the indexes together.
LEMMA IndexStep ==
  ASSUME IndexInv, [Next]_vars
  PROVE  IndexInv'
<1>1. TypeInv /\ TypeInv' /\ DocInv
  BY TypeStep DEF IndexInv, TypeInv
<1> SUFFICES Covers' /\ \A u \in Tx : Indexed(tx'[u]) /\ RefersToSeen(tx'[u])
  BY <1>1 DEF IndexInv, Indexed, RefersToSeen, Sees, EntriesOf
<1>2. ASSUME NEW t \in Tx, Begin(t)
      PROVE  Covers' /\ \A u \in Tx : Indexed(tx'[u]) /\ RefersToSeen(tx'[u])
  <2>1. PICK y : y = [Fresh EXCEPT !.open = TRUE, !.docs = docs, !.ents = ents, !.snap = docs, !.given = given]
    OBVIOUS
  <2>2. y.docs = docs /\ y.given = given /\ y.ents = ents /\ y.reads = {} /\ y.writes = {} /\ y.known = {}
    BY <2>1 DEF Fresh
  <2>3. Indexed(y)
    BY <2>2 DEF Indexed, IndexInv, Covers
  <2>4. RefersToSeen(y)
    BY <2>2 DEF RefersToSeen
  <2>5. Step(t, y)
    BY <1>2, <2>1 DEF Begin, Step
  <2> QED
    BY <2>3, <2>4, <2>5, IndexedOwnStep
<1>3. ASSUME NEW t \in Tx, Rollback(t)
      PROVE  Covers' /\ \A u \in Tx : Indexed(tx'[u]) /\ RefersToSeen(tx'[u])
  BY <1>3, FreshIndexed, IndexedOwnStep DEF Rollback
<1>4. ASSUME NEW t \in Tx, Commit(t)
      PROVE  Covers' /\ \A u \in Tx : Indexed(tx'[u]) /\ RefersToSeen(tx'[u])
  <2>1. Covers'
    BY <1>4, CommitIndexed DEF IndexInv
  <2>2. ASSUME NEW u \in Tx
        PROVE  Indexed(tx'[u]) /\ RefersToSeen(tx'[u])
    <3>1. CASE u = t
      BY <1>1, <1>4, <3>1, CommitParts, FreshIndexed
    <3>2. CASE u # t /\ tx[u].open
      <4>1. PICK x, y : x = tx[u] /\ y = tx'[u]
        OBVIOUS
      <4>2. y = [x EXCEPT !.dirty = @ \cup tx[t].writes] /\ DOMAIN x = TxFields
        BY <1>1, <1>4, <3>2, <4>1, CommitParts DEF DocInv, Good, Shape
      <4>3. y.docs = x.docs /\ y.given = x.given /\ y.ents = x.ents /\ y.writes = x.writes /\ y.known = x.known /\ y.reads = x.reads
        BY <4>2 DEF TxFields
      <4>4. Indexed(x) /\ RefersToSeen(x)
        BY <4>1 DEF IndexInv
      <4> QED
        BY <4>1, <4>3, <4>4, SameViewIndexed
    <3>3. CASE u # t /\ ~tx[u].open
      BY <1>1, <1>4, <3>3, CommitParts DEF IndexInv
    <3> QED
      BY <3>1, <3>2, <3>3
  <2> QED
    BY <2>1, <2>2
<1>5. ASSUME NEW t \in Tx, NEW c \in Coll, NEW id \in Ids[c], Get(t, c, id)
      PROVE  Covers' /\ \A u \in Tx : Indexed(tx'[u]) /\ RefersToSeen(tx'[u])
  <2>1. PICK x : x = tx[t]
    OBVIOUS
  <2>2. PICK y : y = [x EXCEPT !.reads = @ \cup Looked(x, c, id), !.ops = @ + 1]
    OBVIOUS
  <2>3. Step(t, y) /\ DOMAIN x = TxFields /\ Indexed(x) /\ RefersToSeen(x)
    BY <1>1, <1>5, <2>1, <2>2 DEF Get, DocInv, Good, Shape, IndexInv
  <2>4. y.docs = x.docs /\ y.given = x.given /\ y.ents = x.ents /\ y.writes = x.writes /\ y.known = x.known /\ x.reads \subseteq y.reads
    BY <2>2, <2>3 DEF TxFields
  <2> QED
    BY <2>3, <2>4, SameViewIndexed, IndexedOwnStep
<1>6. ASSUME NEW t \in Tx, NEW c \in Coll, NEW id \in Ids[c], Delete(t, c, id)
      PROVE  Covers' /\ \A u \in Tx : Indexed(tx'[u]) /\ RefersToSeen(tx'[u])
  <2>1. PICK x : x = tx[t]
    OBVIOUS
  <2>2. PICK gone : gone = Doomed(x, c, id)
    OBVIOUS
  <2>3. PICK y : y = Erase(x, gone)
    OBVIOUS
  <2>4. Step(t, y) /\ Good(x) /\ Indexed(x) /\ RefersToSeen(x)
    BY <1>1, <1>6, <2>1, <2>2, <2>3 DEF Delete, DocInv, IndexInv
  <2>5. gone \in SUBSET Documents
    BY <2>2, DoomedType
  <2>6. Indexed(y)
    BY <2>3, <2>4, <2>5, EraseIndexed
  <2>7. RefersToSeen(y)
    BY <2>2, <2>3, <2>4, EraseRefers
  <2> QED
    BY <2>4, <2>6, <2>7, IndexedOwnStep
<1>7. ASSUME NEW t \in Tx, NEW c \in Coll, NEW id \in Ids[c], NEW stored \in Doc, NEW cmd \in Doc,
             Puts(t, c, id, stored, cmd)
      PROVE  Covers' /\ \A u \in Tx : Indexed(tx'[u]) /\ RefersToSeen(tx'[u])
  <2>1. PICK x : x = tx[t]
    OBVIOUS
  <2>2. PICK y : y = Write(x, c, id, stored, cmd)
    OBVIOUS
  <2>3. /\ Step(t, y) /\ Good(x) /\ Indexed(x) /\ RefersToSeen(x) /\ Fits(c, stored, cmd)
        /\ Accepts(x, c, id, cmd, EntriesOf(c, id, x.docs[c][id]))
    BY <1>1, <1>7, <2>1, <2>2, PutsFit DEF Puts, DocInv, IndexInv
  <2>4. Indexed(y)
    BY <2>2, <2>3, WriteIndexed
  <2>5. RefersToSeen(y)
    BY <2>2, <2>3, WriteRefers
  <2> QED
    BY <2>3, <2>4, <2>5, IndexedOwnStep
<1>8. CASE UNCHANGED vars
  BY <1>8 DEF vars, IndexInv, Covers, EntriesOf
<1> QED
  BY <1>1, <1>2, <1>3, <1>4, <1>5, <1>6, <1>7, <1>8, Moves

\* An empty store has nothing to cover.
LEMMA IndexInit == Init => IndexInv
<1>1. Init => Covers
  BY DEF Init, Covers, NoDocs, EntriesOf
<1>2. Init => TypeInv
  BY DocInit, FreshTyped DEF Init, TypeInv
<1> QED
  BY <1>1, <1>2, FreshIndexed DEF Init, IndexInv

\* Documents and indexes stay together.
LEMMA IndexInvariant == Spec => []IndexInv
<1>1. IndexInv /\ [Next]_vars => IndexInv'
  BY IndexStep
<1> QED
  BY <1>1, IndexInit, PTL DEF Spec

\* README.md:157 for any number of concurrent transactions and any updates:
\* every committed document is in every index of its collection, under its own
\* value if its last write gave that field, and under none if it left it out
\* (tx_util.go:304-381).
THEOREM IndexesCoverDocuments == Spec => []IndexCoversDocuments
<1>1. IndexInv => IndexCoversDocuments
  <2> SUFFICES ASSUME IndexInv, NEW i \in Index, NEW id \in Ids[i.coll], Stored(i.coll, id)
               PROVE  Entry(i, IF LeftOut(i, id) THEN Absent ELSE docs[i.coll][id][i.field], id) \in ents
    BY DEF IndexCoversDocuments
  <2>1. i.coll \in Coll /\ i \in IndexesOf(i.coll)
    BY IndexAssumption DEF IndexType, IndexesOf
  <2>2. PICK d, g : d = docs[i.coll][id] /\ g = given[i.coll][id]
    OBVIOUS
  <2>3. d # NoDoc /\ g # NoDoc /\ g[i.field] \in {Absent, d[i.field]}
    BY <2>1, <2>2 DEF IndexInv, TypeInv, DocInv, Agree, AgreeAt, Fits, Stored
  <2>4. Entry(i, g[i.field], id) \in ents
    <3>1. Entry(i, g[i.field], id) \in EntriesOf(i.coll, id, g)
      BY <2>1, <2>3 DEF EntriesOf
    <3> QED
      BY <2>1, <2>2, <3>1 DEF IndexInv, Covers
  <2>5. g[i.field] = IF LeftOut(i, id) THEN Absent ELSE d[i.field]
    BY <2>2, <2>3 DEF LeftOut
  <2> QED
    BY <2>2, <2>4, <2>5
<1> QED
  BY <1>1, IndexInvariant, PTL

\* README.md:148 for any number of concurrent transactions and any updates: no
\* commit leaves a document it has written with a foreign key that its last
\* write gave and that names a document that is gone, be it deleted by another
\* transaction, or by a cascade of its own.
THEOREM ReferencesHold == Spec => ReferencesHoldAtCommit
<1>1. IndexInv /\ [Next]_vars => [WrittenReferencesExist]_vars
  <2> SUFFICES ASSUME IndexInv, [Next]_vars, NEW t \in Tx, tx[t].open, ~tx'[t].open, docs' # docs,
                      NEW i \in Index, NEW id \in Ids[i.coll],
                      i.foreign # NoColl, DocKey(i.coll, id) \in tx[t].writes,
                      given'[i.coll][id] # NoDoc, given'[i.coll][id][i.field] # Absent
               PROVE  /\ docs'[i.coll][id][i.field] = given'[i.coll][id][i.field]
                      /\ docs'[i.foreign][given'[i.coll][id][i.field]] # NoDoc
    BY DEF WrittenReferencesExist
  <2>1. DocInv
    BY DEF IndexInv, TypeInv
  <2>2. PICK u \in Tx : Commit(u)
    BY OnlyCommit
  <2>3. u = t
    <3> SUFFICES ASSUME u # t PROVE FALSE
      OBVIOUS
    <3>1. tx'[t] = [tx[t] EXCEPT !.dirty = @ \cup tx[u].writes]
      BY <2>1, <2>2, CommitParts
    <3> QED
      BY <2>1, <3>1, DirtyGood DEF DocInv
  <2>4. PICK x : x = tx[t]
    OBVIOUS
  <2>5. /\ x.open /\ Good(x) /\ Current(x) /\ RefersToSeen(x) /\ x.reads \cap x.dirty = {}
        /\ i.coll \in Coll /\ i.foreign \in Coll
    BY <2>1, <2>2, <2>3, <2>4, IndexAssumption DEF DocInv, IndexInv, Commit, IndexType
  <2>5a. docs'[i.coll][id][i.field] = given'[i.coll][id][i.field]
    <3>1. Agree(docs', given') /\ i \in IndexesOf(i.coll)
      BY <2>1, <2>5, DocStep DEF DocInv, IndexesOf
    <3> QED
      BY <2>5, <3>1 DEF Agree, AgreeAt, Fits
  <2>6. \A c \in Coll : \A j \in Ids[c] :
          docs'[c][j] = IF DocKey(c, j) \in x.writes THEN x.docs[c][j] ELSE docs[c][j]
    BY <2>1, <2>2, <2>3, <2>4, CommitParts
  <2>7. PICK v : v = x.given[i.coll][id][i.field]
    OBVIOUS
  <2>8. given'[i.coll][id] = x.given[i.coll][id]
    BY <2>1, <2>2, <2>3, <2>4, <2>5, CommitParts
  <2>9. Sees(x, i.foreign, v)
    BY <2>4, <2>5, <2>7, <2>8 DEF RefersToSeen
  <2>10. CASE DocKey(i.foreign, v) \in x.writes
    BY <2>5, <2>6, <2>7, <2>8, <2>9, <2>10, <2>5a DEF Sees
  <2>11. CASE DocKey(i.foreign, v) \notin x.writes
    <3>1. DocKey(i.foreign, v) \notin x.dirty
      BY <2>5, <2>9, <2>11 DEF Sees
    <3>2. docs[i.foreign][v] = x.snap[i.foreign][v]
      BY <2>5, <2>9, <3>1 DEF Current, Sees
    <3>3. x.docs[i.foreign][v] = x.snap[i.foreign][v]
      BY <2>5, <2>9, <2>11 DEF Good, Sound, Sees
    <3> QED
      BY <2>5, <2>6, <2>7, <2>8, <2>9, <2>11, <2>5a, <3>2, <3>3 DEF Sees
  <2> QED
    BY <2>10, <2>11, <2>5a
<1> QED
  BY <1>1, IndexInvariant, PTL DEF Spec, ReferencesHoldAtCommit

-----------------------------------------------------------------------------
(* The indexes hold nothing but what was given, except for documents created *)
(* twice at once.                                                            *)

\* Every entry with a value is that of a document given that value.
Exact(G, E, B) ==
  \A e \in E : e[2] # Absent /\ DocKey(e[1].coll, e[3]) \notin B
                 => G[e[1].coll][e[3]] # NoDoc /\ G[e[1].coll][e[3]][e[1].field] = e[2]

\* The entries of the versions a transaction began with go when it writes.
Swept(x) ==
  \A c \in Coll : \A id \in Ids[c] :
    DocKey(c, id) \in x.writes => EntriesOf(c, id, x.snap[c][id]) \subseteq x.writes

ExactInv == /\ IndexInv /\ Exact(given, ents, blind)
            /\ \A t \in Tx : Exact(tx[t].given, tx[t].ents, blind) /\ Swept(tx[t])

\* An entry with a value that was given is among those of the document.
LEMMA GivenEntry ==
  ASSUME NEW D, NEW G, Agree(D, G), NEW E, NEW B, Exact(G, E, B), NEW e \in E, IsEntry(e),
         e[2] # Absent, DocKey(e[1].coll, e[3]) \notin B
  PROVE  e \in EntriesOf(e[1].coll, e[3], D[e[1].coll][e[3]])
<1>1. /\ e[1].coll \in Coll /\ e[3] \in Ids[e[1].coll]
      /\ e[1] \in IndexesOf(e[1].coll) /\ e = Entry(e[1], e[2], e[3])
  BY EntryParts DEF IndexesOf
<1>2. PICK d, g : d = D[e[1].coll][e[3]] /\ g = G[e[1].coll][e[3]]
  OBVIOUS
<1>3. g # NoDoc /\ g[e[1].field] = e[2]
  BY <1>2 DEF Exact
<1>4. AgreeAt(e[1].coll, d, g)
  BY <1>1, <1>2 DEF Agree
<1>5. d # NoDoc /\ d[e[1].field] = e[2]
  BY <1>1, <1>3, <1>4 DEF AgreeAt, Fits
<1>6. e = Entry(e[1], d[e[1].field], e[3])
  BY <1>1, <1>5
<1>7. e \in EntriesOf(e[1].coll, e[3], d)
  BY <1>1, <1>5, <1>6 DEF EntriesOf
<1> QED
  BY <1>2, <1>7

\* A write leaves no entry of the version it replaces.
LEMMA WriteExact ==
  ASSUME NEW x, Good(x), Typed(x), NEW B, Exact(x.given, x.ents, B), NEW c \in Coll, NEW id \in Ids[c],
         NEW stored \in Doc, NEW cmd \in Doc, NEW y, y = Write(x, c, id, stored, cmd)
  PROVE  Exact(y.given, y.ents, B)
<1>1. Wrote(x, y, c, id, stored, cmd) /\ WroteKeys(x, y, c, id, cmd)
  BY WriteParts, WriteKeys DEF Good
<1>2. \A b \in Coll : \A j \in Ids[b] :
        y.given[b][j] = IF b = c /\ j = id THEN cmd ELSE x.given[b][j]
  BY <1>1 DEF Good, Shape, DocsType, Wrote
<1>3. y.ents = (x.ents \ EntriesOf(c, id, x.docs[c][id])) \cup EntriesOf(c, id, cmd)
  BY <1>1 DEF WroteKeys
<1>4. ASSUME NEW e \in EntriesOf(c, id, cmd)
      PROVE  y.given[e[1].coll][e[3]] # NoDoc /\ y.given[e[1].coll][e[3]][e[1].field] = e[2]
  <2>1. cmd # NoDoc
    BY NamesAssumption
  <2>2. PICK i \in IndexesOf(c) : e = Entry(i, cmd[i.field], id)
    BY <2>1 DEF EntriesOf
  <2>3. e[1] = i /\ e[2] = cmd[i.field] /\ e[3] = id /\ i.coll = c
    BY <2>2 DEF Entry, IndexesOf
  <2>4. y.given[c][id] = cmd
    BY <1>2
  <2> QED
    BY <2>1, <2>3, <2>4
<1>5. ASSUME NEW e \in x.ents, e \notin EntriesOf(c, id, x.docs[c][id]),
             e[2] # Absent, DocKey(e[1].coll, e[3]) \notin B
      PROVE  y.given[e[1].coll][e[3]] # NoDoc /\ y.given[e[1].coll][e[3]][e[1].field] = e[2]
  <2>1. IsEntry(e)
    BY DEF Typed
  <2>2. e \in EntriesOf(e[1].coll, e[3], x.docs[e[1].coll][e[3]])
    BY <1>5, <2>1, GivenEntry DEF Good
  <2>3. ~(e[1].coll = c /\ e[3] = id)
    BY <1>5, <2>2
  <2>4. y.given[e[1].coll][e[3]] = x.given[e[1].coll][e[3]]
    BY <1>2, <2>1, <2>3, EntryParts
  <2> QED
    BY <1>5, <2>4 DEF Exact
<1> QED
  BY <1>3, <1>4, <1>5 DEF Exact

\* Deletes leave no entry of the documents they delete.
LEMMA EraseExact ==
  ASSUME NEW x, Good(x), Typed(x), NEW B, Exact(x.given, x.ents, B), NEW gone \in SUBSET Documents,
         NEW y, y = Erase(x, gone)
  PROVE  Exact(y.given, y.ents, B)
<1> DEFINE keys == {DocKey(d.c, d.id) : d \in gone}
           old == UNION {EntriesOf(d.c, d.id, x.docs[d.c][d.id]) : d \in gone}
<1>1. Erased(x, y, keys)
  BY EraseParts DEF Good
<1>2. y.ents = x.ents \ old
  BY EraseKeys DEF Good, ErasedKeys
<1>3. \A c \in Coll : \A id \in Ids[c] :
        y.given[c][id] = IF DocKey(c, id) \in keys THEN NoDoc ELSE x.given[c][id]
  BY <1>1 DEF Erased, Without
<1>4. \A c, id : DocKey(c, id) \in keys <=> [c |-> c, id |-> id] \in gone
  BY GoneKeys
<1>5. ASSUME NEW e \in x.ents, e \notin old, e[2] # Absent, DocKey(e[1].coll, e[3]) \notin B
      PROVE  y.given[e[1].coll][e[3]] # NoDoc /\ y.given[e[1].coll][e[3]][e[1].field] = e[2]
  <2>1. IsEntry(e)
    BY DEF Typed
  <2>2. e \in EntriesOf(e[1].coll, e[3], x.docs[e[1].coll][e[3]])
    BY <1>5, <2>1, GivenEntry DEF Good
  <2>3. DocKey(e[1].coll, e[3]) \notin keys
    <3> SUFFICES ASSUME [c |-> e[1].coll, id |-> e[3]] \in gone PROVE FALSE
      BY <1>4
    <3>1. PICK d \in gone : d.c = e[1].coll /\ d.id = e[3]
      OBVIOUS
    <3>2. e \in EntriesOf(d.c, d.id, x.docs[d.c][d.id])
      BY <2>2, <3>1
    <3> QED
      BY <1>5, <3>2
  <2>4. y.given[e[1].coll][e[3]] = x.given[e[1].coll][e[3]]
    BY <1>3, <2>1, <2>3, EntryParts
  <2> QED
    BY <1>5, <2>4 DEF Exact
<1> HIDE DEF old
<1> QED
  BY <1>2, <1>5 DEF Exact

\* A write takes the entries of the version there was at the beginning.
LEMMA WriteSwept ==
  ASSUME NEW x, Good(x), Swept(x), NEW c \in Coll, NEW id \in Ids[c], NEW stored \in Doc, NEW cmd \in Doc,
         NEW y, y = Write(x, c, id, stored, cmd)
  PROVE  Swept(y)
<1>1. Wrote(x, y, c, id, stored, cmd) /\ WroteKeys(x, y, c, id, cmd)
  BY WriteParts, WriteKeys DEF Good
<1>2. x.writes \cup EntriesOf(c, id, x.docs[c][id]) \subseteq y.writes /\ y.snap = x.snap
  BY <1>1 DEF Wrote, WroteKeys
<1>3. DocKey(c, id) \notin x.writes => x.docs[c][id] = x.snap[c][id]
  BY DEF Good, Sound
<1>4. \A d, j : DocKey(d, j) \in y.writes => DocKey(d, j) \in x.writes \/ (d = c /\ j = id)
  BY <1>1, DocKeyParts DEF Wrote
<1> QED
  BY <1>2, <1>3, <1>4 DEF Swept

\* And so do deletes.
LEMMA EraseSwept ==
  ASSUME NEW x, Good(x), Swept(x), NEW gone \in SUBSET Documents, NEW y, y = Erase(x, gone)
  PROVE  Swept(y)
<1> DEFINE keys == {DocKey(d.c, d.id) : d \in gone}
           old == UNION {EntriesOf(d.c, d.id, x.docs[d.c][d.id]) : d \in gone}
<1>1. Erased(x, y, keys)
  BY EraseParts DEF Good
<1>2. y.writes = x.writes \cup keys \cup old /\ y.snap = x.snap
  BY <1>1, EraseKeys DEF Good, ErasedKeys, Erased
<1>3. ASSUME NEW c \in Coll, NEW id \in Ids[c], DocKey(c, id) \in y.writes
      PROVE  EntriesOf(c, id, y.snap[c][id]) \subseteq y.writes
  <2>1. CASE DocKey(c, id) \in x.writes
    BY <1>2, <2>1 DEF Swept
  <2>2. CASE DocKey(c, id) \notin x.writes
    <3>1. [c |-> c, id |-> id] \in gone
      BY <1>1, <1>3, <2>2, GoneKeys DEF Erased
    <3>2. PICK d \in gone : d.c = c /\ d.id = id
      BY <3>1
    <3>3. EntriesOf(c, id, x.docs[c][id]) \subseteq old
      BY <3>2
    <3>4. x.docs[c][id] = x.snap[c][id]
      BY <2>2 DEF Good, Sound
    <3> HIDE DEF old
    <3> QED
      BY <1>2, <3>3, <3>4
  <2> QED
    BY <2>1, <2>2
<1> QED
  BY <1>3 DEF Swept

\* A commit leaves no entry of a version it replaces, unless that version was
\* not there when its transaction began.
LEMMA CommitExact ==
  ASSUME ExactInv, NEW t \in Tx, Commit(t)
  PROVE  Exact(given', ents', blind')
<1>1. PICK x : x = tx[t]
  OBVIOUS
<1>2. /\ DocInv /\ x.open /\ Good(x) /\ Current(x) /\ Indexed(x) /\ Swept(x)
      /\ Exact(x.given, x.ents, blind) /\ (x.writes # {} => x.reads \cap x.dirty = {})
      /\ ents' = (ents \ x.writes) \cup (x.ents \cap x.writes) /\ blind' = blind \cup Unseen(x)
  BY <1>1 DEF ExactInv, IndexInv, TypeInv, DocInv, Commit
<1> SUFFICES ASSUME NEW e \in ents', e[2] # Absent, DocKey(e[1].coll, e[3]) \notin blind'
             PROVE  given'[e[1].coll][e[3]] # NoDoc /\ given'[e[1].coll][e[3]][e[1].field] = e[2]
  BY DEF Exact
<1>3. IsEntry(e)
  BY <1>1, <1>2 DEF ExactInv, IndexInv, TypeInv, Typed
<1>4. PICK c, id : c = e[1].coll /\ id = e[3]
  OBVIOUS
<1>5. c \in Coll /\ id \in Ids[c] /\ e[1] \in Index /\ e = Entry(e[1], e[2], id)
  BY <1>3, <1>4, EntryParts
<1>6. given'[c][id] = IF DocKey(c, id) \in x.writes THEN x.given[c][id] ELSE given[c][id]
  BY <1>1, <1>2, <1>5, CommitParts
<1>7. CASE e \in x.ents \cap x.writes
  <2>1. DocKey(c, id) \in x.writes
    BY <1>2, <1>4, <1>5, <1>7 DEF Indexed
  <2> QED
    BY <1>2, <1>4, <1>6, <1>7, <2>1 DEF Exact
<1>8. CASE e \in ents \ x.writes
  <2>1. e \in EntriesOf(c, id, docs[c][id])
    BY <1>2, <1>3, <1>4, <1>8, GivenEntry DEF ExactInv, DocInv
  <2>2. DocKey(c, id) \notin x.writes
    <3> SUFFICES ASSUME DocKey(c, id) \in x.writes PROVE FALSE
      OBVIOUS
    <3>1. docs[c][id] # NoDoc
      BY <2>1 DEF EntriesOf
    <3>2. x.snap[c][id] # NoDoc
      <4>1. [c |-> c, id |-> id] \in Documents
        BY <1>5 DEF Documents
      <4>2. DocKey(c, id) \notin Unseen(x)
        BY <1>2, <1>4
      <4> QED
        BY <3>1, <4>1, <4>2 DEF Unseen
    <3>3. docs[c][id] = x.snap[c][id]
      <4>1. DocKey(c, id) \in x.reads
        BY <1>2, <1>5, <3>2 DEF Good, Sound
      <4>2. DocKey(c, id) \notin x.dirty
        BY <1>2, <4>1
      <4> QED
        BY <1>2, <1>5, <4>2 DEF Current
    <3>4. EntriesOf(c, id, x.snap[c][id]) \subseteq x.writes
      BY <1>2, <1>5 DEF Swept
    <3> QED
      BY <1>8, <2>1, <3>3, <3>4
  <2> QED
    BY <1>2, <1>4, <1>6, <1>8, <2>2 DEF ExactInv, Exact
<1> QED
  BY <1>2, <1>4, <1>7, <1>8

\* A transaction that has not begun has nothing.
LEMMA FreshExact == \A B : Exact(Fresh.given, Fresh.ents, B) /\ Swept(Fresh)
<1>1. Fresh.ents = {} /\ Fresh.writes = {}
  BY DEF Fresh
<1> QED
  BY <1>1 DEF Exact, Swept

\* A step of one transaction keeps the rest exact.
LEMMA ExactOwnStep ==
  ASSUME ExactInv, NEW t \in Tx, NEW y, Exact(y.given, y.ents, blind), Swept(y), Step(t, y)
  PROVE  /\ Exact(given', ents', blind')
         /\ \A u \in Tx : Exact(tx'[u].given, tx'[u].ents, blind') /\ Swept(tx'[u])
<1>1. given' = given /\ ents' = ents /\ blind' = blind /\ DOMAIN tx = Tx /\ tx' = [tx EXCEPT ![t] = y]
  BY DEF Step, ExactInv, IndexInv, TypeInv, DocInv
<1>2. Exact(given', ents', blind')
  BY <1>1 DEF ExactInv
<1>3. ASSUME NEW u \in Tx
      PROVE  Exact(tx'[u].given, tx'[u].ents, blind') /\ Swept(tx'[u])
  <2>1. CASE u = t
    <3>1. tx'[u] = y
      BY <1>1, <2>1
    <3> QED
      BY <1>1, <3>1
  <2>2. CASE u # t
    <3>1. tx'[u] = tx[u]
      BY <1>1, <2>2
    <3> QED
      BY <1>1, <3>1 DEF ExactInv
  <2> QED
    BY <2>1, <2>2
<1> QED
  BY <1>2, <1>3

\* Every step keeps the indexes exact.
LEMMA ExactStep ==
  ASSUME ExactInv, [Next]_vars
  PROVE  ExactInv'
<1>1. IndexInv /\ IndexInv' /\ TypeInv /\ DocInv
  BY IndexStep DEF ExactInv, IndexInv, TypeInv
<1> SUFFICES /\ Exact(given', ents', blind')
             /\ \A u \in Tx : Exact(tx'[u].given, tx'[u].ents, blind') /\ Swept(tx'[u])
  BY <1>1 DEF ExactInv, Exact, Swept, EntriesOf
<1>2. ASSUME NEW t \in Tx, Begin(t)
      PROVE  /\ Exact(given', ents', blind')
             /\ \A u \in Tx : Exact(tx'[u].given, tx'[u].ents, blind') /\ Swept(tx'[u])
  <2>1. PICK y : y = [Fresh EXCEPT !.open = TRUE, !.docs = docs, !.ents = ents, !.snap = docs, !.given = given]
    OBVIOUS
  <2>2. y.given = given /\ y.ents = ents /\ y.writes = {}
    BY <2>1 DEF Fresh
  <2>3. Exact(y.given, y.ents, blind) /\ Swept(y)
    BY <2>2 DEF ExactInv, Swept
  <2>4. Step(t, y)
    BY <1>2, <2>1 DEF Begin, Step
  <2> QED
    BY <2>3, <2>4, ExactOwnStep
<1>3. ASSUME NEW t \in Tx, Rollback(t)
      PROVE  /\ Exact(given', ents', blind')
             /\ \A u \in Tx : Exact(tx'[u].given, tx'[u].ents, blind') /\ Swept(tx'[u])
  BY <1>3, FreshExact, ExactOwnStep DEF Rollback
<1>4. ASSUME NEW t \in Tx, Commit(t)
      PROVE  /\ Exact(given', ents', blind')
             /\ \A u \in Tx : Exact(tx'[u].given, tx'[u].ents, blind') /\ Swept(tx'[u])
  <2>1. Exact(given', ents', blind')
    BY <1>4, CommitExact
  <2>2. blind \subseteq blind'
    BY <1>4 DEF Commit
  <2>3. ASSUME NEW u \in Tx
        PROVE  Exact(tx'[u].given, tx'[u].ents, blind') /\ Swept(tx'[u])
    <3>1. CASE u = t
      BY <1>1, <1>4, <3>1, CommitParts, FreshExact
    <3>2. CASE u # t
      <4>1. PICK x, y : x = tx[u] /\ y = tx'[u]
        OBVIOUS
      <4>2. y = [x EXCEPT !.dirty = @ \cup tx[t].writes] \/ y = x
        BY <1>1, <1>4, <3>2, <4>1, CommitParts
      <4>3. DOMAIN x = TxFields
        BY <1>1, <4>1 DEF DocInv, Good, Shape
      <4>4. y.given = x.given /\ y.ents = x.ents /\ y.writes = x.writes /\ y.snap = x.snap
        BY <4>2, <4>3 DEF TxFields
      <4>5. Exact(x.given, x.ents, blind) /\ Swept(x)
        BY <4>1 DEF ExactInv
      <4>6. Exact(y.given, y.ents, blind') /\ Swept(y)
        BY <2>2, <4>4, <4>5 DEF Exact, Swept
      <4> QED
        BY <4>1, <4>6
    <3> QED
      BY <3>1, <3>2
  <2> QED
    BY <2>1, <2>3
<1>5. ASSUME NEW t \in Tx, NEW c \in Coll, NEW id \in Ids[c], Get(t, c, id)
      PROVE  /\ Exact(given', ents', blind')
             /\ \A u \in Tx : Exact(tx'[u].given, tx'[u].ents, blind') /\ Swept(tx'[u])
  <2>1. PICK x : x = tx[t]
    OBVIOUS
  <2>2. PICK y : y = [x EXCEPT !.reads = @ \cup Looked(x, c, id), !.ops = @ + 1]
    OBVIOUS
  <2>3. Step(t, y) /\ DOMAIN x = TxFields /\ Exact(x.given, x.ents, blind) /\ Swept(x)
    BY <1>1, <1>5, <2>1, <2>2 DEF Get, DocInv, Good, Shape, ExactInv
  <2>4. y.given = x.given /\ y.ents = x.ents /\ y.writes = x.writes /\ y.snap = x.snap
    BY <2>2, <2>3 DEF TxFields
  <2>5. Exact(y.given, y.ents, blind) /\ Swept(y)
    BY <2>3, <2>4 DEF Exact, Swept
  <2> QED
    BY <2>3, <2>5, ExactOwnStep
<1>6. ASSUME NEW t \in Tx, NEW c \in Coll, NEW id \in Ids[c], Delete(t, c, id)
      PROVE  /\ Exact(given', ents', blind')
             /\ \A u \in Tx : Exact(tx'[u].given, tx'[u].ents, blind') /\ Swept(tx'[u])
  <2>1. PICK x : x = tx[t]
    OBVIOUS
  <2>2. PICK gone : gone = Doomed(x, c, id)
    OBVIOUS
  <2>3. PICK y : y = Erase(x, gone)
    OBVIOUS
  <2>4. Step(t, y) /\ Good(x) /\ Typed(x) /\ Exact(x.given, x.ents, blind) /\ Swept(x)
    BY <1>1, <1>6, <2>1, <2>2, <2>3 DEF Delete, DocInv, TypeInv, ExactInv
  <2>5. gone \in SUBSET Documents
    BY <2>2, DoomedType
  <2>6. Exact(y.given, y.ents, blind) /\ Swept(y)
    BY <2>3, <2>4, <2>5, EraseExact, EraseSwept
  <2> QED
    BY <2>4, <2>6, ExactOwnStep
<1>7. ASSUME NEW t \in Tx, NEW c \in Coll, NEW id \in Ids[c], NEW stored \in Doc, NEW cmd \in Doc,
             Puts(t, c, id, stored, cmd)
      PROVE  /\ Exact(given', ents', blind')
             /\ \A u \in Tx : Exact(tx'[u].given, tx'[u].ents, blind') /\ Swept(tx'[u])
  <2>1. PICK x : x = tx[t]
    OBVIOUS
  <2>2. PICK y : y = Write(x, c, id, stored, cmd)
    OBVIOUS
  <2>3. Step(t, y) /\ Good(x) /\ Typed(x) /\ Exact(x.given, x.ents, blind) /\ Swept(x)
    BY <1>1, <1>7, <2>1, <2>2 DEF Puts, DocInv, TypeInv, ExactInv
  <2>4. Exact(y.given, y.ents, blind) /\ Swept(y)
    BY <2>2, <2>3, WriteExact, WriteSwept
  <2> QED
    BY <2>3, <2>4, ExactOwnStep
<1>8. CASE UNCHANGED vars
  BY <1>8 DEF vars, ExactInv
<1> QED
  BY <1>1, <1>2, <1>3, <1>4, <1>5, <1>6, <1>7, <1>8, Moves

\* The indexes stay exact.
LEMMA ExactInvariant == Spec => []ExactInv
<1>1. Init => ExactInv
  <2>1. Init => IndexInv
    BY IndexInit
  <2>2. Init => ents = {} /\ \A t \in Tx : tx[t] = Fresh
    BY DEF Init
  <2> QED
    BY <2>1, <2>2, FreshExact DEF ExactInv, Exact
<1>2. ExactInv /\ [Next]_vars => ExactInv'
  BY ExactStep
<1> QED
  BY <1>1, <1>2, PTL DEF Spec

\* For any number of concurrent transactions and any updates, no scan for a
\* value finds an id that queryScan (tx_util.go:437-443) then fails to load, nor
\* a stale value, unless two transactions created the document at once.
THEOREM EntriesHaveDocuments == Spec => []EntriesAreOfDocuments
<1>1. ExactInv => EntriesAreOfDocuments
  <2> SUFFICES ASSUME ExactInv, NEW e \in ents, e[2] # Absent, DocKey(e[1].coll, e[3]) \notin blind
               PROVE  Stored(e[1].coll, e[3]) /\ docs[e[1].coll][e[3]][e[1].field] = e[2]
    BY DEF EntriesAreOfDocuments
  <2>1. IsEntry(e) /\ Agree(docs, given) /\ Exact(given, ents, blind)
    BY DEF ExactInv, IndexInv, TypeInv, DocInv
  <2>2. e \in EntriesOf(e[1].coll, e[3], docs[e[1].coll][e[3]])
    BY <2>1, GivenEntry
  <2>3. PICK d : d = docs[e[1].coll][e[3]]
    OBVIOUS
  <2>4. d # NoDoc /\ \E i \in IndexesOf(e[1].coll) : e = Entry(i, d[i.field], e[3])
    BY <2>2, <2>3 DEF EntriesOf
  <2>5. d[e[1].field] = e[2]
    BY <2>4 DEF Entry
  <2>6. e[3] \in Ids[e[1].coll]
    BY <2>1, EntryParts
  <2> QED
    BY <2>3, <2>4, <2>5, <2>6 DEF Stored
<1> QED
  BY <1>1, ExactInvariant, PTL

-----------------------------------------------------------------------------
(* Unique values, with one transaction at a time.                            *)

\* Transactions run one at a time.
Alone == \E t : Tx = {t}

\* No two documents of a collection were last written with the same value of a
\* unique field.
Distinct(G) ==
  \A i \in Index : i.unique =>
    \A id, other \in Ids[i.coll] :
      G[i.coll][id] # NoDoc /\ G[i.coll][other] # NoDoc /\ id # other
        => G[i.coll][id][i.field] # G[i.coll][other][i.field]

\* What a transaction has not written is as it is in the store.
Untouched(x) ==
  x.open => \A c \in Coll : \A id \in Ids[c] :
              DocKey(c, id) \notin x.writes => x.given[c][id] = given[c][id]

SerialInv ==
  IndexInv /\ Distinct(given) /\ \A t \in Tx : Distinct(tx[t].given) /\ Untouched(tx[t])

\* Two documents share a value of a unique field only if an update of one of
\* them left that field out.
UniqueUnlessLeftOut ==
  \A i \in Index : i.unique =>
    \A id, other \in Ids[i.coll] :
      /\ Stored(i.coll, id) /\ Stored(i.coll, other) /\ id # other
      /\ docs[i.coll][id][i.field] = docs[i.coll][other][i.field]
      => LeftOut(i, id) \/ LeftOut(i, other)

\* The scan for a unique value meets every other document that was given it.
LEMMA UniqueFound ==
  ASSUME NEW x, Indexed(x), NEW c \in Coll, NEW id \in Ids[c], NEW cmd \in Doc,
         Accepts(x, c, id, cmd, EntriesOf(c, id, x.docs[c][id])),
         NEW i \in IndexesOf(c), i.unique,
         NEW other \in Ids[c], other # id, x.given[c][other] # NoDoc
  PROVE  x.given[c][other][i.field] # cmd[i.field]
<1> SUFFICES ASSUME x.given[c][other][i.field] = cmd[i.field] PROVE FALSE
  OBVIOUS
<1>1. PICK v : v = cmd[i.field]
  OBVIOUS
<1>2. v = x.given[c][other][i.field] /\ v \in Val \cup {Absent}
  BY <1>1, IndexAssumption DEF IndexesOf, IndexType, Doc
<1>3. PICK e : e = Entry(i, v, other)
  OBVIOUS
<1>4. e[1] = i /\ e[2] = v /\ e[3] = other
  BY <1>3 DEF Entry
<1>5. PICK d, f : d = x.given[c][other] /\ f = x.docs[c][id]
  OBVIOUS
<1>6. e \in EntriesOf(c, other, d)
  BY <1>2, <1>3, <1>5 DEF EntriesOf
<1>7. e \in x.ents
  BY <1>5, <1>6 DEF Indexed
<1>8. e \notin EntriesOf(c, id, f)
  BY <1>6, EntriesApart
<1>9. v \in Longer[v]
  BY <1>2, LongerAssumption
<1>10. e \in Scan(x.ents \ EntriesOf(c, id, f), i, v)
  BY <1>4, <1>7, <1>8, <1>9 DEF Scan
<1>11. \A g \in Scan(x.ents \ EntriesOf(c, id, f), i, v) : g[3] = id
  BY <1>1, <1>5 DEF Accepts
<1> QED
  BY <1>4, <1>10, <1>11

\* A write that is accepted keeps unique values unique.
LEMMA WriteDistinct ==
  ASSUME NEW x, Good(x), Indexed(x), Distinct(x.given), NEW c \in Coll, NEW id \in Ids[c],
         NEW stored \in Doc, NEW cmd \in Doc,
         Accepts(x, c, id, cmd, EntriesOf(c, id, x.docs[c][id])),
         NEW y, y = Write(x, c, id, stored, cmd)
  PROVE  Distinct(y.given)
<1>1. Wrote(x, y, c, id, stored, cmd)
  BY WriteParts DEF Good
<1>2. \A b \in Coll : \A j \in Ids[b] :
        y.given[b][j] = IF b = c /\ j = id THEN cmd ELSE x.given[b][j]
  BY <1>1 DEF Good, Shape, DocsType, Wrote
<1> SUFFICES ASSUME NEW i \in Index, i.unique, NEW j \in Ids[i.coll], NEW other \in Ids[i.coll],
                    y.given[i.coll][j] # NoDoc, y.given[i.coll][other] # NoDoc, j # other
             PROVE  y.given[i.coll][j][i.field] # y.given[i.coll][other][i.field]
  BY DEF Distinct
<1>3. i.coll \in Coll /\ i \in IndexesOf(i.coll)
  BY IndexAssumption DEF IndexType, IndexesOf
<1>4. CASE i.coll = c /\ j = id
  <2>1. y.given[c][j] = cmd /\ y.given[c][other] = x.given[c][other]
    BY <1>2, <1>3, <1>4
  <2> QED
    BY <1>3, <1>4, <2>1, UniqueFound
<1>5. CASE i.coll = c /\ other = id
  <2>1. y.given[c][other] = cmd /\ y.given[c][j] = x.given[c][j]
    BY <1>2, <1>3, <1>5
  <2> QED
    BY <1>3, <1>5, <2>1, UniqueFound
<1>6. CASE ~(i.coll = c /\ (j = id \/ other = id))
  <2>1. y.given[i.coll][j] = x.given[i.coll][j] /\ y.given[i.coll][other] = x.given[i.coll][other]
    BY <1>2, <1>3, <1>6
  <2> QED
    BY <2>1 DEF Distinct
<1> QED
  BY <1>4, <1>5, <1>6

\* A write touches what it writes only.
LEMMA WriteUntouched ==
  ASSUME NEW x, Good(x), Untouched(x), NEW c \in Coll, NEW id \in Ids[c], NEW stored, NEW cmd,
         NEW y, y = Write(x, c, id, stored, cmd)
  PROVE  Untouched(y)
<1>1. Wrote(x, y, c, id, stored, cmd)
  BY WriteParts DEF Good
<1>2. \A b \in Coll : \A j \in Ids[b] :
        y.given[b][j] = IF b = c /\ j = id THEN cmd ELSE x.given[b][j]
  BY <1>1 DEF Good, Shape, DocsType, Wrote
<1>3. \A b, j : DocKey(b, j) \notin y.writes => DocKey(b, j) \notin x.writes /\ ~(b = c /\ j = id)
  BY <1>1 DEF Wrote
<1> QED
  BY <1>1, <1>2, <1>3 DEF Untouched, Wrote

\* Deletes leave no new value, and touch what they delete only.
LEMMA EraseDistinct ==
  ASSUME NEW x, Good(x), Distinct(x.given), Untouched(x), NEW gone, NEW y, y = Erase(x, gone)
  PROVE  Distinct(y.given) /\ Untouched(y)
<1>1. PICK keys : keys = {DocKey(d.c, d.id) : d \in gone}
  OBVIOUS
<1>2. Erased(x, y, keys)
  BY <1>1, EraseParts DEF Good
<1>3. \A b \in Coll : \A j \in Ids[b] :
        y.given[b][j] = IF DocKey(b, j) \in keys THEN NoDoc ELSE x.given[b][j]
  BY <1>2 DEF Erased, Without
<1>4. \A i \in Index : i.coll \in Coll
  BY IndexAssumption DEF IndexType
<1>5. Distinct(y.given)
  <2>1. \A b \in Coll : \A j \in Ids[b] : y.given[b][j] # NoDoc => y.given[b][j] = x.given[b][j]
    BY <1>3
  <2> QED
    BY <1>4, <2>1 DEF Distinct
<1>6. Untouched(y)
  BY <1>2, <1>3 DEF Untouched, Erased
<1> QED
  BY <1>5, <1>6

\* Alone, a commit installs exactly what its transaction saw.
LEMMA CommitDistinct ==
  ASSUME SerialInv, NEW t \in Tx, Commit(t)
  PROVE  Distinct(given')
<1>1. PICK x : x = tx[t]
  OBVIOUS
<1>2. DocInv /\ x.open /\ Distinct(x.given) /\ Untouched(x)
  BY <1>1 DEF SerialInv, IndexInv, TypeInv, Commit
<1>3. \A c \in Coll : \A id \in Ids[c] : given'[c][id] = x.given[c][id]
  BY <1>1, <1>2, CommitParts DEF Untouched
<1>4. \A i \in Index : i.coll \in Coll
  BY IndexAssumption DEF IndexType
<1> QED
  BY <1>2, <1>3, <1>4 DEF Distinct

\* A transaction that has not begun sees nothing.
LEMMA FreshDistinct == Distinct(NoDocs) /\ Distinct(Fresh.given) /\ Untouched(Fresh)
<1>1. Fresh.given = NoDocs /\ ~Fresh.open
  BY DEF Fresh
<1>2. \A i \in Index : i.coll \in Coll
  BY IndexAssumption DEF IndexType
<1>3. Distinct(NoDocs)
  BY <1>2 DEF Distinct, NoDocs
<1> QED
  BY <1>1, <1>3 DEF Untouched

\* The step of the one transaction keeps unique values unique.
LEMMA SerialOwnStep ==
  ASSUME SerialInv, Alone, NEW t \in Tx, NEW y, Distinct(y.given), Untouched(y), Step(t, y)
  PROVE  Distinct(given') /\ \A u \in Tx : Distinct(tx'[u].given) /\ Untouched(tx[u])'
<1>1. given' = given /\ tx' = [tx EXCEPT ![t] = y] /\ DOMAIN tx = Tx
  BY DEF Step, SerialInv, IndexInv, TypeInv, DocInv
<1>2. \A u \in Tx : tx'[u] = y
  BY <1>1 DEF Alone
<1>3. Distinct(given')
  BY <1>1 DEF SerialInv
<1>4. \A u \in Tx : Distinct(tx'[u].given) /\ Untouched(tx[u])'
  BY <1>1, <1>2 DEF Untouched
<1> QED
  BY <1>3, <1>4

\* Alone, every step keeps unique values unique.
LEMMA SerialStep ==
  ASSUME Alone, SerialInv, [Next]_vars
  PROVE  SerialInv'
<1>1. IndexInv /\ IndexInv' /\ TypeInv /\ DocInv
  BY IndexStep DEF SerialInv, IndexInv, TypeInv
<1> SUFFICES Distinct(given') /\ \A u \in Tx : Distinct(tx'[u].given) /\ Untouched(tx[u])'
  BY <1>1 DEF SerialInv, Distinct
<1>2. ASSUME NEW t \in Tx, Begin(t)
      PROVE  Distinct(given') /\ \A u \in Tx : Distinct(tx'[u].given) /\ Untouched(tx[u])'
  <2>1. PICK y : y = [Fresh EXCEPT !.open = TRUE, !.docs = docs, !.ents = ents, !.snap = docs, !.given = given]
    OBVIOUS
  <2>2. y.given = given
    BY <2>1 DEF Fresh
  <2>3. Distinct(y.given) /\ Untouched(y)
    BY <2>2 DEF Untouched, SerialInv
  <2>4. Step(t, y)
    BY <1>2, <2>1 DEF Begin, Step
  <2> QED
    BY <2>3, <2>4, SerialOwnStep
<1>3. ASSUME NEW t \in Tx, Rollback(t)
      PROVE  Distinct(given') /\ \A u \in Tx : Distinct(tx'[u].given) /\ Untouched(tx[u])'
  BY <1>3, FreshDistinct, SerialOwnStep DEF Rollback
<1>4. ASSUME NEW t \in Tx, Commit(t)
      PROVE  Distinct(given') /\ \A u \in Tx : Distinct(tx'[u].given) /\ Untouched(tx[u])'
  <2>1. \A u \in Tx : tx'[u] = Fresh
    BY <1>1, <1>4, CommitParts DEF Alone
  <2>2. \A u \in Tx : Distinct(tx'[u].given) /\ ~tx'[u].open
    BY <2>1, FreshDistinct, FreshGood
  <2> QED
    BY <1>4, <2>2, CommitDistinct DEF Untouched
<1>5. ASSUME NEW t \in Tx, NEW c \in Coll, NEW id \in Ids[c], Get(t, c, id)
      PROVE  Distinct(given') /\ \A u \in Tx : Distinct(tx'[u].given) /\ Untouched(tx[u])'
  <2>1. PICK x : x = tx[t]
    OBVIOUS
  <2>2. PICK y : y = [x EXCEPT !.reads = @ \cup Looked(x, c, id), !.ops = @ + 1]
    OBVIOUS
  <2>3. Step(t, y) /\ DOMAIN x = TxFields /\ Distinct(x.given) /\ Untouched(x)
    BY <1>1, <1>5, <2>1, <2>2 DEF Get, DocInv, Good, Shape, SerialInv
  <2>4. y.given = x.given /\ y.writes = x.writes /\ y.open = x.open
    BY <2>2, <2>3 DEF TxFields
  <2>5. Distinct(y.given) /\ Untouched(y)
    BY <2>3, <2>4 DEF Untouched
  <2> QED
    BY <2>3, <2>5, SerialOwnStep
<1>6. ASSUME NEW t \in Tx, NEW c \in Coll, NEW id \in Ids[c], Delete(t, c, id)
      PROVE  Distinct(given') /\ \A u \in Tx : Distinct(tx'[u].given) /\ Untouched(tx[u])'
  <2>1. PICK x, gone : x = tx[t] /\ gone = Doomed(x, c, id)
    OBVIOUS
  <2>2. PICK y : y = Erase(x, gone)
    OBVIOUS
  <2>3. Step(t, y) /\ Good(x) /\ Distinct(x.given) /\ Untouched(x)
    BY <1>1, <1>6, <2>1, <2>2 DEF Delete, DocInv, SerialInv
  <2>4. Distinct(y.given) /\ Untouched(y)
    BY <2>2, <2>3, EraseDistinct
  <2> QED
    BY <2>3, <2>4, SerialOwnStep
<1>7. ASSUME NEW t \in Tx, NEW c \in Coll, NEW id \in Ids[c], NEW stored \in Doc, NEW cmd \in Doc,
             Puts(t, c, id, stored, cmd)
      PROVE  Distinct(given') /\ \A u \in Tx : Distinct(tx'[u].given) /\ Untouched(tx[u])'
  <2>1. PICK x : x = tx[t]
    OBVIOUS
  <2>2. PICK y : y = Write(x, c, id, stored, cmd)
    OBVIOUS
  <2>3. /\ Step(t, y) /\ Good(x) /\ Distinct(x.given) /\ Untouched(x)
        /\ Indexed(x) /\ Accepts(x, c, id, cmd, EntriesOf(c, id, x.docs[c][id]))
    BY <1>1, <1>7, <2>1, <2>2 DEF Puts, DocInv, IndexInv, SerialInv
  <2>4. Distinct(y.given) /\ Untouched(y)
    BY <2>2, <2>3, WriteDistinct, WriteUntouched
  <2> QED
    BY <2>3, <2>4, SerialOwnStep
<1>8. CASE UNCHANGED vars
  BY <1>8 DEF vars, SerialInv, Untouched
<1> QED
  BY <1>1, <1>2, <1>3, <1>4, <1>5, <1>6, <1>7, <1>8, Moves

\* Alone, unique values stay unique.
LEMMA SerialInvariant == ASSUME Alone PROVE Spec => []SerialInv
<1>1. Init => SerialInv
  <2>1. Init => IndexInv
    BY IndexInit
  <2>2. Init => given = NoDocs /\ \A t \in Tx : tx[t] = Fresh
    BY DEF Init
  <2> QED
    BY <2>1, <2>2, FreshDistinct DEF SerialInv
<1>2. SerialInv /\ [Next]_vars => SerialInv'
  BY SerialStep
<1> QED
  BY <1>1, <1>2, PTL DEF Spec

\* README.md:151 as far as it holds: with one transaction at a time, and any
\* updates, two documents share the value of a unique field only if an update
\* left the field out of one of them (tx_util.go:369-378: its entry is gone, and
\* the value is accepted again).  Transactions that run at once may write the
\* same value, neither meeting the entry of the other.
THEOREM UniqueAlone == ASSUME Alone PROVE Spec => []UniqueUnlessLeftOut
<1>1. SerialInv => UniqueUnlessLeftOut
  <2> SUFFICES ASSUME SerialInv, NEW i \in Index, i.unique, NEW id \in Ids[i.coll], NEW other \in Ids[i.coll],
                      Stored(i.coll, id), Stored(i.coll, other), id # other,
                      ~LeftOut(i, id), ~LeftOut(i, other)
               PROVE  docs[i.coll][id][i.field] # docs[i.coll][other][i.field]
    BY DEF UniqueUnlessLeftOut
  <2>1. i.coll \in Coll /\ Agree(docs, given) /\ Distinct(given)
    BY IndexAssumption DEF IndexType, SerialInv, IndexInv, TypeInv, DocInv
  <2>2. given[i.coll][id] # NoDoc /\ given[i.coll][other] # NoDoc
    BY <2>1 DEF Agree, AgreeAt, Stored
  <2>3. given[i.coll][id][i.field] # given[i.coll][other][i.field]
    BY <2>1, <2>2 DEF Distinct
  <2> QED
    BY <2>3 DEF LeftOut
<1> QED
  BY <1>1, SerialInvariant, PTL

-----------------------------------------------------------------------------
(* The document layer implements DocStore, the store without indexes.        *)

\* The documents a transaction has written.
WrittenBy(x) == {d \in Documents : DocKey(d.c, d.id) \in x.writes}

\* The other transactions see, say and have written what they did before.
OthersStay(t) ==
  \A u \in Tx \ {t} : /\ tx'[u].docs = tx[u].docs /\ tx'[u].given = tx[u].given
                      /\ tx'[u].writes = tx[u].writes /\ tx'[u].open = tx[u].open

\* A step of one transaction changes its view only.
LEMMA OwnView ==
  ASSUME NEW t \in Tx, NEW y, tx'[t] = y, OthersStay(t)
  PROVE  /\ [u \in Tx |-> tx'[u].docs] = [[u \in Tx |-> tx[u].docs] EXCEPT ![t] = y.docs]
         /\ [u \in Tx |-> tx'[u].given] = [[u \in Tx |-> tx[u].given] EXCEPT ![t] = y.given]
         /\ [u \in Tx |-> WrittenBy(tx'[u])] = [[u \in Tx |-> WrittenBy(tx[u])] EXCEPT ![t] = WrittenBy(y)]
         /\ y.open => {u \in Tx : tx'[u].open} = {u \in Tx : tx[u].open} \cup {t}
         /\ ~y.open => {u \in Tx : tx'[u].open} = {u \in Tx : tx[u].open} \ {t}
<1>1. \A u \in Tx \ {t} : WrittenBy(tx'[u]) = WrittenBy(tx[u])
  BY DEF OthersStay, WrittenBy
<1>2. [u \in Tx |-> WrittenBy(tx'[u])] = [[u \in Tx |-> WrittenBy(tx[u])] EXCEPT ![t] = WrittenBy(y)]
  BY <1>1
<1> QED
  BY <1>2 DEF OthersStay

\* A written document, by its key.
LEMMA WrittenKey ==
  ASSUME NEW x, NEW c \in Coll, NEW id \in Ids[c]
  PROVE  [c |-> c, id |-> id] \in WrittenBy(x) <=> DocKey(c, id) \in x.writes
<1>1. [c |-> c, id |-> id] \in Documents
  BY DEF Documents
<1> QED
  BY <1>1 DEF WrittenBy

\* One document of one view more, written in one way and in the other.
LEMMA DeepExcept ==
  ASSUME NEW F, NEW t, NEW c, NEW id, NEW d, NEW y, y = [F[t] EXCEPT ![c][id] = d]
  PROVE  [F EXCEPT ![t] = y] = [F EXCEPT ![t][c][id] = d]
OBVIOUS

\* The same documents, chains and merges.
LEMMA SameSchema ==
  /\ Plain!Documents = Documents /\ Plain!NoDocs = NoDocs
  /\ \A c : Plain!IndexesOf(c) = IndexesOf(c)
  /\ \A S, referring : Plain!Reach(S, referring) = Reach(S, referring)
  /\ \A before, part : Plain!Merge(before, part) = Merge(before, part)
<1>1. Plain!Documents = Documents /\ Plain!NoDocs = NoDocs
  BY DEF Plain!Documents, Documents, Plain!NoDocs, NoDocs
<1>2. \A c : Plain!IndexesOf(c) = IndexesOf(c)
  BY DEF Plain!IndexesOf, IndexesOf
<1>3. ASSUME NEW S, NEW referring
      PROVE  Reach(S, referring) = Plain!Reach(S, referring)
  <2>1. Cardinality(Coll) = Plain!Cardinality(Coll)
    BY DEF Cardinality, Plain!Cardinality
  <2> QED
    BY <2>1 DEF Reach, Plain!Reach
<1>4. \A before, part : Plain!Merge(before, part) = Merge(before, part)
  BY DEF Plain!Merge, Merge
<1> QED
  BY <1>1, <1>2, <1>3, <1>4

\* A query for d finds the documents that were given a reference to d, and none
\* that does not have one.
LEMMA ReferringBetween ==
  ASSUME NEW x, Good(x), Indexed(x), NEW d \in Documents
  PROVE  Plain!Referring(x.given, d) \subseteq Referring(x, d) /\ Referring(x, d) \subseteq Plain!Referring(x.docs, d)
<1>1. ASSUME NEW r \in Plain!Referring(x.given, d)
      PROVE  r \in Referring(x, d)
  <2>1. r \in Documents /\ x.given[r.c][r.id] # NoDoc
    BY <1>1, SameSchema DEF Plain!Referring
  <2>2. PICK i \in IndexesOf(r.c) : i.foreign = d.c /\ x.given[r.c][r.id][i.field] = d.id
    BY <1>1, SameSchema DEF Plain!Referring
  <2>3. i \in Index /\ i.coll = r.c /\ r.id \in Ids[i.coll] /\ r = [c |-> i.coll, id |-> r.id]
    BY <2>1, <2>2 DEF IndexesOf, Documents
  <2> QED
    BY <2>1, <2>2, <2>3, ReferringFound
<1>2. ASSUME NEW r \in Referring(x, d)
      PROVE  r \in Plain!Referring(x.docs, d)
  <2>1. r \in Documents
    BY <1>2 DEF Referring
  <2>2. PICK i \in IndexesOf(r.c) : i.foreign = d.c /\ x.docs[r.c][r.id] # NoDoc
                                  /\ x.docs[r.c][r.id][i.field] = d.id
    BY <1>2 DEF Referring
  <2> QED
    BY <2>1, <2>2, SameSchema DEF Plain!Referring
<1> QED
  BY <1>1, <1>2

\* And so does a cascade, by whatever chain of foreign keys.
LEMMA CascadeBetween ==
  ASSUME NEW x, Good(x), Indexed(x), NEW c \in Coll, NEW id \in Ids[c]
  PROVE  Plain!Cascade(x.given, c, id) \subseteq Doomed(x, c, id) /\ Doomed(x, c, id) \subseteq Plain!Cascade(x.docs, c, id)
<1> DEFINE S == {[c |-> c, id |-> id]}
           said == [d \in Documents |-> Plain!Referring(x.given, d)]
           found == [d \in Documents |-> Referring(x, d)]
           seen == [d \in Documents |-> Plain!Referring(x.docs, d)]
<1>1. S \in SUBSET Documents
  BY DEF Documents
<1>2. said \in [Documents -> SUBSET Documents] /\ found \in [Documents -> SUBSET Documents]
  BY SameSchema DEF Referring, Plain!Referring
<1>3. \A d \in Documents : said[d] \subseteq found[d] /\ found[d] \subseteq seen[d]
  BY ReferringBetween
<1>4. /\ Plain!Cascade(x.given, c, id) = Reach(S, said) /\ Doomed(x, c, id) = Reach(S, found)
      /\ Plain!Cascade(x.docs, c, id) = Reach(S, seen)
  BY SameSchema DEF Plain!Cascade, Doomed
<1> HIDE DEF S, said, found, seen
<1> QED
  BY <1>1, <1>2, <1>3, <1>4, ReachMonotone

\* The foreign keys that are looked up are those of documents that are there.
LEMMA AcceptedReferences ==
  ASSUME NEW x, Good(x), NEW c \in Coll, NEW id, NEW cmd, NEW old, Accepts(x, c, id, cmd, old),
         NEW i \in IndexesOf(c), i.foreign # NoColl, cmd[i.field] # Absent
  PROVE  cmd[i.field] \in Ids[i.foreign] /\ x.docs[i.foreign][cmd[i.field]] # NoDoc
<1>1. PICK v : v = cmd[i.field]
  OBVIOUS
<1>2. DocKey(i.foreign, v) \in ForeignKeys(c, cmd)
  BY <1>1 DEF ForeignKeys
<1>3. DocKey(i.foreign, v)[1] = i.foreign /\ DocKey(i.foreign, v)[2] = v
  BY DocKeyParts
<1>4. Has(x, i.foreign, v)
  BY <1>2, <1>3 DEF Accepts
<1>5. CASE DocKey(i.foreign, v) \in x.known
  <2>1. DocKey(i.foreign, v) \in DocKeys /\ x.docs[i.foreign][v] # NoDoc
    BY <1>3, <1>5 DEF Good, Vouched
  <2>2. v \in Ids[i.foreign]
    BY <2>1, DocKeyParts DEF DocKeys, Documents
  <2> QED
    BY <1>1, <2>1, <2>2
<1> QED
  BY <1>1, <1>4, <1>5 DEF Has

\* An operation leaves the other transactions alone.
LEMMA StepStays ==
  ASSUME DOMAIN tx = Tx, NEW t \in Tx, NEW y, Step(t, y)
  PROVE  tx'[t] = y /\ OthersStay(t) /\ docs' = docs /\ given' = given
BY DEF Step, OthersStay

\* A create, set or update that the indexes accept is one that the documents
\* allow.
LEMMA PutsPut ==
  ASSUME IndexInv, NEW t \in Tx, NEW c \in Coll, NEW id \in Ids[c],
         NEW stored \in Doc, NEW cmd \in Doc, Puts(t, c, id, stored, cmd)
  PROVE  \/ cmd \in Input[c] /\ Plain!Put(t, c, id, cmd)
         \/ cmd \in Partial[c] /\ Plain!Patch(t, c, id, cmd)
<1>1. PICK x : x = tx[t]
  OBVIOUS
<1>2. PICK y : y = Write(x, c, id, stored, cmd)
  OBVIOUS
<1>3. DocInv /\ DOMAIN tx = Tx
  BY DEF IndexInv, TypeInv, DocInv
<1>4. /\ Step(t, y) /\ Good(x) /\ Indexed(x) /\ x.open
      /\ Accepts(x, c, id, cmd, EntriesOf(c, id, x.docs[c][id]))
      /\ \/ cmd \in Input[c] /\ stored = cmd
         \/ cmd \in Partial[c] /\ x.docs[c][id] # NoDoc /\ stored = Merge(x.docs[c][id], cmd)
  BY <1>1, <1>2, <1>3 DEF Puts, Working, DocInv, IndexInv
<1>5. Wrote(x, y, c, id, stored, cmd)
  BY <1>2, <1>4, WriteParts DEF Good
<1>6. tx'[t] = y /\ OthersStay(t) /\ docs' = docs /\ given' = given
  BY <1>3, <1>4, StepStays
<1>7. WrittenBy(y) = WrittenBy(x) \cup {[c |-> c, id |-> id]}
  <2>1. \A d \in Documents : DocKey(d.c, d.id) = DocKey(c, id) <=> d = [c |-> c, id |-> id]
    BY DocKeyParts DEF Documents
  <2>2. [c |-> c, id |-> id] \in Documents
    BY DEF Documents
  <2> QED
    BY <1>5, <2>1, <2>2 DEF WrittenBy, Wrote
<1>8. Plain!Unique(t, c, id, cmd)
  <2> SUFFICES ASSUME NEW i \in IndexesOf(c), i.unique, NEW other \in Ids[c] \ {id},
                      Plain!Present(t, c, other)
               PROVE  x.given[c][other][i.field] # cmd[i.field]
    BY <1>1, SameSchema DEF Plain!Unique
  <2>1. x.docs[c][other] # NoDoc
    BY <1>1 DEF Plain!Present
  <2>2. x.given[c][other] # NoDoc
    BY <1>4, <2>1 DEF Good, Agree, AgreeAt
  <2> QED
    BY <1>4, <2>2, UniqueFound
<1>9. Plain!References(t, c, cmd)
  <2> SUFFICES ASSUME NEW i \in IndexesOf(c), i.foreign # NoColl, cmd[i.field] # Absent
               PROVE  Plain!Present(t, i.foreign, cmd[i.field])
    BY SameSchema DEF Plain!References
  <2>1. cmd[i.field] \in Ids[i.foreign] /\ x.docs[i.foreign][cmd[i.field]] # NoDoc
    BY <1>4, AcceptedReferences
  <2> QED
    BY <1>1, <2>1 DEF Plain!Present
<1>10. Plain!Store(t, c, id, stored, cmd)
  <2>1. y.open /\ y.docs = [x.docs EXCEPT ![c][id] = stored] /\ y.given = [x.given EXCEPT ![c][id] = cmd]
    BY <1>4, <1>5 DEF Wrote
  <2>2. [u \in Tx |-> tx'[u].docs] = [[u \in Tx |-> tx[u].docs] EXCEPT ![t][c][id] = stored]
    <3>1. PICK F : F = [u \in Tx |-> tx[u].docs]
      OBVIOUS
    <3>2. y.docs = [F[t] EXCEPT ![c][id] = stored]
      BY <1>1, <2>1, <3>1
    <3>3. [u \in Tx |-> tx'[u].docs] = [F EXCEPT ![t] = y.docs]
      BY <1>6, <3>1, OwnView
    <3> QED
      BY <3>1, <3>2, <3>3, DeepExcept
  <2>3. [u \in Tx |-> tx'[u].given] = [[u \in Tx |-> tx[u].given] EXCEPT ![t][c][id] = cmd]
    <3>1. PICK F : F = [u \in Tx |-> tx[u].given]
      OBVIOUS
    <3>2. y.given = [F[t] EXCEPT ![c][id] = cmd]
      BY <1>1, <2>1, <3>1
    <3>3. [u \in Tx |-> tx'[u].given] = [F EXCEPT ![t] = y.given]
      BY <1>6, <3>1, OwnView
    <3> QED
      BY <3>1, <3>2, <3>3, DeepExcept
  <2>4. [u \in Tx |-> WrittenBy(tx'[u])] = [[u \in Tx |-> WrittenBy(tx[u])] EXCEPT ![t] = @ \cup {[c |-> c, id |-> id]}]
    <3>1. PICK F : F = [u \in Tx |-> WrittenBy(tx[u])]
      OBVIOUS
    <3>2. F[t] = WrittenBy(x)
      BY <1>1, <3>1
    <3>3. [u \in Tx |-> WrittenBy(tx'[u])] = [F EXCEPT ![t] = WrittenBy(y)]
      BY <1>6, <3>1, OwnView
    <3> QED
      BY <1>7, <3>1, <3>2, <3>3
  <2>5. {u \in Tx : tx'[u].open} = {u \in Tx : tx[u].open} /\ t \in {u \in Tx : tx[u].open}
    BY <1>1, <1>4, <1>6, <2>1, OwnView
  <2> QED
    BY <1>6, <2>2, <2>3, <2>4, <2>5 DEF Plain!Store, WrittenBy
<1>11. CASE cmd \in Input[c] /\ stored = cmd
  BY <1>8, <1>9, <1>10, <1>11 DEF Plain!Put
<1>12. CASE cmd \in Partial[c] /\ x.docs[c][id] # NoDoc /\ stored = Merge(x.docs[c][id], cmd)
  <2>1. Plain!Present(t, c, id)
    BY <1>1, <1>12 DEF Plain!Present
  <2>2. stored = Plain!Merge([u \in Tx |-> tx[u].docs][t][c][id], cmd)
    <3>1. [u \in Tx |-> tx[u].docs][t] = x.docs
      BY <1>1
    <3> QED
      BY <1>12, <3>1, SameSchema
  <2>3. Plain!Store(t, c, id, Plain!Merge([u \in Tx |-> tx[u].docs][t][c][id], cmd), cmd)
    BY <1>10, <2>2 DEF Plain!Store
  <2>4. cmd \in Partial[c]
    BY <1>12
  <2>5. Plain!Patch(t, c, id, cmd)
    BY <1>8, <1>9, <2>1, <2>3 DEF Plain!Patch, Plain!Store
  <2> QED
    BY <2>4, <2>5
<1> QED
  BY <1>4, <1>11, <1>12

\* A delete removes what was given a reference to the document, and nothing
\* that has none.
LEMMA DeleteRemoves ==
  ASSUME IndexInv, NEW t \in Tx, NEW c \in Coll, NEW id \in Ids[c], Delete(t, c, id)
  PROVE  Plain!Remove(t, c, id)
<1>1. PICK x, gone : x = tx[t] /\ gone = Doomed(x, c, id)
  OBVIOUS
<1>2. PICK y, keys : y = Erase(x, gone) /\ keys = {DocKey(d.c, d.id) : d \in gone}
  OBVIOUS
<1>3. DocInv /\ DOMAIN tx = Tx
  BY DEF IndexInv, TypeInv, DocInv
<1>4. Step(t, y) /\ Good(x) /\ Indexed(x) /\ x.open
  BY <1>1, <1>2, <1>3 DEF Delete, Working, DocInv, IndexInv
<1>5. gone \in SUBSET Documents
  BY <1>1, DoomedType
<1>6. Erased(x, y, keys)
  BY <1>2, <1>4, EraseParts DEF Good
<1>7. tx'[t] = y /\ OthersStay(t) /\ docs' = docs /\ given' = given
  BY <1>3, <1>4, StepStays
<1>8. \A k, j : DocKey(k, j) \in keys <=> [c |-> k, id |-> j] \in gone
  BY <1>2, <1>5, GoneKeys
<1>9. WrittenBy(y) = WrittenBy(x) \cup gone
  <2>1. \A d \in Documents : d = [c |-> d.c, id |-> d.id]
    BY DEF Documents
  <2> QED
    BY <1>5, <1>6, <1>8, <2>1 DEF WrittenBy, Erased
<1>10. \A D : Without(D, keys) = Plain!Over(D, NoDocs, gone)
  BY <1>8 DEF Without, Plain!Over, NoDocs
<1>11. Plain!Cascade(x.given, c, id) \subseteq gone /\ gone \subseteq Plain!Cascade(x.docs, c, id)
  BY <1>1, <1>4, CascadeBetween
<1>12. y.open /\ y.docs = Without(x.docs, keys) /\ y.given = Without(x.given, keys)
  BY <1>4, <1>6 DEF Erased
<1>13. [u \in Tx |-> tx'[u].docs] = [[u \in Tx |-> tx[u].docs] EXCEPT ![t] = Plain!Over(@, Plain!NoDocs, gone)]
  <2>1. y.docs = Plain!Over([u \in Tx |-> tx[u].docs][t], Plain!NoDocs, gone)
    BY <1>1, <1>10, <1>12, SameSchema
  <2> QED
    BY <1>7, <2>1, OwnView
<1>14. [u \in Tx |-> tx'[u].given] = [[u \in Tx |-> tx[u].given] EXCEPT ![t] = Plain!Over(@, Plain!NoDocs, gone)]
  <2>1. y.given = Plain!Over([u \in Tx |-> tx[u].given][t], Plain!NoDocs, gone)
    BY <1>1, <1>10, <1>12, SameSchema
  <2> QED
    BY <1>7, <2>1, OwnView
<1>15. [u \in Tx |-> WrittenBy(tx'[u])] = [[u \in Tx |-> WrittenBy(tx[u])] EXCEPT ![t] = @ \cup gone]
  <2>1. WrittenBy(y) = [u \in Tx |-> WrittenBy(tx[u])][t] \cup gone
    BY <1>1, <1>9
  <2> QED
    BY <1>7, <2>1, OwnView
<1>16. {u \in Tx : tx'[u].open} = {u \in Tx : tx[u].open} /\ t \in {u \in Tx : tx[u].open}
  BY <1>1, <1>4, <1>7, <1>12, OwnView
<1>17. Plain!Cascade([u \in Tx |-> tx[u].given][t], c, id) \subseteq gone
       /\ gone \subseteq Plain!Cascade([u \in Tx |-> tx[u].docs][t], c, id)
  BY <1>1, <1>11
<1>18. gone \in SUBSET Plain!Documents
  BY <1>5, SameSchema
<1> QED
  BY <1>7, <1>13, <1>14, <1>15, <1>16, <1>17, <1>18 DEF Plain!Remove, WrittenBy

\* A commit installs what its transaction has written.
LEMMA CommitCommits ==
  ASSUME IndexInv, NEW t \in Tx, Commit(t)
  PROVE  Plain!Commit(t)
<1>1. PICK x : x = tx[t]
  OBVIOUS
<1>2. DocInv /\ x.open
  BY <1>1 DEF IndexInv, TypeInv, Commit
<1>3. tx'[t] = Fresh /\ OthersStay(t)
  <2>1. ASSUME NEW u \in Tx \ {t}
        PROVE  /\ tx'[u].docs = tx[u].docs /\ tx'[u].given = tx[u].given
               /\ tx'[u].writes = tx[u].writes /\ tx'[u].open = tx[u].open
    <3>1. PICK z, w : z = tx[u] /\ w = tx'[u]
      OBVIOUS
    <3>2. w = [z EXCEPT !.dirty = @ \cup tx[t].writes] \/ w = z
      BY <1>2, <3>1, CommitParts
    <3>3. DOMAIN z = TxFields
      BY <1>2, <3>1 DEF DocInv, Good, Shape
    <3>4. w.docs = z.docs /\ w.given = z.given /\ w.writes = z.writes /\ w.open = z.open
      BY <3>2, <3>3 DEF TxFields
    <3> QED
      BY <3>1, <3>4
  <2> QED
    BY <1>2, <2>1, CommitParts DEF OthersStay
<1>4. Fresh.docs = NoDocs /\ Fresh.given = NoDocs /\ WrittenBy(Fresh) = {} /\ ~Fresh.open
  BY DEF Fresh, WrittenBy
<1>5. \A D, V : Merged(D, V, x.writes) = Plain!Over(D, V, WrittenBy(x))
  BY WrittenKey DEF Merged, Plain!Over
<1>6. docs' = Merged(docs, x.docs, x.writes) /\ given' = Merged(given, x.given, x.writes)
  BY <1>1 DEF Commit
<1>7. [u \in Tx |-> tx'[u].docs] = [[u \in Tx |-> tx[u].docs] EXCEPT ![t] = NoDocs]
  BY <1>3, <1>4, OwnView
<1>8. [u \in Tx |-> tx'[u].given] = [[u \in Tx |-> tx[u].given] EXCEPT ![t] = NoDocs]
  BY <1>3, <1>4, OwnView
<1>9. [u \in Tx |-> WrittenBy(tx'[u])] = [[u \in Tx |-> WrittenBy(tx[u])] EXCEPT ![t] = {}]
  BY <1>3, <1>4, OwnView
<1>10. {u \in Tx : tx'[u].open} = {u \in Tx : tx[u].open} \ {t} /\ t \in {u \in Tx : tx[u].open}
  BY <1>1, <1>2, <1>3, <1>4, OwnView
<1>11. Plain!End(t)
  BY <1>7, <1>8, <1>9, <1>10, SameSchema DEF Plain!End, WrittenBy
<1>12. /\ [u \in Tx |-> tx[u].docs][t] = x.docs /\ [u \in Tx |-> tx[u].given][t] = x.given
       /\ [u \in Tx |-> WrittenBy(tx[u])][t] = WrittenBy(x)
  BY <1>1
<1>13. /\ docs' = Plain!Over(docs, [u \in Tx |-> tx[u].docs][t], [u \in Tx |-> WrittenBy(tx[u])][t])
       /\ given' = Plain!Over(given, [u \in Tx |-> tx[u].given][t], [u \in Tx |-> WrittenBy(tx[u])][t])
  BY <1>5, <1>6, <1>12
<1> QED
  BY <1>11, <1>13 DEF Plain!Commit, WrittenBy

\* A step of the program is a step of the store of documents.
LEMMA PlainStep ==
  ASSUME IndexInv, [Next]_vars
  PROVE  [Plain!Next]_(Plain!vars)
<1>1. DocInv /\ DOMAIN tx = Tx
  BY DEF IndexInv, TypeInv, DocInv
<1>2. Fresh.docs = NoDocs /\ Fresh.given = NoDocs /\ WrittenBy(Fresh) = {} /\ ~Fresh.open
  BY DEF Fresh, WrittenBy
<1>3. ASSUME NEW t \in Tx, Begin(t)
      PROVE  Plain!Begin(t)
  <2>1. PICK y : y = [Fresh EXCEPT !.open = TRUE, !.docs = docs, !.ents = ents, !.snap = docs, !.given = given]
    OBVIOUS
  <2>2. y.open /\ y.docs = docs /\ y.given = given /\ y.writes = {}
    BY <2>1 DEF Fresh
  <2>3. ~tx[t].open /\ Step(t, y)
    BY <1>3, <2>1 DEF Begin, Step
  <2>4. tx'[t] = y /\ OthersStay(t) /\ docs' = docs /\ given' = given
    BY <1>1, <2>3, StepStays
  <2>5. tx[t].writes = {}
    <3>1. tx[t] = Fresh
      BY <2>3 DEF IndexInv, TypeInv, Typed
    <3> QED
      BY <3>1 DEF Fresh
  <2>6. [u \in Tx |-> tx'[u].docs] = [[u \in Tx |-> tx[u].docs] EXCEPT ![t] = docs]
    BY <2>2, <2>4, OwnView
  <2>7. [u \in Tx |-> tx'[u].given] = [[u \in Tx |-> tx[u].given] EXCEPT ![t] = given]
    BY <2>2, <2>4, OwnView
  <2>8. [u \in Tx |-> WrittenBy(tx'[u])] = [u \in Tx |-> WrittenBy(tx[u])]
    BY <2>2, <2>4, <2>5 DEF WrittenBy, OthersStay
  <2>9. {u \in Tx : tx'[u].open} = {u \in Tx : tx[u].open} \cup {t} /\ t \notin {u \in Tx : tx[u].open}
    BY <2>2, <2>3, <2>4, OwnView
  <2> QED
    BY <2>4, <2>6, <2>7, <2>8, <2>9 DEF Plain!Begin, WrittenBy
<1>4. ASSUME NEW t \in Tx, Rollback(t)
      PROVE  Plain!Abort(t)
  <2>1. tx[t].open /\ tx'[t] = Fresh /\ OthersStay(t) /\ docs' = docs /\ given' = given
    BY <1>1, <1>4, StepStays DEF Rollback
  <2>2. [u \in Tx |-> tx'[u].docs] = [[u \in Tx |-> tx[u].docs] EXCEPT ![t] = NoDocs]
    BY <1>2, <2>1, OwnView
  <2>3. [u \in Tx |-> tx'[u].given] = [[u \in Tx |-> tx[u].given] EXCEPT ![t] = NoDocs]
    BY <1>2, <2>1, OwnView
  <2>4. [u \in Tx |-> WrittenBy(tx'[u])] = [[u \in Tx |-> WrittenBy(tx[u])] EXCEPT ![t] = {}]
    BY <1>2, <2>1, OwnView
  <2>5. {u \in Tx : tx'[u].open} = {u \in Tx : tx[u].open} \ {t} /\ t \in {u \in Tx : tx[u].open}
    BY <1>2, <2>1, OwnView
  <2>6. Plain!End(t)
    BY <2>2, <2>3, <2>4, <2>5, SameSchema DEF Plain!End, WrittenBy
  <2> QED
    BY <2>1, <2>6 DEF Plain!Abort
<1>5. ASSUME NEW t \in Tx, Commit(t)
      PROVE  Plain!Commit(t)
  BY <1>5, CommitCommits
<1>6. ASSUME NEW t \in Tx, NEW c \in Coll, NEW id \in Ids[c], Get(t, c, id)
      PROVE  UNCHANGED Plain!vars
  <2>1. PICK x : x = tx[t]
    OBVIOUS
  <2>2. PICK y : y = [x EXCEPT !.reads = @ \cup Looked(x, c, id), !.ops = @ + 1]
    OBVIOUS
  <2>3. Step(t, y) /\ DOMAIN x = TxFields
    BY <1>1, <1>6, <2>1, <2>2 DEF Get, DocInv, Good, Shape
  <2>4. y.docs = x.docs /\ y.given = x.given /\ y.writes = x.writes /\ y.open = x.open
    BY <2>2, <2>3 DEF TxFields
  <2>5. docs' = docs /\ given' = given
        /\ \A u \in Tx : /\ tx'[u].docs = tx[u].docs /\ tx'[u].given = tx[u].given
                         /\ tx'[u].writes = tx[u].writes /\ tx'[u].open = tx[u].open
    BY <1>1, <2>1, <2>3, <2>4, StepStays DEF OthersStay
  <2> QED
    BY <2>5 DEF Plain!vars
<1>7. ASSUME NEW t \in Tx, NEW c \in Coll, NEW id \in Ids[c], Delete(t, c, id)
      PROVE  Plain!Remove(t, c, id)
  BY <1>7, DeleteRemoves
<1>8. ASSUME NEW t \in Tx, NEW c \in Coll, NEW id \in Ids[c], NEW stored \in Doc, NEW cmd \in Doc,
             Puts(t, c, id, stored, cmd)
      PROVE  \/ \E d \in Input[c] : Plain!Put(t, c, id, d)
             \/ \E p \in Partial[c] : Plain!Patch(t, c, id, p)
  BY <1>8, PutsPut
<1>9. CASE UNCHANGED vars
  BY <1>9 DEF vars, Plain!vars
<1> QED
  BY <1>1, <1>3, <1>4, <1>5, <1>6, <1>7, <1>8, <1>9, Moves DEF Plain!Next

\* For any number of concurrent transactions and any updates, the document
\* layer implements DocStore, a store of documents without indexes: what the
\* indexes decide about unique values, foreign keys and cascades is what the
\* documents call for, as far as the last write of each gave the fields.
THEOREM ImplementsDocuments == Spec => ImplementsDocStore
<1>1. Init => Plain!Init
  <2>1. ASSUME Init
        PROVE  /\ \A t \in Tx : tx[t].docs = NoDocs /\ tx[t].given = NoDocs /\ tx[t].writes = {} /\ ~tx[t].open
               /\ docs = NoDocs /\ given = NoDocs
    <3>1. (\A t \in Tx : tx[t] = Fresh) /\ docs = NoDocs /\ given = NoDocs
      BY <2>1 DEF Init
    <3> QED
      BY <3>1 DEF Fresh
  <2> QED
    BY <2>1, SameSchema DEF Plain!Init
<1>2. IndexInv /\ [Next]_vars => [Plain!Next]_(Plain!vars)
  BY PlainStep
<1> QED
  BY <1>1, <1>2, IndexInvariant, PTL DEF Spec, ImplementsDocStore, Plain!Spec
=============================================================================
