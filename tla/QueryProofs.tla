---------------------------- MODULE QueryProofs ----------------------------
(***************************************************************************)
(* Proofs about QueryScan and QueryPages, for any documents, indexes,      *)
(* conditions, orders and values.                                          *)
(*                                                                         *)
(* A scan that can be trusted finds what a filter of all documents would   *)
(* find.  A key in an index is the path of the document's fields; by       *)
(* induction over the fields of the index, the paths of a prefix, of a     *)
(* starting point and of a key agree as far as their fields have the same  *)
(* values.                                                                 *)
(*                                                                         *)
(* The filter of groups is followed turn by turn.  Pages are cut from one  *)
(* sequence, since an order that decides leaves one way to sort.  Groups   *)
(* and their aggregates are folds, and followed row by row; that a sum     *)
(* over a set is the same in any order is proved of its parts.             *)
(***************************************************************************)
EXTENDS QueryPages, FiniteSetTheorems, SequenceTheorems, WellFoundedInduction, TLAPS

-----------------------------------------------------------------------------
(* Numbers, and sequences in the order of keys.                              *)

\* Every nonempty set of naturals has a least element.
LEMMA LeastElement ==
  ASSUME NEW T, T \subseteq Nat, T # {}
  PROVE  \E n \in T : \A m \in T : n <= m
<1>1. IsWellFoundedOn(OpToRel(<, Nat), Nat)
  BY NatLessThanWellFounded
<1>2. PICK n \in T : \A m \in T : ~(<<m, n>> \in OpToRel(<, Nat))
  BY <1>1, WFMin
<1>3. \A m \in T : ~(m < n)
  BY <1>2 DEF OpToRel
<1> QED
  BY <1>3

\* Induction, for the set of the numbers that have a property.
LEMMA SetInduction ==
  ASSUME NEW T, 0 \in T, \A n \in Nat : n \in T => n + 1 \in T
  PROVE  Nat \subseteq T
<1> SUFFICES ASSUME Nat \ T # {} PROVE FALSE
  OBVIOUS
<1>1. PICK n \in Nat \ T : \A m \in Nat \ T : n <= m
  BY LeastElement
<1>2. n # 0 /\ n - 1 \in Nat
  BY <1>1
<1>3. n - 1 \in T
  BY <1>1, <1>2
<1>4. (n - 1) + 1 \in T
  BY <1>2, <1>3
<1> QED
  BY <1>1, <1>4

\* Nothing is a sequence of numbers, and adds nothing.
LEMMA Nothing == << >> \in Seq(Nat) /\ \A s \in Seq(Nat) : s \o << >> = s /\ << >> \o s = s
OBVIOUS

\* A key that begins with a sequence has it as a prefix, and comes no earlier.
LEMMA BeginsWith ==
  ASSUME NEW s \in Seq(Nat), NEW t \in Seq(Nat)
  PROVE  IsPrefix(s, s \o t) /\ UpTo(s, s \o t)
<1>1. PICK k : k = s \o t
  OBVIOUS
<1>2. k \in Seq(Nat) /\ Len(k) = Len(s) + Len(t) /\ \A m \in 1..Len(s) : k[m] = s[m]
  BY <1>1
<1>3. Len(s) \in Nat /\ Len(t) \in Nat /\ Len(s) <= Len(k)
  BY <1>2
<1>4. SubSeq(s, 1, Len(s)) = SubSeq(k, 1, Len(s))
  BY <1>2, <1>3
<1>5. Len(s) \in 0..Len(s)
  BY <1>3
<1> QED
  BY <1>1, <1>2, <1>3, <1>4, <1>5 DEF IsPrefix, UpTo

\* A key with a greater value after the same beginning comes later.
LEMMA GreaterAfter ==
  ASSUME NEW s \in Seq(Nat), NEW f \in Nat, NEW v \in Nat, NEW a \in Nat, v < a,
         NEW r \in Seq(Nat)
  PROVE  UpTo(s \o <<f, v>>, (s \o <<f, a>>) \o r)
<1>1. PICK k : k = (s \o <<f, a>>) \o r
  OBVIOUS
<1>2. PICK b : b = s \o <<f, v>>
  OBVIOUS
<1>3. PICK n : n = Len(s)
  OBVIOUS
<1>4. /\ n \in Nat /\ Len(b) = n + 2
      /\ \A m \in 1..n : b[m] = s[m]
      /\ b[n + 1] = f /\ b[n + 2] = v
  BY <1>2, <1>3
<1>5. PICK h : h = s \o <<f, a>>
  OBVIOUS
<1>6. /\ h \in Seq(Nat) /\ Len(h) = n + 2 /\ \A m \in 1..n : h[m] = s[m]
      /\ h[n + 1] = f /\ h[n + 2] = a
  BY <1>3, <1>5
<1>7. /\ Len(k) \in Nat /\ n + 2 <= Len(k)
      /\ \A m \in 1..(n + 2) : k[m] = h[m]
  BY <1>1, <1>4, <1>5, <1>6
<1>8. PICK q : q = n + 1
  OBVIOUS
<1>9. /\ q \in 0..Len(b) /\ q <= Len(k) /\ q < Len(b) /\ q < Len(k) /\ q + 1 = n + 2
      /\ \A m \in 1..q : m \in 1..n \/ m = n + 1
  BY <1>4, <1>7, <1>8
<1>10. \A m \in 1..q : b[m] = k[m]
  BY <1>4, <1>6, <1>7, <1>9
<1>11. b[q + 1] < k[q + 1]
  BY <1>4, <1>6, <1>7, <1>9
<1>12. UpTo(b, k)
  BY <1>9, <1>10, <1>11 DEF UpTo
<1> QED
  BY <1>1, <1>2, <1>12

-----------------------------------------------------------------------------
(* Paths, by induction over the fields of the index.                         *)

\* u is what Path computes: one row per field of the index.
IsPath(u, m, fields, value) ==
  u = [n \in 0..m |-> IF n = 0 THEN << >> ELSE u[n - 1] \o Part(fields[n], value)]

\* One more field can be added.
LEMMA PathGrows ==
  ASSUME NEW fields, NEW value, NEW m \in Nat, NEW u, IsPath(u, m, fields, value)
  PROVE  \E w : IsPath(w, m + 1, fields, value)
<1> DEFINE row == u[m] \o Part(fields[m + 1], value)
           w == [n \in 0..(m + 1) |-> IF n = m + 1 THEN row ELSE u[n]]
<1>1. \A n \in 0..m : w[n] = u[n]
  OBVIOUS
<1>2. \A n \in 0..m : u[n] = IF n = 0 THEN << >> ELSE u[n - 1] \o Part(fields[n], value)
  BY DEF IsPath
<1>3. w[m + 1] = row
  OBVIOUS
<1>4. ASSUME NEW n \in 0..(m + 1)
      PROVE  w[n] = IF n = 0 THEN << >> ELSE w[n - 1] \o Part(fields[n], value)
  <2>1. CASE n = m + 1
    <3>1. n # 0 /\ n - 1 = m /\ m \in 0..m
      BY <2>1
    <3>2. w[n - 1] = u[m]
      BY <1>1, <3>1
    <3> HIDE DEF w
    <3> QED
      BY <1>3, <2>1, <3>1, <3>2
  <2>2. CASE n \in 0..m /\ n # 0
    <3>1. n - 1 \in 0..m
      BY <2>2
    <3>2. w[n] = u[n] /\ w[n - 1] = u[n - 1]
      BY <1>1, <2>2, <3>1
    <3> HIDE DEF w
    <3> QED
      BY <1>2, <2>2, <3>2
  <2>3. CASE n = 0
    <3>1. w[0] = u[0] /\ u[0] = << >>
      BY <1>1, <1>2
    <3> HIDE DEF w
    <3> QED
      BY <2>3, <3>1
  <2> QED
    BY <2>1, <2>2, <2>3
<1>5. DOMAIN w = 0..(m + 1) /\ w = [n \in 0..(m + 1) |-> w[n]]
  OBVIOUS
<1> HIDE DEF w
<1>6. w = [n \in 0..(m + 1) |-> IF n = 0 THEN << >> ELSE w[n - 1] \o Part(fields[n], value)]
  BY <1>4, <1>5
<1> QED
  BY <1>6 DEF IsPath

\* So any number can.
LEMMA PathExists ==
  ASSUME NEW fields, NEW value, NEW m \in Nat
  PROVE  \E u : IsPath(u, m, fields, value)
<1> DEFINE T == {n \in Nat : \E u : IsPath(u, n, fields, value)}
<1>1. 0 \in T
  <2>1. IsPath([n \in 0..0 |-> << >>], 0, fields, value)
    BY DEF IsPath
  <2> QED
    BY <2>1
<1>2. \A n \in Nat : n \in T => n + 1 \in T
  BY PathGrows
<1> HIDE DEF T
<1>3. Nat \subseteq T
  BY <1>1, <1>2, SetInduction
<1> QED
  BY <1>3 DEF T

\* The path after each field.
HasRows(u, fields, value) ==
  /\ u[0] = << >>
  /\ \A n \in Nat : n < Len(fields) => u[n + 1] = u[n] \o Part(fields[n + 1], value)

\* Path is the last of such rows: its function exists.
LEMMA PathRows ==
  ASSUME NEW i, NEW value, Len(i.fields) \in Nat
  PROVE  \E u : HasRows(u, i.fields, value) /\ Path(i, value) = u[Len(i.fields)]
<1> DEFINE N == Len(i.fields)
           u == CHOOSE f : IsPath(f, N, i.fields, value)
<1>1. IsPath(u, N, i.fields, value)
  <2>1. \E f : IsPath(f, N, i.fields, value)
    BY PathExists
  <2> QED
    BY <2>1
<1>2. Path(i, value) = u[N]
  BY DEF Path, IsPath
<1> HIDE DEF u, N
<1>3. \A n \in 0..N : u[n] = IF n = 0 THEN << >> ELSE u[n - 1] \o Part(i.fields[n], value)
  BY <1>1 DEF IsPath
<1>4. N \in Nat
  BY DEF N
<1>5. u[0] = << >>
  BY <1>3, <1>4
<1>6. ASSUME NEW n \in Nat, n < N
      PROVE  u[n + 1] = u[n] \o Part(i.fields[n + 1], value)
  <2>1. n + 1 \in 0..N /\ n + 1 # 0 /\ (n + 1) - 1 = n
    BY <1>4, <1>6
  <2>2. u[n + 1] = u[(n + 1) - 1] \o Part(i.fields[n + 1], value)
    BY <1>3, <2>1
  <2> QED
    BY <2>1, <2>2
<1> QED
  BY <1>2, <1>5, <1>6 DEF HasRows, N

\* A value for every field is a number.
Numbers(fields, value) ==
  \A n \in 1..Len(fields) : Part(fields[n], value) \in Seq(Nat)

\* Rows are sequences of numbers.
LEMMA RowTypes ==
  ASSUME NEW u, NEW fields, NEW value, Len(fields) \in Nat, HasRows(u, fields, value),
         Numbers(fields, value)
  PROVE  \A n \in 0..Len(fields) : u[n] \in Seq(Nat)
<1> DEFINE T == {n \in Nat : n <= Len(fields) => u[n] \in Seq(Nat)}
<1>1. 0 \in T
  <2>1. u[0] = << >>
    BY DEF HasRows
  <2>2. u[0] \in Seq(Nat)
    BY <2>1, Nothing
  <2> QED
    BY <2>2
<1>2. ASSUME NEW n \in Nat, n \in T PROVE n + 1 \in T
  <2> SUFFICES ASSUME n + 1 <= Len(fields) PROVE u[n + 1] \in Seq(Nat)
    OBVIOUS
  <2>1. n < Len(fields) /\ n + 1 \in 1..Len(fields) /\ u[n] \in Seq(Nat)
    BY <1>2
  <2>2. u[n + 1] = u[n] \o Part(fields[n + 1], value)
    BY <2>1 DEF HasRows
  <2>3. Part(fields[n + 1], value) \in Seq(Nat)
    BY <2>1 DEF Numbers
  <2> QED
    BY <2>1, <2>2, <2>3
<1> HIDE DEF T
<1>3. Nat \subseteq T
  BY <1>1, <1>2, SetInduction
<1> QED
  BY <1>3 DEF T

\* The first k fields have the same parts.
Agree(fields, v, w, k) == \A n \in 1..k : Part(fields[n], v) = Part(fields[n], w)

\* Rows agree as far as the parts do.
LEMMA SameRows ==
  ASSUME NEW fields, Len(fields) \in Nat, NEW v, NEW w, NEW k \in 0..Len(fields),
         Agree(fields, v, w, k), NEW a, HasRows(a, fields, v), NEW b, HasRows(b, fields, w)
  PROVE  a[k] = b[k]
<1> DEFINE T == {n \in Nat : n <= k => a[n] = b[n]}
<1>1. 0 \in T
  BY DEF HasRows
<1>2. ASSUME NEW n \in Nat, n \in T PROVE n + 1 \in T
  <2> SUFFICES ASSUME n + 1 <= k PROVE a[n + 1] = b[n + 1]
    OBVIOUS
  <2>1. n < Len(fields) /\ n + 1 \in 1..k /\ a[n] = b[n]
    BY <1>2
  <2>2. a[n + 1] = a[n] \o Part(fields[n + 1], v) /\ b[n + 1] = b[n] \o Part(fields[n + 1], w)
    BY <2>1 DEF HasRows
  <2> QED
    BY <2>1, <2>2 DEF Agree
<1> HIDE DEF T
<1>3. Nat \subseteq T
  BY <1>1, <1>2, SetInduction
<1> QED
  BY <1>3 DEF T

\* Three rows one after the other.
LEMMA RowsAssociate ==
  \A r \in Seq(Nat) : \A t \in Seq(Nat) : \A q \in Seq(Nat) : (r \o t) \o q = r \o (t \o q)
BY ConcatAssociative

\* Rows only get longer.
LEMMA LaterRows ==
  ASSUME NEW fields, Len(fields) \in Nat, NEW v, Numbers(fields, v),
         NEW a, HasRows(a, fields, v), NEW k \in 0..Len(fields)
  PROVE  \E t \in Seq(Nat) : a[Len(fields)] = a[k] \o t
<1> DEFINE T == {n \in Nat : k + n <= Len(fields) => \E t \in Seq(Nat) : a[k + n] = a[k] \o t}
<1>0. \A n \in 0..Len(fields) : a[n] \in Seq(Nat)
  BY RowTypes
<1>1. 0 \in T
  <2>1. a[k] \in Seq(Nat) /\ k + 0 = k
    BY <1>0
  <2>2. a[k] = a[k] \o << >> /\ << >> \in Seq(Nat)
    BY <2>1, Nothing
  <2> QED
    BY <2>1, <2>2
<1>2. ASSUME NEW n \in Nat, n \in T PROVE n + 1 \in T
  <2> SUFFICES ASSUME k + (n + 1) <= Len(fields)
               PROVE  \E t \in Seq(Nat) : a[k + (n + 1)] = a[k] \o t
    OBVIOUS
  <2>1. /\ k + n \in Nat /\ k + n < Len(fields) /\ (k + n) + 1 = k + (n + 1)
        /\ (k + n) + 1 \in 1..Len(fields)
    OBVIOUS
  <2>2. PICK t \in Seq(Nat) : a[k + n] = a[k] \o t
    BY <1>2, <2>1
  <2>3. PICK q \in Seq(Nat) : q = Part(fields[(k + n) + 1], v)
    BY <2>1 DEF Numbers
  <2>4. a[(k + n) + 1] = a[k + n] \o q
    BY <2>1, <2>3 DEF HasRows
  <2>5. a[k] \in Seq(Nat)
    BY <1>0
  <2>6. (a[k] \o t) \o q = a[k] \o (t \o q)
    BY <2>5, RowsAssociate
  <2>7. t \o q \in Seq(Nat)
    BY <2>3
  <2> QED
    BY <2>1, <2>2, <2>4, <2>5, <2>6, <2>7
<1> HIDE DEF T
<1>3. Nat \subseteq T
  BY <1>1, <1>2, SetInduction
<1>4. Len(fields) - k \in Nat /\ k + (Len(fields) - k) = Len(fields)
  OBVIOUS
<1>5. Len(fields) - k \in T
  BY <1>3, <1>4
<1>6. k + (Len(fields) - k) <= Len(fields) =>
        \E t \in Seq(Nat) : a[k + (Len(fields) - k)] = a[k] \o t
  BY <1>5 DEF T
<1> QED
  BY <1>4, <1>6

\* There are no values after the first k fields.
Ends(fields, v, k) == \A n \in (k + 1)..Len(fields) : Part(fields[n], v) = << >>

\* Rows do not change where there are no values.
LEMMA EmptyRows ==
  ASSUME NEW fields, Len(fields) \in Nat, NEW v, Numbers(fields, v),
         NEW a, HasRows(a, fields, v), NEW k \in 0..Len(fields),
         Ends(fields, v, k)
  PROVE  a[Len(fields)] = a[k]
<1> DEFINE T == {n \in Nat : k + n <= Len(fields) => a[k + n] = a[k]}
<1>1. 0 \in T
  OBVIOUS
<1>2. ASSUME NEW n \in Nat, n \in T PROVE n + 1 \in T
  <2> SUFFICES ASSUME k + (n + 1) <= Len(fields) PROVE a[k + (n + 1)] = a[k]
    OBVIOUS
  <2>1. /\ k + n \in 0..Len(fields) /\ k + n < Len(fields) /\ (k + n) + 1 = k + (n + 1)
        /\ (k + n) + 1 \in (k + 1)..Len(fields)
    OBVIOUS
  <2>2. a[k + n] = a[k] /\ a[k + n] \in Seq(Nat)
    <3>1. \A m \in 0..Len(fields) : a[m] \in Seq(Nat)
      BY RowTypes
    <3> QED
      BY <1>2, <2>1, <3>1
  <2>3. PICK m : m = k + n
    OBVIOUS
  <2>4. a[m + 1] = a[m] \o Part(fields[m + 1], v)
    <3>1. m \in Nat /\ m < Len(fields)
      BY <2>1, <2>3
    <3>2. \A j \in Nat : j < Len(fields) => a[j + 1] = a[j] \o Part(fields[j + 1], v)
      BY DEF HasRows
    <3> QED
      BY <3>1, <3>2
  <2>5. Part(fields[m + 1], v) = << >>
    BY <2>1, <2>3 DEF Ends
  <2>6. a[m] \o << >> = a[m]
    BY <2>2, <2>3, Nothing
  <2> QED
    BY <2>1, <2>2, <2>3, <2>4, <2>5, <2>6
<1> HIDE DEF T
<1>3. Nat \subseteq T
  BY <1>1, <1>2, SetInduction
<1>4. Len(fields) - k \in Nat /\ k + (Len(fields) - k) = Len(fields)
  OBVIOUS
<1>5. Len(fields) - k \in T
  BY <1>3, <1>4
<1>6. k + (Len(fields) - k) <= Len(fields) => a[k + (Len(fields) - k)] = a[k]
  BY <1>5 DEF T
<1> QED
  BY <1>4, <1>6

\* One path is followed by something in the other.
Followed(i, v, w, t) == Path(i, v) \in Seq(Nat) /\ Path(i, w) = Path(i, v) \o t

\* A path whose values are those of another one's first fields begins it.
LEMMA PathBegins ==
  ASSUME NEW i, NEW fields, i.fields = fields, Len(fields) \in Nat, NEW v, NEW w,
         NEW k \in 0..Len(fields),
         Numbers(fields, v), Numbers(fields, w), Agree(fields, v, w, k),
         Ends(fields, v, k)
  PROVE  \E t \in Seq(Nat) : Followed(i, v, w, t)
<1>1. PICK a : HasRows(a, fields, v) /\ Path(i, v) = a[Len(fields)]
  BY PathRows
<1>2. PICK b : HasRows(b, fields, w) /\ Path(i, w) = b[Len(fields)]
  BY PathRows
<1>3. a[k] = b[k]
  BY <1>1, <1>2, SameRows
<1>4. a[Len(fields)] = a[k]
  BY <1>1, EmptyRows
<1>5. \E t \in Seq(Nat) : b[Len(fields)] = b[k] \o t
  BY <1>2, LaterRows
<1>6. \A n \in 0..Len(fields) : a[n] \in Seq(Nat)
  BY <1>1, RowTypes
<1> QED
  BY <1>1, <1>2, <1>3, <1>4, <1>5, <1>6 DEF Followed

\* A path that differs from another one in its last field only.
LEMMA PathEnds ==
  ASSUME NEW i, NEW fields, i.fields = fields, NEW k \in Nat, Len(fields) = k + 1,
         NEW v, NEW w, Numbers(fields, v), Numbers(fields, w), Agree(fields, v, w, k),
         NEW f, f = fields[k + 1], Part(f, v) = << >>
  PROVE  Followed(i, v, w, Part(f, w))
<1>1. PICK a : HasRows(a, fields, v) /\ Path(i, v) = a[Len(fields)]
  BY PathRows
<1>2. PICK b : HasRows(b, fields, w) /\ Path(i, w) = b[Len(fields)]
  BY PathRows
<1>3. k \in 0..Len(fields) /\ k < Len(fields) /\ (k + 1)..Len(fields) = {k + 1}
  OBVIOUS
<1>4. a[k] = b[k]
  BY <1>1, <1>2, <1>3, SameRows
<1>5. Ends(fields, v, k)
  BY <1>3 DEF Ends
<1>6. a[Len(fields)] = a[k]
  BY <1>1, <1>3, <1>5, EmptyRows
<1>7. b[k + 1] = b[k] \o Part(fields[k + 1], w)
  BY <1>2, <1>3 DEF HasRows
<1>8. \A n \in 0..Len(fields) : a[n] \in Seq(Nat)
  BY <1>1, RowTypes
<1> QED
  BY <1>1, <1>2, <1>3, <1>4, <1>6, <1>7, <1>8 DEF Followed

-----------------------------------------------------------------------------
(* Plans, and the documents that satisfy the conditions they are made from.  *)

\* Documents are there or not.
DocsType == docs \in [Id -> Doc \cup {NoDoc}]

\* The condition with number m is the only one on its field, and the operator.
Only(w, m, f) == m \in DOMAIN w /\ w[m].field = f /\ \A n \in DOMAIN w : w[n].field = f => n = m

\* What a plan that can be trusted knows of the fields that it uses.
LEMMA PlanParts ==
  ASSUME NEW w \in Wheres, NEW p \in Plans(w), Trusted(p, w)
  PROVE  /\ p.index.fields \in Seq(Field \cup {PK}) /\ p.index.fields # << >>
         /\ \A f \in p.matched : \E m : Only(w, m, f) /\ w[m].op = "eq"
         /\ \A f \in p.seek : /\ f = p.index.fields[Len(p.index.fields)]
                              /\ \E m : Only(w, m, f) /\ w[m].op \in {"gt", "gte"}
<1>1. \A f \in Uses(p) : \A m \in DOMAIN w : w[m].field = f => Only(w, m, f)
  BY DEF Trusted, Only
<1>2. p.matched \subseteq Uses(p) /\ p.seek \subseteq Uses(p)
  BY DEF Uses
<1>3. CASE p = Plan(Primary, {PK}, {}, FALSE) /\ w # << >> /\ w[1].field = PK /\ w[1].op = "eq"
  <2>1. p.index = Primary /\ p.matched = {PK} /\ p.seek = {}
    BY <1>3 DEF Plan
  <2>2. 1 \in DOMAIN w
    <3>1. PICK n \in 0..MaxWhere : w \in [1..n -> Cond]
      BY DEF Wheres
    <3>2. n # 0
      BY <1>3, <3>1
    <3> QED
      BY <3>1, <3>2
  <2>3. Only(w, 1, PK)
    BY <1>1, <1>2, <1>3, <2>1, <2>2
  <2>4. <<PK>> \in Seq(Field \cup {PK}) /\ <<PK>> # << >>
    OBVIOUS
  <2> QED
    BY <1>3, <2>1, <2>3, <2>4, IndexAssumption
<1>4. CASE p = FullScan
  <2>1. p.index = Primary /\ p.matched = {} /\ p.seek = {}
    BY <1>4 DEF FullScan, Plan
  <2>2. <<PK>> \in Seq(Field \cup {PK}) /\ <<PK>> # << >>
    OBVIOUS
  <2> QED
    BY <2>1, <2>2, IndexAssumption
<1>5. ASSUME NEW i \in Index, p = PlanOf(i, w)
      PROVE  /\ p.index.fields \in Seq(Field \cup {PK}) /\ p.index.fields # << >>
             /\ \A f \in p.matched : \E m : Only(w, m, f) /\ w[m].op = "eq"
             /\ \A f \in p.seek : /\ f = p.index.fields[Len(p.index.fields)]
                                  /\ \E m : Only(w, m, f) /\ w[m].op \in {"gt", "gte"}
  <2>1. /\ p.index = i /\ p.matched = Matched(i, w)
        /\ p.seek = {i.fields[n] : n \in Sought(i, w)} /\ p.reverse = Backwards(i, w)
    BY <1>5 DEF PlanOf, Plan
  <2>2. i.fields \in Seq(Field \cup {PK}) /\ i.fields # << >>
    BY IndexAssumption
  <2>3. ASSUME NEW f \in p.matched PROVE \E m : Only(w, m, f) /\ w[m].op = "eq"
    <3>1. PICK m \in Positions(i, w) : w[m].op = "eq" /\ f = i.fields[m]
      BY <2>1, <2>3 DEF Matched
    <3>2. m \in DOMAIN w /\ w[m].field = f
      BY <3>1 DEF Positions
    <3>3. Only(w, m, f)
      BY <1>1, <1>2, <2>3, <3>2
    <3> QED
      BY <3>1, <3>3
  <2>4. ASSUME NEW f \in p.seek
        PROVE  /\ f = p.index.fields[Len(p.index.fields)]
               /\ \E m : Only(w, m, f) /\ w[m].op \in {"gt", "gte"}
    <3>1. PICK m \in Sought(i, w) : f = i.fields[m]
      BY <2>1, <2>4
    <3>2. m \in DOMAIN w /\ w[m].field = f /\ m = Len(i.fields)
          /\ w[m].op \in {"lt", "lte", "gt", "gte"}
      BY <3>1 DEF Sought, Positions
    <3>3. ~Backwards(i, w)
      BY <2>1 DEF Trusted
    <3>4. w[m].op \in {"gt", "gte"}
      BY <3>1, <3>2, <3>3 DEF Backwards
    <3>5. Only(w, m, f)
      BY <1>1, <1>2, <2>4, <3>2
    <3> QED
      BY <2>1, <3>1, <3>2, <3>4, <3>5
  <2> QED
    BY <2>1, <2>2, <2>3, <2>4
<1>6. \/ p = Plan(Primary, {PK}, {}, FALSE) /\ w # << >> /\ w[1].field = PK /\ w[1].op = "eq"
      \/ p = FullScan
      \/ \E i \in Index : p = PlanOf(i, w)
  BY DEF Plans
<1> QED
  BY <1>3, <1>4, <1>5, <1>6

\* What getMatchedFieldValues returns for a field with one condition.
LEMMA ValueOfOnly ==
  ASSUME NEW w \in Wheres, NEW f, NEW m, Only(w, m, f)
  PROVE  ValueOf(w, f) = Encode(w[m].value)
<1>1. PICK n \in 0..MaxWhere : w \in [1..n -> Cond]
  BY DEF Wheres
<1> DEFINE I == {j \in 1..Len(w) : w[j].field = f}
<1>2. I = {m} /\ m \in Nat
  BY <1>1 DEF Only
<1>3. \A x \in {m} : (\A y \in {m} : x >= y) <=> x = m
  BY <1>2
<1>4. SelectLastInSeq(w, LAMBDA c : c.field = f) = m
  <2>1. SelectLastInSeq(w, LAMBDA c : c.field = f) = IF I # {} THEN CHOOSE x \in I : \A y \in I : x >= y ELSE 0
    BY DEF SelectLastInSeq, Max
  <2> HIDE DEF I
  <2>2. (CHOOSE x \in {m} : \A y \in {m} : x >= y) = m
    BY <1>2
  <2> QED
    BY <1>2, <2>1, <2>2
<1> QED
  BY <1>4 DEF ValueOf

\* What is compared by its number is a number.
LEMMA AtIsNumber ==
  ASSUME DocsType, NEW id \in Id, docs[id] # NoDoc, NEW f \in Field \cup {PK},
         At(id, f) # Absent
  PROVE  At(id, f) \in Int /\ Encode(At(id, f)) \in Nat
<1>1. docs[id] \in Doc
  BY DEF DocsType
<1>2. f = PK \/ docs[id][f] \in Value \cup {Absent}
  BY <1>1 DEF Doc
<1>3. At(id, f) \in Int
  <2>1. CASE f = PK
    <3>1. At(id, f) = id /\ id \in Nat
      BY <2>1, TokenAssumption DEF At
    <3> QED
      BY <3>1
  <2>2. CASE f # PK
    <3>1. At(id, f) = docs[id][f]
      BY <2>2 DEF At
    <3>2. docs[id][f] \in Value
      BY <1>2, <2>2, <3>1
    <3> QED
      BY <3>1, <3>2, TokenAssumption
  <2> QED
    BY <2>1, <2>2
<1> QED
  BY <1>3 DEF Encode

\* A document that satisfies the conditions has the values matched, and values
\* that are no less than those sought.
LEMMA ValuesOfFound ==
  ASSUME DocsType, NEW w \in Wheres, NEW p \in Plans(w), Trusted(p, w),
         NEW id \in Id, docs[id] # NoDoc, Passes(id, w)
  PROVE  /\ \A f \in p.matched : At(id, f) # Absent /\ ValueOf(w, f) = Encode(At(id, f))
         /\ \A f \in p.seek : /\ At(id, f) # Absent /\ ValueOf(w, f) \in Nat
                              /\ ValueOf(w, f) <= Encode(At(id, f))
<1>1. /\ \A f \in p.matched : \E m : Only(w, m, f) /\ w[m].op = "eq"
      /\ \A f \in p.seek : \E m : Only(w, m, f) /\ w[m].op \in {"gt", "gte"}
  BY PlanParts
<1>2. \A m \in DOMAIN w : w[m] \in Cond
  BY DEF Wheres
<1>3. ASSUME NEW f \in p.matched
      PROVE  At(id, f) # Absent /\ ValueOf(w, f) = Encode(At(id, f))
  <2>1. PICK m : Only(w, m, f) /\ w[m].op = "eq"
    BY <1>1, <1>3
  <2>2. m \in DOMAIN w /\ w[m].field = f
    BY <2>1 DEF Only
  <2>3. At(id, f) = w[m].value
    BY <2>1, <2>2 DEF Passes
  <2>4. w[m].value \in Value \cup Id
    BY <1>2, <2>2 DEF Cond
  <2>5. ValueOf(w, f) = Encode(w[m].value)
    BY <2>1, ValueOfOnly
  <2> QED
    BY <2>3, <2>4, <2>5, TokenAssumption
<1>4. ASSUME NEW f \in p.seek
      PROVE  /\ At(id, f) # Absent /\ ValueOf(w, f) \in Nat
             /\ ValueOf(w, f) <= Encode(At(id, f))
  <2>1. PICK m : Only(w, m, f) /\ w[m].op \in {"gt", "gte"}
    BY <1>1, <1>4
  <2>2. m \in DOMAIN w /\ w[m].field = f
    BY <2>1 DEF Only
  <2>3. PICK v : v = w[m].value
    OBVIOUS
  <2>4. f \in Field /\ v \in Int
    <3>1. w[m] \in Cond
      BY <1>2, <2>2
    <3>2. w[m].field \in Field /\ w[m].value \in Value
      BY <2>1, <3>1 DEF Cond
    <3> QED
      BY <2>2, <2>3, <3>2, TokenAssumption
  <2>5. v > 0 \/ (w[m].op = "gt" /\ v = 0)
    BY <1>4, <2>2, <2>3 DEF Trusted
  <2>6. (w[m].op = "gt" => Num(id, f) > v) /\ (w[m].op = "gte" => Num(id, f) >= v)
    BY <2>2, <2>3 DEF Passes
  <2>7. At(id, f) # Absent
    BY <2>1, <2>4, <2>5, <2>6 DEF Num
  <2>8. PICK a \in Int : a = At(id, f)
    BY <2>4, <2>7, AtIsNumber
  <2>9. Num(id, f) = a
    BY <2>7, <2>8 DEF Num
  <2>10. v >= 0 /\ a >= v
    BY <2>1, <2>4, <2>5, <2>6, <2>9
  <2>11. Encode(v) = v /\ Encode(a) = a
    BY <2>4, <2>10 DEF Encode
  <2>12. ValueOf(w, f) = v
    BY <2>1, <2>3, <2>11, ValueOfOnly
  <2> QED
    BY <2>4, <2>7, <2>8, <2>10, <2>11, <2>12
<1> QED
  BY <1>3, <1>4

-----------------------------------------------------------------------------
(* The key of such a document is among those that the iterator runs into.    *)

\* Nothing is given a value: the path is empty.
LEMMA PathOfNothing ==
  ASSUME NEW i, NEW fields, i.fields = fields, Len(fields) \in Nat, NEW v,
         Ends(fields, v, 0)
  PROVE  Path(i, v) = << >>
<1>1. PICK a : HasRows(a, fields, v) /\ Path(i, v) = a[Len(fields)]
  BY PathRows
<1>2. Numbers(fields, v)
  <2>1. (0 + 1)..Len(fields) = 1..Len(fields)
    OBVIOUS
  <2>2. << >> \in Seq(Nat)
    BY Nothing
  <2>3. \A n \in 1..Len(fields) : Part(fields[n], v) = << >>
    BY <2>1 DEF Ends
  <2> QED
    BY <2>2, <2>3 DEF Numbers
<1>3. a[Len(fields)] = a[0]
  BY <1>1, <1>2, EmptyRows
<1> QED
  BY <1>1, <1>3 DEF HasRows

\* The values of a prefix, of a starting point and of a key.
MatchedValues(p, w) == [f \in p.matched |-> ValueOf(w, f)]
SoughtValues(p, w) == [f \in p.seek |-> ValueOf(w, f)]
ValuesOf(id) == [f \in {g \in Field \cup {PK} : At(id, g) # Absent} |-> Encode(At(id, f))]

\* They are numbers, and those matched are those of the document.
LEMMA Tokens ==
  ASSUME DocsType, NEW w \in Wheres, NEW p \in Plans(w), Trusted(p, w),
         NEW id \in Id, docs[id] # NoDoc, Passes(id, w), NEW f \in Field \cup {PK}
  PROVE  /\ f \in Nat
         /\ Part(f, MatchedValues(p, w)) \in Seq(Nat)
         /\ Part(f, SoughtValues(p, w)) \in Seq(Nat)
         /\ Part(f, ValuesOf(id)) \in Seq(Nat)
         /\ f \in p.matched => Part(f, MatchedValues(p, w)) = Part(f, ValuesOf(id))
         /\ f \notin p.matched => Part(f, MatchedValues(p, w)) = << >>
         /\ f \notin p.seek => Part(f, SoughtValues(p, w)) = << >>
         /\ f \in p.seek => \E v \in Nat, a \in Nat :
              /\ v <= a
              /\ Part(f, SoughtValues(p, w)) = <<f, v>>
              /\ Part(f, ValuesOf(id)) = <<f, a>>
<1>1. f \in Nat
  BY TokenAssumption
<1>2. \A a \in Nat : <<f, a>> \in Seq(Nat)
  BY <1>1
<1>3. << >> \in Seq(Nat)
  BY Nothing
<1>4. At(id, f) # Absent => Encode(At(id, f)) \in Nat
  BY AtIsNumber
<1>5. Part(f, ValuesOf(id)) = IF At(id, f) # Absent THEN <<f, Encode(At(id, f))>> ELSE << >>
  BY DEF Part, ValuesOf
<1>6. Part(f, MatchedValues(p, w)) = IF f \in p.matched THEN <<f, ValueOf(w, f)>> ELSE << >>
  BY DEF Part, MatchedValues
<1>7. Part(f, SoughtValues(p, w)) = IF f \in p.seek THEN <<f, ValueOf(w, f)>> ELSE << >>
  BY DEF Part, SoughtValues
<1>8. f \in p.matched => At(id, f) # Absent /\ ValueOf(w, f) = Encode(At(id, f))
  BY ValuesOfFound
<1>9. f \in p.seek => /\ At(id, f) # Absent /\ ValueOf(w, f) \in Nat
                      /\ ValueOf(w, f) <= Encode(At(id, f))
  BY ValuesOfFound
<1>10. Part(f, ValuesOf(id)) \in Seq(Nat)
  BY <1>2, <1>3, <1>4, <1>5
<1>11. Part(f, MatchedValues(p, w)) \in Seq(Nat)
  BY <1>2, <1>3, <1>4, <1>6, <1>8
<1>12. Part(f, SoughtValues(p, w)) \in Seq(Nat)
  BY <1>2, <1>3, <1>7, <1>9
<1>13. f \in p.matched => Part(f, MatchedValues(p, w)) = Part(f, ValuesOf(id))
  BY <1>5, <1>6, <1>8
<1>14. ASSUME f \in p.seek
       PROVE  \E v \in Nat, a \in Nat : /\ v <= a
                                        /\ Part(f, SoughtValues(p, w)) = <<f, v>>
                                        /\ Part(f, ValuesOf(id)) = <<f, a>>
  <2>1. Part(f, SoughtValues(p, w)) = <<f, ValueOf(w, f)>>
    BY <1>7, <1>14
  <2>2. Part(f, ValuesOf(id)) = <<f, Encode(At(id, f))>>
    BY <1>5, <1>9, <1>14
  <2>3. Encode(At(id, f)) \in Nat /\ ValueOf(w, f) \in Nat /\ ValueOf(w, f) <= Encode(At(id, f))
    BY <1>4, <1>9, <1>14
  <2> QED
    BY <2>1, <2>2, <2>3
<1> QED
  BY <1>1, <1>6, <1>7, <1>10, <1>11, <1>12, <1>13, <1>14

\* Nothing sought: the key begins with the prefix, where the iterator starts.
LEMMA KeyAfterPrefix ==
  ASSUME DocsType, NEW w \in Wheres, NEW p \in Plans(w), Trusted(p, w), p.seek = {},
         NEW id \in Id, docs[id] # NoDoc, Passes(id, w)
  PROVE  IsPrefix(Prefix(p, w), Key(p.index, id)) /\ UpTo(Start(p, w), Key(p.index, id))
<1>1. PICK i, fields : i = p.index /\ i.fields = fields
  OBVIOUS
<1>2. PICK v, u, s : v = MatchedValues(p, w) /\ u = ValuesOf(id) /\ s = SoughtValues(p, w)
  OBVIOUS
<1>3. fields \in Seq(Field \cup {PK})
  BY <1>1, PlanParts
<1>4. Len(fields) \in Nat /\ \A n \in 1..Len(fields) : fields[n] \in Field \cup {PK}
  BY <1>3
<1>5. Uses(p) = p.matched
  BY DEF Uses
<1>6. PICK n \in 0..Len(fields) : p.matched = {fields[m] : m \in 1..n}
  BY <1>1, <1>5 DEF Trusted
<1>7. \A l, m \in 1..Len(fields) : fields[l] = fields[m] => l = m
  BY <1>1, <1>3 DEF Trusted
<1>8. Numbers(fields, v) /\ Numbers(fields, u)
  BY <1>2, <1>4, Tokens DEF Numbers
<1>9. Agree(fields, v, u, n)
  <2> SUFFICES ASSUME NEW m \in 1..n PROVE Part(fields[m], v) = Part(fields[m], u)
    BY DEF Agree
  <2>1. fields[m] \in Field \cup {PK} /\ fields[m] \in p.matched
    BY <1>4, <1>6
  <2> QED
    BY <1>2, <2>1, Tokens
<1>10. Ends(fields, v, n)
  <2> SUFFICES ASSUME NEW m \in (n + 1)..Len(fields) PROVE Part(fields[m], v) = << >>
    BY DEF Ends
  <2>1. m \in 1..Len(fields) /\ \A l \in 1..n : l \in 1..Len(fields) /\ l # m
    BY <1>4
  <2>2. fields[m] \notin p.matched
    BY <1>6, <1>7, <2>1
  <2>3. fields[m] \in Field \cup {PK}
    BY <1>4, <2>1
  <2> QED
    BY <1>2, <2>2, <2>3, Tokens
<1>11. Ends(fields, s, 0)
  <2> SUFFICES ASSUME NEW m \in (0 + 1)..Len(fields) PROVE Part(fields[m], s) = << >>
    BY DEF Ends
  <2>1. fields[m] \in Field \cup {PK}
    BY <1>4
  <2> QED
    BY <1>2, <2>1, Tokens
<1>12. Path(i, s) = << >>
  BY <1>1, <1>4, <1>11, PathOfNothing
<1>13. PICK x, y : x = Path(i, v) /\ y = Path(i, u)
  OBVIOUS
<1>14. x \in Seq(Nat) /\ \E t \in Seq(Nat) : y = x \o t
  <2>1. PICK t \in Seq(Nat) : Followed(i, v, u, t)
    BY <1>1, <1>4, <1>8, <1>9, <1>10, PathBegins
  <2> QED
    BY <1>13, <2>1 DEF Followed
<1>15. PICK t \in Seq(Nat) : y = x \o t
  BY <1>14
<1>16. Prefix(p, w) = x /\ Start(p, w) = x \o << >> /\ Key(i, id) = y \o <<id>>
  BY <1>1, <1>2, <1>12, <1>13 DEF Prefix, Start, Key, MatchedValues, SoughtValues, ValuesOf
<1>17. <<id>> \in Seq(Nat)
  BY TokenAssumption
<1>18. (x \o t) \o <<id>> = x \o (t \o <<id>>)
  BY <1>14, <1>17, RowsAssociate
<1>19. t \o <<id>> \in Seq(Nat) /\ x \o << >> = x
  BY <1>14, <1>17, Nothing
<1>20. IsPrefix(x, x \o (t \o <<id>>)) /\ UpTo(x, x \o (t \o <<id>>))
  BY <1>14, <1>19, BeginsWith
<1> QED
  BY <1>1, <1>15, <1>16, <1>18, <1>19, <1>20

\* The last field sought: the key has the prefix, and no less than the value.
LEMMA KeyAfterValue ==
  ASSUME DocsType, NEW w \in Wheres, NEW p \in Plans(w), Trusted(p, w), p.seek # {},
         NEW id \in Id, docs[id] # NoDoc, Passes(id, w)
  PROVE  IsPrefix(Prefix(p, w), Key(p.index, id)) /\ UpTo(Start(p, w), Key(p.index, id))
<1>1. PICK i, fields : i = p.index /\ i.fields = fields
  OBVIOUS
<1>2. PICK v, u, s : v = MatchedValues(p, w) /\ u = ValuesOf(id) /\ s = SoughtValues(p, w)
  OBVIOUS
<1>3. /\ fields \in Seq(Field \cup {PK}) /\ fields # << >>
      /\ \A f \in p.matched : \E m : Only(w, m, f) /\ w[m].op = "eq"
      /\ \A f \in p.seek : /\ f = fields[Len(fields)]
                           /\ \E m : Only(w, m, f) /\ w[m].op \in {"gt", "gte"}
  BY <1>1, PlanParts
<1>4. PICK N \in Nat : N = Len(fields)
  BY <1>3
<1>5. N # 0 /\ \A n \in 1..N : fields[n] \in Field \cup {PK}
  BY <1>3, <1>4
<1>6. PICK last : last = fields[N]
  OBVIOUS
<1>7. p.seek = {last} /\ last \in Field \cup {PK}
  BY <1>3, <1>4, <1>5, <1>6
<1>8. last \notin p.matched
  BY <1>3, <1>7 DEF Only
<1>9. \A l, m \in 1..N : fields[l] = fields[m] => l = m
  BY <1>1, <1>3, <1>4 DEF Trusted
<1>10. \A m \in 1..(N - 1) : fields[m] \in p.matched /\ fields[m] \in Field \cup {PK}
         /\ fields[m] # last
  <2>1. PICK n \in 0..N : Uses(p) = {fields[m] : m \in 1..n}
    BY <1>1, <1>4 DEF Trusted
  <2>2. last \in Uses(p)
    BY <1>7 DEF Uses
  <2>3. \E m \in 1..n : fields[m] = fields[N]
    BY <1>6, <2>1, <2>2
  <2>4. n = N
    BY <1>5, <1>9, <2>3
  <2> SUFFICES ASSUME NEW m \in 1..(N - 1)
               PROVE  fields[m] \in p.matched /\ fields[m] \in Field \cup {PK} /\ fields[m] # last
    OBVIOUS
  <2>5. m \in 1..N /\ m # N /\ N \in 1..N
    BY <1>5
  <2>6. fields[m] # last
    BY <1>6, <1>9, <2>5
  <2>7. fields[m] \in Uses(p)
    BY <2>1, <2>4, <2>5
  <2> QED
    BY <1>5, <1>7, <2>5, <2>6, <2>7 DEF Uses
<1>11. PICK e : e = [f \in {} |-> 0]
  OBVIOUS
<1>12. \A f : Part(f, e) = << >>
  BY <1>11 DEF Part
<1>13. Numbers(fields, v) /\ Numbers(fields, u) /\ Numbers(fields, s) /\ Numbers(fields, e)
  BY <1>2, <1>4, <1>5, <1>12, Tokens, Nothing DEF Numbers
<1>14. PICK k \in Nat : k = N - 1 /\ Len(fields) = k + 1 /\ last = fields[k + 1]
  BY <1>4, <1>5, <1>6
<1>15. Agree(fields, v, u, k) /\ Agree(fields, e, s, k)
  <2> SUFFICES ASSUME NEW m \in 1..k
               PROVE  /\ Part(fields[m], v) = Part(fields[m], u)
                      /\ Part(fields[m], e) = Part(fields[m], s)
    BY DEF Agree
  <2>1. fields[m] \in p.matched /\ fields[m] \in Field \cup {PK} /\ fields[m] \notin p.seek
    BY <1>7, <1>10, <1>14
  <2> QED
    BY <1>2, <1>12, <2>1, Tokens
<1>16. PICK c \in Nat, a \in Nat : /\ c <= a /\ Part(last, s) = <<last, c>>
                                   /\ Part(last, u) = <<last, a>>
  BY <1>2, <1>7, Tokens
<1>17. Part(last, v) = << >> /\ last \in Nat
  BY <1>2, <1>7, <1>8, Tokens
<1>18. PICK x : x = Path(i, v)
  OBVIOUS
<1>19. x \in Seq(Nat) /\ Path(i, u) = x \o <<last, a>>
  <2>1. Followed(i, v, u, Part(last, u))
    BY <1>1, <1>13, <1>15, <1>17, <1>14, PathEnds
  <2> QED
    BY <1>16, <1>18, <2>1 DEF Followed
<1>20. Path(i, s) = <<last, c>>
  <2>1. Followed(i, e, s, Part(last, s))
    BY <1>1, <1>12, <1>13, <1>15, <1>14, PathEnds
  <2>2. Path(i, e) = << >>
    BY <1>1, <1>4, <1>12, PathOfNothing DEF Ends
  <2>3. <<last, c>> \in Seq(Nat)
    BY <1>16, <1>17
  <2> QED
    BY <1>16, <2>1, <2>2, <2>3, Nothing DEF Followed
<1>21. /\ Prefix(p, w) = x /\ Start(p, w) = x \o <<last, c>>
       /\ Key(i, id) = (x \o <<last, a>>) \o <<id>>
  BY <1>1, <1>2, <1>18, <1>19, <1>20
     DEF Prefix, Start, Key, MatchedValues, SoughtValues, ValuesOf
<1>22. <<id>> \in Seq(Nat) /\ <<last, a>> \in Seq(Nat) /\ <<last, c>> \in Seq(Nat)
  BY <1>16, <1>17, TokenAssumption
<1>23. IsPrefix(x, (x \o <<last, a>>) \o <<id>>)
  <2>1. (x \o <<last, a>>) \o <<id>> = x \o (<<last, a>> \o <<id>>)
    BY <1>19, <1>22, RowsAssociate
  <2>2. <<last, a>> \o <<id>> \in Seq(Nat)
    BY <1>22
  <2> QED
    BY <1>19, <2>1, <2>2, BeginsWith
<1>24. UpTo(x \o <<last, c>>, (x \o <<last, a>>) \o <<id>>)
  <2>1. CASE c = a
    <3>1. x \o <<last, a>> \in Seq(Nat)
      BY <1>19, <1>22
    <3> QED
      BY <1>22, <2>1, <3>1, BeginsWith
  <2>2. CASE c < a
    BY <1>17, <1>19, <1>22, <2>2, GreaterAfter
  <2> QED
    BY <1>16, <2>1, <2>2
<1> QED
  BY <1>1, <1>21, <1>23, <1>24

-----------------------------------------------------------------------------
(* The filter of groups, turn by turn.                                       *)

Whole(row) == [array |-> row, len |-> Len(row), panic |-> FALSE]

\* u is what Having computes: the rows after each turn.
IsFilter(u, m, row, passing) ==
  u = [i \in 0..m |-> IF i = 0 THEN Whole(row) ELSE Turn(u[i - 1], i, passing)]

\* One more turn can be added.
LEMMA FilterGrows ==
  ASSUME NEW row, NEW passing, NEW m \in Nat, NEW u, IsFilter(u, m, row, passing)
  PROVE  \E w : IsFilter(w, m + 1, row, passing)
<1> DEFINE new == Turn(u[m], m + 1, passing)
           w == [i \in 0..(m + 1) |-> IF i = m + 1 THEN new ELSE u[i]]
<1>1. \A i \in 0..m : w[i] = u[i]
  OBVIOUS
<1>2. \A i \in 0..m : u[i] = IF i = 0 THEN Whole(row) ELSE Turn(u[i - 1], i, passing)
  BY DEF IsFilter
<1>3. w[m + 1] = new
  OBVIOUS
<1>4. ASSUME NEW i \in 0..(m + 1)
      PROVE  w[i] = IF i = 0 THEN Whole(row) ELSE Turn(w[i - 1], i, passing)
  <2>1. CASE i = m + 1
    <3>1. i # 0 /\ i - 1 = m /\ m \in 0..m
      BY <2>1
    <3>2. w[i - 1] = u[m]
      BY <1>1, <3>1
    <3> HIDE DEF w
    <3> QED
      BY <1>3, <2>1, <3>1, <3>2
  <2>2. CASE i \in 0..m /\ i # 0
    <3>1. i - 1 \in 0..m
      BY <2>2
    <3>2. w[i] = u[i] /\ w[i - 1] = u[i - 1]
      BY <1>1, <2>2, <3>1
    <3> HIDE DEF w
    <3> QED
      BY <1>2, <2>2, <3>2
  <2>3. CASE i = 0
    <3>1. w[0] = u[0] /\ u[0] = Whole(row)
      BY <1>1, <1>2
    <3> HIDE DEF w
    <3> QED
      BY <2>3, <3>1
  <2> QED
    BY <2>1, <2>2, <2>3
<1>5. DOMAIN w = 0..(m + 1) /\ w = [i \in 0..(m + 1) |-> w[i]]
  OBVIOUS
<1> HIDE DEF w
<1>6. w = [i \in 0..(m + 1) |-> IF i = 0 THEN Whole(row) ELSE Turn(w[i - 1], i, passing)]
  BY <1>4, <1>5
<1> QED
  BY <1>6 DEF IsFilter

\* So any number can.
LEMMA FilterExists ==
  ASSUME NEW row, NEW passing, NEW m \in Nat
  PROVE  \E u : IsFilter(u, m, row, passing)
<1> DEFINE T == {n \in Nat : \E u : IsFilter(u, n, row, passing)}
<1>1. 0 \in T
  <2>1. IsFilter([i \in 0..0 |-> Whole(row)], 0, row, passing)
    BY DEF IsFilter
  <2> QED
    BY <2>1
<1>2. \A n \in Nat : n \in T => n + 1 \in T
  BY FilterGrows
<1> HIDE DEF T
<1>3. Nat \subseteq T
  BY <1>1, <1>2, SetInduction
<1> QED
  BY <1>3 DEF T

\* The rows after each turn.
HasTurns(u, row, n, passing) ==
  /\ u[0] = Whole(row)
  /\ \A k \in Nat : k < n => u[k + 1] = Turn(u[k], k + 1, passing)

\* Having is the last of them: its function exists.
LEMMA HavingTurns ==
  ASSUME NEW row, NEW passing, NEW n \in Nat, n = Len(row)
  PROVE  \E u : HasTurns(u, row, n, passing) /\ Having(row, passing) = u[n]
<1> DEFINE u == CHOOSE f : IsFilter(f, n, row, passing)
<1>1. IsFilter(u, n, row, passing)
  <2>1. \E f : IsFilter(f, n, row, passing)
    BY FilterExists
  <2> QED
    BY <2>1
<1>2. Having(row, passing) = u[n]
  BY DEF Having, IsFilter, Whole
<1> HIDE DEF u
<1>3. \A k \in 0..n : u[k] = IF k = 0 THEN Whole(row) ELSE Turn(u[k - 1], k, passing)
  BY <1>1 DEF IsFilter
<1>4. u[0] = Whole(row)
  BY <1>3
<1>5. ASSUME NEW k \in Nat, k < n
      PROVE  u[k + 1] = Turn(u[k], k + 1, passing)
  <2>1. k + 1 \in 0..n /\ k + 1 # 0 /\ (k + 1) - 1 = k
    BY <1>5
  <2>2. u[k + 1] = Turn(u[(k + 1) - 1], k + 1, passing)
    BY <1>3, <2>1
  <2> QED
    BY <2>1, <2>2
<1> QED
  BY <1>2, <1>4, <1>5 DEF HasTurns

\* What is left is in order, and all that do not pass are.
InOrder(rows) == \A l, m \in 1..rows.len : l < m => rows.array[l] < rows.array[m]
KeepsFailing(rows, n, passing) ==
  \A e \in (1..n) \ passing : \E m \in 1..rows.len : rows.array[m] = e
Rows(n) == [array : [1..n -> 1..n], len : 0..n, panic : BOOLEAN]
Orderly(rows, n, passing) ==
  rows \in Rows(n) /\ InOrder(rows) /\ KeepsFailing(rows, n, passing)

\* Removing the element at i moves the later ones down.
LEMMA TurnIsOrderly ==
  ASSUME NEW n \in Nat, NEW passing, NEW rows, Orderly(rows, n, passing), NEW i \in 1..n
  PROVE  Orderly(Turn(rows, i, passing), n, passing)
<1>1. rows \in Rows(n) /\ InOrder(rows) /\ KeepsFailing(rows, n, passing)
  BY DEF Orderly
<1>2. CASE rows.panic \/ rows.array[i] \notin passing
  BY <1>1, <1>2 DEF Turn, Orderly
<1>3. CASE ~rows.panic /\ rows.array[i] \in passing /\ i > rows.len
  <2>1. PICK next : next = [rows EXCEPT !.panic = TRUE]
    OBVIOUS
  <2>2. Turn(rows, i, passing) = next
    BY <1>3, <2>1 DEF Turn, Drop
  <2>3. next \in Rows(n) /\ next.array = rows.array /\ next.len = rows.len
    BY <1>1, <2>1 DEF Rows
  <2>4. InOrder(next) /\ KeepsFailing(next, n, passing)
    BY <1>1, <2>3 DEF InOrder, KeepsFailing
  <2> QED
    BY <2>2, <2>3, <2>4 DEF Orderly
<1>4. CASE ~rows.panic /\ rows.array[i] \in passing /\ ~(i > rows.len)
  <2>1. PICK a, len : a = rows.array /\ len = rows.len
    OBVIOUS
  <2>2. a \in [1..n -> 1..n] /\ len \in 0..n /\ i <= len /\ a[i] \in passing /\ len \in Nat
    <3>1. rows.array \in [1..n -> 1..n] /\ rows.len \in 0..n
      BY <1>1 DEF Rows
    <3>2. a[i] \in passing /\ ~(i > len)
      BY <1>4, <2>1
    <3>3. a \in [1..n -> 1..n] /\ len \in 0..n
      BY <2>1, <3>1
    <3> QED
      BY <3>2, <3>3
  <2>3. PICK b : b = [m \in 1..n |-> IF i <= m /\ m < len THEN a[m + 1] ELSE a[m]]
    OBVIOUS
  <2>4. b \in [1..n -> 1..n]
    BY <2>2, <2>3
  <2>5. PICK next : next = Turn(rows, i, passing)
    OBVIOUS
  <2>6. next \in Rows(n) /\ next.array = b /\ next.len = len - 1
    <3>1. next = [rows EXCEPT !.len = @ - 1,
                              !.array = [m \in DOMAIN @ |-> IF i <= m /\ m < rows.len THEN @[m + 1] ELSE @[m]]]
      BY <1>4, <2>5 DEF Turn, Drop
    <3>2. DOMAIN a = 1..n
      BY <2>2
    <3>3. next = [rows EXCEPT !.len = len - 1, !.array = b]
      BY <1>1, <2>1, <2>3, <3>1, <3>2 DEF Rows
    <3>4. len - 1 \in 0..n
      BY <2>2
    <3> QED
      BY <1>1, <2>4, <3>3, <3>4 DEF Rows
  <2>7. \A l, m \in 1..len : l < m => a[l] < a[m]
    BY <1>1, <2>1 DEF InOrder
  <2>8. InOrder(next)
    <3> SUFFICES ASSUME NEW l \in 1..(len - 1), NEW m \in 1..(len - 1), l < m
                 PROVE  b[l] < b[m]
      BY <2>6 DEF InOrder
    <3>1. l \in 1..n /\ m \in 1..n /\ l < len /\ m < len
      BY <2>2
    <3>2. b[l] = (IF i <= l THEN a[l + 1] ELSE a[l]) /\ b[m] = IF i <= m THEN a[m + 1] ELSE a[m]
      BY <2>3, <3>1
    <3>3. l \in 1..len /\ l + 1 \in 1..len /\ m \in 1..len /\ m + 1 \in 1..len
      BY <2>2
    <3>4. a[l] < a[m + 1] /\ a[l + 1] < a[m + 1] /\ a[l] < a[m]
      BY <2>7, <3>3
    <3>5. i <= l => i <= m
      OBVIOUS
    <3> QED
      BY <3>2, <3>4, <3>5
  <2>9. KeepsFailing(next, n, passing)
    <3> SUFFICES ASSUME NEW e \in (1..n) \ passing PROVE \E m \in 1..(len - 1) : b[m] = e
      BY <2>6 DEF KeepsFailing
    <3>1. PICK m \in 1..len : a[m] = e
      BY <1>1, <2>1 DEF KeepsFailing
    <3>2. m # i
      BY <2>2, <3>1
    <3>3. CASE m < i
      <4>1. m \in 1..(len - 1) /\ m \in 1..n /\ ~(i <= m)
        BY <2>2, <3>3
      <4>2. b[m] = a[m]
        BY <2>3, <4>1
      <4> QED
        BY <3>1, <4>1, <4>2
    <3>4. CASE m > i
      <4>1. PICK k \in 1..(len - 1) : k = m - 1 /\ i <= k /\ k < len /\ k \in 1..n /\ k + 1 = m
        BY <2>2, <3>4
      <4>2. b[k] = a[m]
        BY <2>3, <4>1
      <4> QED
        BY <3>1, <4>1, <4>2
    <3> QED
      BY <2>2, <3>2, <3>3, <3>4
  <2> QED
    BY <2>5, <2>6, <2>8, <2>9 DEF Orderly
<1> QED
  BY <1>2, <1>3, <1>4

\* So it remains, whatever passes.
LEMMA HavingIsOrderly ==
  ASSUME NEW n \in Nat, NEW row, row = [i \in 1..n |-> i], NEW passing,
         NEW u, HasTurns(u, row, n, passing)
  PROVE  \A k \in 0..n : Orderly(u[k], n, passing)
<1> DEFINE T == {k \in Nat : k <= n => Orderly(u[k], n, passing)}
<1>1. 0 \in T
  <2>1. Len(row) = n /\ row \in [1..n -> 1..n]
    OBVIOUS
  <2>2. u[0] = [array |-> row, len |-> n, panic |-> FALSE]
    BY <2>1 DEF HasTurns, Whole
  <2>3. Orderly(u[0], n, passing)
    BY <2>1, <2>2 DEF Orderly, Rows, InOrder, KeepsFailing
  <2> QED
    BY <2>3
<1>2. ASSUME NEW k \in Nat, k \in T PROVE k + 1 \in T
  <2> SUFFICES ASSUME k + 1 <= n PROVE Orderly(u[k + 1], n, passing)
    OBVIOUS
  <2>1. k < n /\ k + 1 \in 1..n /\ Orderly(u[k], n, passing)
    BY <1>2
  <2>2. u[k + 1] = Turn(u[k], k + 1, passing)
    BY <2>1 DEF HasTurns
  <2>3. PICK i \in 1..n : i = k + 1
    BY <2>1
  <2>4. Orderly(Turn(u[k], i, passing), n, passing)
    BY <2>1, TurnIsOrderly
  <2> QED
    BY <2>2, <2>3, <2>4
<1> HIDE DEF T
<1>3. Nat \subseteq T
  BY <1>1, <1>2, SetInduction
<1> QED
  BY <1>3 DEF T

\* Nothing removed yet, and only e.
Untouched(rows, n) ==
  ~rows.panic /\ rows.len = n /\ \A m \in 1..n : rows.array[m] = m
Without(rows, n, e) ==
  /\ ~rows.panic /\ rows.len = n - 1
  /\ \A m \in 1..n : rows.array[m] = IF e <= m /\ m < n THEN m + 1 ELSE m

\* If at most one row passes, it alone is removed when its turn comes.
LEMMA HavingOfOne ==
  ASSUME NEW n \in Nat, NEW row, row = [i \in 1..n |-> i], NEW e \in Nat, NEW passing,
         passing \subseteq {e}, NEW u, HasTurns(u, row, n, passing)
  PROVE  \A k \in 0..n : IF e \in passing /\ e \in 1..k THEN Without(u[k], n, e)
                         ELSE Untouched(u[k], n)
<1> DEFINE At1(k) == IF e \in passing /\ e \in 1..k THEN Without(u[k], n, e) ELSE Untouched(u[k], n)
           T == {k \in Nat : k <= n => At1(k)}
<1>1. 0 \in T
  <2>1. Len(row) = n /\ ~(e \in 1..0)
    OBVIOUS
  <2>2. u[0] = [array |-> row, len |-> n, panic |-> FALSE]
    BY <2>1 DEF HasTurns, Whole
  <2>3. Untouched(u[0], n)
    BY <2>2 DEF Untouched
  <2> QED
    BY <2>1, <2>3
<1>2. ASSUME NEW k \in Nat, k \in T PROVE k + 1 \in T
  <2> SUFFICES ASSUME k + 1 <= n PROVE At1(k + 1)
    OBVIOUS
  <2>1. k < n /\ At1(k) /\ k \in 0..n
    BY <1>2
  <2>2. PICK i \in 1..n : i = k + 1
    OBVIOUS
  <2>3. PICK rows, next : rows = u[k] /\ next = u[i]
    OBVIOUS
  <2>4. next = Turn(rows, i, passing)
    BY <2>1, <2>2, <2>3 DEF HasTurns
  <2>5. \A l \in 0..n : Orderly(u[l], n, passing)
    BY HavingIsOrderly
  <2>6. rows \in Rows(n)
    BY <2>1, <2>3, <2>5 DEF Orderly
  <2>7. CASE e \in passing /\ e \in 1..k
    <3>1. Without(rows, n, e) /\ e < i /\ e \in 1..i
      BY <2>1, <2>2, <2>3, <2>7
    <3>2. rows.array[i] # e
      BY <3>1 DEF Without
    <3>3. next = rows
      BY <2>4, <3>2 DEF Turn
    <3> QED
      BY <2>2, <2>3, <2>7, <3>1, <3>3
  <2>8. CASE ~(e \in passing /\ e \in 1..k) /\ i \notin passing
    <3>1. Untouched(rows, n)
      BY <2>1, <2>3, <2>8
    <3>2. rows.array[i] = i
      BY <3>1 DEF Untouched
    <3>3. next = rows
      BY <2>4, <2>8, <3>2 DEF Turn
    <3>4. ~(e \in passing /\ e \in 1..i)
      BY <2>2, <2>8
    <3> QED
      BY <2>2, <2>3, <3>1, <3>3, <3>4
  <2>9. CASE ~(e \in passing /\ e \in 1..k) /\ i \in passing
    <3>1. Untouched(rows, n) /\ i = e /\ e \in passing /\ e \in 1..i
      BY <2>1, <2>3, <2>9
    <3>2. ~rows.panic /\ rows.array[i] = i /\ rows.len = n /\ i <= n
      BY <3>1 DEF Untouched
    <3>3. next = [rows EXCEPT !.len = @ - 1,
                              !.array = [m \in DOMAIN @ |-> IF i <= m /\ m < rows.len THEN @[m + 1] ELSE @[m]]]
      BY <2>4, <2>9, <3>2 DEF Turn, Drop
    <3>4. /\ ~next.panic /\ next.len = n - 1
          /\ next.array = [m \in 1..n |-> IF i <= m /\ m < n THEN rows.array[m + 1] ELSE rows.array[m]]
      BY <2>6, <3>2, <3>3 DEF Rows
    <3>5. \A m \in 1..n : next.array[m] = IF e <= m /\ m < n THEN m + 1 ELSE m
      BY <3>1, <3>4 DEF Untouched
    <3>6. Without(next, n, e)
      BY <3>4, <3>5 DEF Without
    <3> QED
      BY <2>2, <2>3, <3>1, <3>6
  <2> QED
    BY <2>7, <2>8, <2>9
<1> HIDE DEF T
<1>3. Nat \subseteq T
  BY <1>1, <1>2, SetInduction
<1> QED
  BY <1>3 DEF T

\* What is left of the rows, as a set and as a sequence.
LEMMA LeftRows ==
  ASSUME NEW n \in Nat, NEW rows \in Rows(n)
  PROVE  /\ DOMAIN Left(rows) = 1..rows.len
         /\ \A m \in 1..rows.len : Left(rows)[m] = rows.array[m]
         /\ ToSet(Left(rows)) = {rows.array[m] : m \in 1..rows.len}
<1>1. PICK a, len : a = rows.array /\ len = rows.len
  OBVIOUS
<1>2. a \in [1..n -> 1..n] /\ len \in 0..n /\ a \in Seq(1..n) /\ Len(a) = n
  BY <1>1 DEF Rows
<1>3. DOMAIN SubSeq(a, 1, len) = 1..len /\ \A m \in 1..len : SubSeq(a, 1, len)[m] = a[m]
  BY <1>2
<1> QED
  BY <1>1, <1>3 DEF Left, ToSet

\* What the filter of groups promises.
LEMMA Dropped ==
  ASSUME NEW n \in Nat, NEW row, row = [i \in 1..n |-> i], NEW passing \in SUBSET (1..n),
         NEW rows, rows = Having(row, passing)
  PROVE  /\ rows.panic => Cardinality(passing) > 1
         /\ ~rows.panic =>
              /\ (1..n) \ passing \subseteq ToSet(Left(rows))
              /\ \A i, j \in DOMAIN Left(rows) : i < j => Left(rows)[i] < Left(rows)[j]
              /\ Cardinality(passing) = 1 => ToSet(Left(rows)) = (1..n) \ passing
<1>1. Len(row) = n /\ n \in 0..n
  OBVIOUS
<1>2. PICK u : HasTurns(u, row, n, passing) /\ rows = u[n]
  BY <1>1, HavingTurns
<1>3. Orderly(rows, n, passing)
  BY <1>1, <1>2, HavingIsOrderly
<1>4. /\ DOMAIN Left(rows) = 1..rows.len
      /\ \A m \in 1..rows.len : Left(rows)[m] = rows.array[m]
      /\ ToSet(Left(rows)) = {rows.array[m] : m \in 1..rows.len}
  BY <1>3, LeftRows DEF Orderly
<1>5. ASSUME NEW e \in Nat, passing \subseteq {e}
      PROVE  IF e \in passing THEN Without(rows, n, e) ELSE Untouched(rows, n)
  <2>1. \A k \in 0..n : IF e \in passing /\ e \in 1..k THEN Without(u[k], n, e)
                        ELSE Untouched(u[k], n)
    BY <1>2, <1>5, HavingOfOne
  <2>2. e \in passing => e \in 1..n
    OBVIOUS
  <2> QED
    BY <1>1, <1>2, <2>1, <2>2
<1>6. IsFiniteSet(passing) /\ Cardinality(passing) \in Nat
  <2>1. IsFiniteSet(1..n)
    BY FS_Interval
  <2>2. IsFiniteSet(passing)
    BY <2>1, FS_Subset
  <2> QED
    BY <2>2, FS_CardinalityType
<1>7. rows.panic => Cardinality(passing) > 1
  <2> SUFFICES ASSUME ~(Cardinality(passing) > 1) PROVE ~rows.panic
    OBVIOUS
  <2>1. Cardinality(passing) = 0 \/ Cardinality(passing) = 1
    BY <1>6
  <2>2. passing = {} \/ \E e : passing = {e}
    BY <1>6, <2>1, FS_EmptySet, FS_Singleton
  <2>3. PICK e \in Nat : passing \subseteq {e}
    BY <2>2
  <2> QED
    BY <1>5, <2>3 DEF Without, Untouched
<1>8. (1..n) \ passing \subseteq ToSet(Left(rows))
  BY <1>3, <1>4 DEF Orderly, KeepsFailing
<1>9. \A i, j \in DOMAIN Left(rows) : i < j => Left(rows)[i] < Left(rows)[j]
  <2>1. \A l, m \in 1..rows.len : l < m => rows.array[l] < rows.array[m]
    BY <1>3 DEF Orderly, InOrder
  <2> SUFFICES ASSUME NEW i \in 1..rows.len, NEW j \in 1..rows.len, i < j
               PROVE  Left(rows)[i] < Left(rows)[j]
    BY <1>4
  <2>2. Left(rows)[i] = rows.array[i] /\ Left(rows)[j] = rows.array[j]
    BY <1>4
  <2> QED
    BY <2>1, <2>2
<1>10. ASSUME Cardinality(passing) = 1 PROVE ToSet(Left(rows)) = (1..n) \ passing
  <2>1. PICK e : passing = {e}
    BY <1>6, <1>10, FS_Singleton
  <2>2. e \in 1..n /\ e \in Nat
    BY <2>1
  <2>3. Without(rows, n, e)
    BY <1>5, <2>1, <2>2
  <2>4. \A m \in 1..(n - 1) : rows.array[m] \in (1..n) \ {e}
    BY <2>2, <2>3 DEF Without
  <2>5. ToSet(Left(rows)) \subseteq (1..n) \ passing
    <3>1. rows.len = n - 1
      BY <2>3 DEF Without
    <3>2. ToSet(Left(rows)) = {rows.array[m] : m \in 1..(n - 1)}
      BY <1>4, <3>1
    <3> QED
      BY <2>1, <2>4, <3>2
  <2> QED
    BY <1>8, <2>5
<1> QED
  BY <1>7, <1>8, <1>9, <1>10

-----------------------------------------------------------------------------
(* Ordering finite sets.                                                     *)

\* Everything in U is related to z.
LastIn(U, R, z) == z \in U /\ \A y \in U : <<y, z>> \in R

\* R relates any two elements of S, and is transitive.
Orderable(S, R) ==
  /\ \A a, b \in S : <<a, b>> \in R \/ <<b, a>> \in R
  /\ \A a, b, c \in S : <<a, b>> \in R /\ <<b, c>> \in R => <<a, c>> \in R

\* A finite set that is not empty has a last element.
LEMMA LastExists ==
  ASSUME NEW S, IsFiniteSet(S), NEW R, Orderable(S, R)
  PROVE  \A U \in SUBSET S : U # {} => \E z : LastIn(U, R, z)
<1> DEFINE T == {n \in Nat : \A U \in SUBSET S :
                   Cardinality(U) = n + 1 => \E z : LastIn(U, R, z)}
<1>1. \A U \in SUBSET S : IsFiniteSet(U) /\ Cardinality(U) \in Nat
  <2> SUFFICES ASSUME NEW U \in SUBSET S PROVE IsFiniteSet(U) /\ Cardinality(U) \in Nat
    OBVIOUS
  <2>1. IsFiniteSet(U)
    BY FS_Subset
  <2> QED
    BY <2>1, FS_CardinalityType
<1>2. 0 \in T
  <2> SUFFICES ASSUME NEW U \in SUBSET S, Cardinality(U) = 1 PROVE \E z : LastIn(U, R, z)
    OBVIOUS
  <2>1. PICK z : U = {z}
    BY <1>1, FS_Singleton
  <2>2. LastIn(U, R, z)
    BY <2>1 DEF LastIn, Orderable
  <2> QED
    BY <2>2
<1>3. ASSUME NEW n \in Nat, n \in T PROVE n + 1 \in T
  <2> SUFFICES ASSUME NEW U \in SUBSET S, Cardinality(U) = (n + 1) + 1
               PROVE  \E z : LastIn(U, R, z)
    OBVIOUS
  <2>1. U # {}
    BY <1>1, FS_EmptySet
  <2>2. PICK x : x \in U
    BY <2>1
  <2>3. PICK V : V = U \ {x}
    OBVIOUS
  <2>4. Cardinality(V) = n + 1 /\ V \in SUBSET S
    <3>1. Cardinality(U \ {x}) = Cardinality(U) - 1
      BY <1>1, <2>2, FS_RemoveElement
    <3> QED
      BY <2>3, <3>1
  <2>5. PICK z : LastIn(V, R, z)
    BY <1>3, <2>4
  <2>6. x \in S /\ z \in S /\ V \subseteq S /\ U = V \cup {x}
    BY <2>2, <2>3, <2>5 DEF LastIn
  <2>7. CASE <<x, z>> \in R
    <3>1. LastIn(U, R, z)
      BY <2>5, <2>6, <2>7 DEF LastIn
    <3> QED
      BY <3>1
  <2>8. CASE <<z, x>> \in R
    <3>1. LastIn(U, R, x)
      BY <2>5, <2>6, <2>8 DEF LastIn, Orderable
    <3> QED
      BY <3>1
  <2> QED
    BY <2>6, <2>7, <2>8 DEF Orderable
<1> HIDE DEF T
<1>4. Nat \subseteq T
  BY <1>2, <1>3, SetInduction
<1> SUFFICES ASSUME NEW U \in SUBSET S, U # {} PROVE \E z : LastIn(U, R, z)
  OBVIOUS
<1>5. PICK c \in Nat : c = Cardinality(U)
  BY <1>1
<1>6. c # 0
  BY <1>1, <1>5, FS_EmptySet
<1>7. c - 1 \in Nat /\ (c - 1) + 1 = c
  BY <1>6
<1>8. PICK k \in Nat : k + 1 = c
  BY <1>7
<1>9. k \in T
  BY <1>4
<1> QED
  BY <1>5, <1>8, <1>9 DEF T

\* All elements, each once, the later ones related to.
Enumerates(s, S, n) ==
  /\ s \in [1..n -> S]
  /\ \A i, j \in 1..n : i # j => s[i] # s[j]
  /\ \A a \in S : \E i \in 1..n : s[i] = a
Ascends(s, n, R) == \A i, j \in 1..n : i < j => <<s[i], s[j]>> \in R

\* So its elements can be put in order.
LEMMA OrderExists ==
  ASSUME NEW S, IsFiniteSet(S), NEW R, Orderable(S, R)
  PROVE  \E s : Enumerates(s, S, Cardinality(S)) /\ Ascends(s, Cardinality(S), R)
<1> DEFINE T == {n \in Nat : \A U \in SUBSET S :
                   Cardinality(U) = n => \E s : Enumerates(s, U, n) /\ Ascends(s, n, R)}
<1>1. \A U \in SUBSET S : IsFiniteSet(U) /\ Cardinality(U) \in Nat
  <2> SUFFICES ASSUME NEW U \in SUBSET S PROVE IsFiniteSet(U) /\ Cardinality(U) \in Nat
    OBVIOUS
  <2>1. IsFiniteSet(U)
    BY FS_Subset
  <2> QED
    BY <2>1, FS_CardinalityType
<1>2. 0 \in T
  <2> SUFFICES ASSUME NEW U \in SUBSET S, Cardinality(U) = 0
               PROVE  \E s : Enumerates(s, U, 0) /\ Ascends(s, 0, R)
    OBVIOUS
  <2>1. U = {} /\ 1..0 = {}
    BY <1>1, FS_EmptySet
  <2>2. Enumerates([i \in 1..0 |-> 0], U, 0) /\ Ascends([i \in 1..0 |-> 0], 0, R)
    BY <2>1 DEF Enumerates, Ascends
  <2> QED
    BY <2>2
<1>3. ASSUME NEW n \in Nat, n \in T PROVE n + 1 \in T
  <2> SUFFICES ASSUME NEW U \in SUBSET S, Cardinality(U) = n + 1
               PROVE  \E s : Enumerates(s, U, n + 1) /\ Ascends(s, n + 1, R)
    OBVIOUS
  <2>1. U # {}
    BY <1>1, FS_EmptySet
  <2>2. PICK z : LastIn(U, R, z)
    BY <2>1, LastExists
  <2>3. PICK V : V = U \ {z}
    OBVIOUS
  <2>4. z \in U /\ Cardinality(V) = n /\ V \in SUBSET S
    <3>1. z \in U
      BY <2>2 DEF LastIn
    <3>2. Cardinality(U \ {z}) = Cardinality(U) - 1
      BY <1>1, <3>1, FS_RemoveElement
    <3> QED
      BY <2>3, <3>1, <3>2
  <2>5. PICK s : Enumerates(s, V, n) /\ Ascends(s, n, R)
    BY <1>3, <2>4
  <2>6. PICK m \in Nat : m = n + 1
    OBVIOUS
  <2>7. PICK r : r = [i \in 1..m |-> IF i = m THEN z ELSE s[i]]
    OBVIOUS
  <2>8. /\ \A i \in 1..m : i # m => i \in 1..n
        /\ \A i \in 1..n : i \in 1..m /\ i # m
        /\ m \in 1..m
    BY <2>6
  <2>9. /\ \A i \in 1..n : r[i] = s[i] /\ s[i] \in V
        /\ r[m] = z
    BY <2>5, <2>7, <2>8 DEF Enumerates
  <2>10. Enumerates(r, U, m)
    <3>1. r \in [1..m -> U]
      BY <2>3, <2>4, <2>7, <2>8, <2>9
    <3>2. ASSUME NEW i \in 1..m, NEW j \in 1..m, i # j PROVE r[i] # r[j]
      BY <2>3, <2>5, <2>8, <2>9, <3>2 DEF Enumerates
    <3>3. ASSUME NEW a \in U PROVE \E i \in 1..m : r[i] = a
      <4>1. CASE a = z
        BY <2>8, <2>9, <4>1
      <4>2. CASE a # z
        <5>1. PICK i \in 1..n : s[i] = a
          BY <2>3, <2>5, <4>2 DEF Enumerates
        <5> QED
          BY <2>8, <2>9, <5>1
      <4> QED
        BY <4>1, <4>2
    <3> QED
      BY <3>1, <3>2, <3>3 DEF Enumerates
  <2>11. Ascends(r, m, R)
    <3> SUFFICES ASSUME NEW i \in 1..m, NEW j \in 1..m, i < j PROVE <<r[i], r[j]>> \in R
      BY DEF Ascends
    <3>1. i # m /\ i \in 1..n
      BY <2>8
    <3>2. CASE j = m
      BY <2>2, <2>3, <2>9, <3>1, <3>2 DEF LastIn
    <3>3. CASE j # m
      BY <2>5, <2>8, <2>9, <3>1, <3>3 DEF Ascends
    <3> QED
      BY <3>2, <3>3
  <2> QED
    BY <2>6, <2>10, <2>11
<1> HIDE DEF T
<1>4. Nat \subseteq T
  BY <1>2, <1>3, SetInduction
<1>5. Cardinality(S) \in T /\ S \in SUBSET S
  BY <1>1, <1>4
<1> QED
  BY <1>5 DEF T

\* The sequences of SetToSeqs are those that enumerate a set.
LEMMA SeqsEnumerate ==
  ASSUME NEW S, IsFiniteSet(S), NEW s
  PROVE  s \in SetToSeqs(S) <=> Enumerates(s, S, Cardinality(S))
<1>1. PICK n \in Nat : n = Cardinality(S)
  BY FS_CardinalityType
<1>2. s \in SetToSeqs(S) <=> s \in [1..n -> S] /\ \A i, j \in 1..n : i # j => s[i] # s[j]
  BY <1>1 DEF SetToSeqs
<1>3. ASSUME s \in SetToSeqs(S) PROVE \A a \in S : \E i \in 1..n : s[i] = a
  <2>1. s \in Injection(1..n, S)
    BY <1>2, <1>3 DEF Injection, IsInjective
  <2>2. Cardinality(1..n) = n
    BY FS_Interval
  <2>3. s \in Surjection(1..n, S)
    BY <1>1, <2>1, <2>2, FS_Injection
  <2> QED
    BY <2>3 DEF Surjection
<1> QED
  BY <1>1, <1>2, <1>3 DEF Enumerates

-----------------------------------------------------------------------------
(* The orders of keys and of the values that are compared.                   *)

\* Of any two keys one is up to the other.
LEMMA UpToTotal ==
  ASSUME NEW s \in Seq(Int), NEW t \in Seq(Int)
  PROVE  UpTo(s, t) \/ UpTo(t, s)
<1>1. Len(s) \in Nat /\ Len(t) \in Nat
  OBVIOUS
<1> DEFINE D == {n \in Nat : n < Len(s) /\ n < Len(t) /\ s[n + 1] # t[n + 1]}
<1>2. CASE D = {}
  <2>1. \A n \in Nat : n < Len(s) /\ n < Len(t) => s[n + 1] = t[n + 1]
    BY <1>2
  <2> HIDE DEF D
  <2>2. \A m \in Nat : 1 <= m /\ m <= Len(s) /\ m <= Len(t) => s[m] = t[m]
    <3> SUFFICES ASSUME NEW m \in Nat, 1 <= m, m <= Len(s), m <= Len(t) PROVE s[m] = t[m]
      OBVIOUS
    <3>1. m - 1 \in Nat /\ m - 1 < Len(s) /\ m - 1 < Len(t) /\ (m - 1) + 1 = m
      BY <1>1
    <3>2. s[(m - 1) + 1] = t[(m - 1) + 1]
      BY <2>1, <3>1
    <3> QED
      BY <3>1, <3>2
  <2>3. CASE Len(s) <= Len(t)
    <3>1. Len(s) \in 0..Len(s) /\ \A m \in 1..Len(s) : s[m] = t[m]
      BY <1>1, <2>2, <2>3
    <3> QED
      BY <2>3, <3>1 DEF UpTo
  <2>4. CASE Len(t) <= Len(s)
    <3>1. Len(t) \in 0..Len(t) /\ \A m \in 1..Len(t) : t[m] = s[m]
      BY <1>1, <2>2, <2>4
    <3> QED
      BY <2>4, <3>1 DEF UpTo
  <2> QED
    BY <1>1, <2>3, <2>4
<1>3. CASE D # {}
  <2>1. PICK d \in D : \A n \in D : d <= n
    BY <1>3, LeastElement
  <2>2. d \in Nat /\ d < Len(s) /\ d < Len(t) /\ s[d + 1] # t[d + 1]
    BY <2>1
  <2>3. \A m \in 1..d : s[m] = t[m]
    <3> SUFFICES ASSUME NEW m \in 1..d, s[m] # t[m] PROVE FALSE
      OBVIOUS
    <3>1. m - 1 \in Nat /\ m - 1 < Len(s) /\ m - 1 < Len(t) /\ (m - 1) + 1 = m
      BY <1>1, <2>2
    <3>2. m - 1 \in D
      BY <3>1
    <3> QED
      BY <2>1, <2>2, <3>2
  <2>4. s[d + 1] \in Int /\ t[d + 1] \in Int /\ d \in 0..Len(s) /\ d \in 0..Len(t)
    BY <1>1, <2>2
  <2>5. s[d + 1] < t[d + 1] \/ t[d + 1] < s[d + 1]
    BY <2>2, <2>4
  <2> HIDE DEF D
  <2>6. CASE s[d + 1] < t[d + 1]
    BY <2>2, <2>3, <2>4, <2>6 DEF UpTo
  <2>7. CASE t[d + 1] < s[d + 1]
    BY <2>2, <2>3, <2>4, <2>7 DEF UpTo
  <2> QED
    BY <2>5, <2>6, <2>7
<1> QED
  BY <1>2, <1>3

\* The order of keys is transitive.
LEMMA UpToTransitive ==
  ASSUME NEW s \in Seq(Int), NEW t \in Seq(Int), NEW u \in Seq(Int), UpTo(s, t), UpTo(t, u)
  PROVE  UpTo(s, u)
<1>1. PICK n \in 0..Len(s) : /\ n <= Len(t) /\ \A m \in 1..n : s[m] = t[m]
                             /\ n = Len(s) \/ (n < Len(t) /\ s[n + 1] < t[n + 1])
  BY DEF UpTo
<1>2. PICK k \in 0..Len(t) : /\ k <= Len(u) /\ \A m \in 1..k : t[m] = u[m]
                             /\ k = Len(t) \/ (k < Len(u) /\ t[k + 1] < u[k + 1])
  BY DEF UpTo
<1>3. Len(s) \in Nat /\ Len(t) \in Nat /\ Len(u) \in Nat /\ n \in Nat /\ k \in Nat
  OBVIOUS
<1>4. CASE n < k
  <2>1. n + 1 \in 1..k /\ n <= Len(u) /\ n < Len(u) /\ \A m \in 1..n : m \in 1..k
    BY <1>2, <1>3, <1>4
  <2>2. t[n + 1] = u[n + 1] /\ \A m \in 1..n : s[m] = u[m]
    BY <1>1, <1>2, <2>1
  <2> QED
    BY <1>1, <2>1, <2>2 DEF UpTo
<1>5. CASE k < n
  <2>1. k + 1 \in 1..n /\ k \in 0..Len(s) /\ k # Len(t) /\ \A m \in 1..k : m \in 1..n
    BY <1>1, <1>3, <1>5
  <2>2. s[k + 1] = t[k + 1] /\ \A m \in 1..k : s[m] = u[m]
    BY <1>1, <1>2, <2>1
  <2>3. k < Len(u) /\ s[k + 1] < u[k + 1]
    BY <1>2, <2>1, <2>2
  <2> QED
    BY <1>2, <2>1, <2>2, <2>3 DEF UpTo
<1>6. CASE k = n
  <2>1. \A m \in 1..n : s[m] = u[m]
    BY <1>1, <1>2, <1>6
  <2>2. CASE n = Len(s)
    BY <1>2, <1>6, <2>1, <2>2 DEF UpTo
  <2>3. CASE n < Len(t) /\ s[n + 1] < t[n + 1]
    <3>1. n < Len(u) /\ t[n + 1] < u[n + 1]
      BY <1>2, <1>3, <1>6, <2>3
    <3>2. n < Len(s) \/ n = Len(s)
      BY <1>3
    <3>3. CASE n < Len(s)
      <4>1. s[n + 1] \in Int /\ t[n + 1] \in Int /\ u[n + 1] \in Int
        BY <1>3, <2>3, <3>1, <3>3
      <4>2. s[n + 1] < u[n + 1]
        BY <2>3, <3>1, <4>1
      <4> QED
        BY <1>2, <1>6, <2>1, <3>1, <4>2 DEF UpTo
    <3> QED
      BY <2>2, <3>2, <3>3
  <2> QED
    BY <1>1, <2>2, <2>3
<1> QED
  BY <1>3, <1>4, <1>5, <1>6

\* Two sequences in a strict order have the same elements at the same places.
LEMMA OrderIsUnique ==
  ASSUME NEW S, NEW n \in Nat, NEW R,
         \A a, b \in S : ~(<<a, b>> \in R /\ <<b, a>> \in R),
         NEW s, Enumerates(s, S, n), Ascends(s, n, R),
         NEW r, Enumerates(r, S, n), Ascends(r, n, R)
  PROVE  \A i \in 1..n : s[i] = r[i]
<1> DEFINE D == {i \in 1..n : s[i] # r[i]}
<1> SUFFICES ASSUME D # {} PROVE FALSE
  OBVIOUS
<1>1. PICK d \in D : \A i \in D : d <= i
  <2>1. D \subseteq Nat
    OBVIOUS
  <2> QED
    BY <2>1, LeastElement
<1>2. d \in 1..n /\ s[d] # r[d]
  BY <1>1
<1>3. \A i \in 1..n : i < d => s[i] = r[i]
  BY <1>1
<1> HIDE DEF D
<1>4. s[d] \in S /\ r[d] \in S
  BY <1>2 DEF Enumerates
<1>5. PICK j \in 1..n : r[j] = s[d]
  BY <1>4 DEF Enumerates
<1>6. PICK k \in 1..n : s[k] = r[d]
  BY <1>4 DEF Enumerates
<1>7. j # d /\ ~(j < d)
  BY <1>2, <1>3, <1>5 DEF Enumerates
<1>8. k # d /\ ~(k < d)
  BY <1>2, <1>3, <1>6 DEF Enumerates
<1>9. d < j /\ d < k
  BY <1>2, <1>7, <1>8
<1>10. <<r[d], r[j]>> \in R /\ <<s[d], s[k]>> \in R
  BY <1>2, <1>9 DEF Ascends
<1> QED
  BY <1>4, <1>5, <1>6, <1>10

-----------------------------------------------------------------------------
(* The order of a scan.                                                      *)

\* Every plan is on an index.
LEMMA PlanIndex ==
  ASSUME NEW w, NEW p \in Plans(w)
  PROVE  p.index.fields \in Seq(Field \cup {PK})
<1>1. <<PK>> \in Seq(Field \cup {PK}) /\ Primary.fields = <<PK>>
  BY IndexAssumption
<1>2. \/ p.index = Primary
      \/ \E i \in Index : p = PlanOf(i, w)
  BY DEF Plans, FullScan, Plan
<1>3. ASSUME NEW i \in Index, p = PlanOf(i, w) PROVE p.index.fields \in Seq(Field \cup {PK})
  BY <1>3, IndexAssumption DEF PlanOf, Plan
<1> QED
  BY <1>1, <1>2, <1>3

\* Keys are sequences of numbers.
LEMMA KeyType ==
  ASSUME DocsType, NEW i, i.fields \in Seq(Field \cup {PK}), NEW id \in Id, docs[id] # NoDoc
  PROVE  Key(i, id) \in Seq(Nat)
<1>1. PICK fields : fields = i.fields
  OBVIOUS
<1>2. Len(fields) \in Nat /\ \A n \in 1..Len(fields) : fields[n] \in Field \cup {PK}
  BY <1>1
<1>3. ASSUME NEW f \in Field \cup {PK} PROVE Part(f, ValuesOf(id)) \in Seq(Nat)
  <2>1. f \in Nat
    BY TokenAssumption
  <2>2. At(id, f) # Absent => Encode(At(id, f)) \in Nat
    BY AtIsNumber
  <2>3. Part(f, ValuesOf(id)) = IF At(id, f) # Absent THEN <<f, Encode(At(id, f))>> ELSE << >>
    BY DEF Part, ValuesOf
  <2>4. \A a \in Nat : <<f, a>> \in Seq(Nat)
    BY <2>1
  <2> QED
    BY <2>2, <2>3, <2>4, Nothing
<1>4. Numbers(fields, ValuesOf(id))
  BY <1>2, <1>3 DEF Numbers
<1>5. PICK u : HasRows(u, fields, ValuesOf(id)) /\ Path(i, ValuesOf(id)) = u[Len(fields)]
  BY <1>1, <1>2, PathRows
<1>6. \A n \in 0..Len(fields) : u[n] \in Seq(Nat)
  BY <1>2, <1>4, <1>5, RowTypes
<1>7. Path(i, ValuesOf(id)) \in Seq(Nat)
  BY <1>2, <1>5, <1>6
<1>8. <<id>> \in Seq(Nat)
  BY TokenAssumption
<1>9. Key(i, id) = Path(i, ValuesOf(id)) \o <<id>>
  BY DEF Key, ValuesOf
<1> QED
  BY <1>7, <1>8, <1>9

\* What is found is finite and there.
LEMMA FoundIsFinite ==
  ASSUME NEW w, NEW p
  PROVE  /\ IsFiniteSet(Found(p, w)) /\ Cardinality(Found(p, w)) \in Nat
         /\ Cardinality(Found(p, w)) <= Cardinality(Id) /\ Cardinality(Id) \in Nat
         /\ \A id \in Found(p, w) : id \in Id /\ docs[id] # NoDoc
<1>1. Found(p, w) \in SUBSET Id /\ \A id \in Found(p, w) : docs[id] # NoDoc
  BY DEF Found, Visited
<1>2. IsFiniteSet(Found(p, w)) /\ Cardinality(Found(p, w)) <= Cardinality(Id)
  BY <1>1, FiniteAssumption, FS_Subset
<1> QED
  BY <1>1, <1>2, FiniteAssumption, FS_CardinalityType

\* A scan comes by every document found, once.
LEMMA ScanEnumerates ==
  ASSUME DocsType, NEW w, NEW p \in Plans(w)
  PROVE  Enumerates(InScanOrder(p, w), Found(p, w), Cardinality(Found(p, w)))
<1>1. PICK S : S = Found(p, w)
  OBVIOUS
<1>2. IsFiniteSet(S) /\ Cardinality(S) \in Nat /\ \A id \in S : id \in Id /\ docs[id] # NoDoc
  BY <1>1, FoundIsFinite
<1>3. \A id \in S : Key(p.index, id) \in Seq(Int)
  <2> SUFFICES ASSUME NEW id \in S PROVE Key(p.index, id) \in Seq(Int)
    OBVIOUS
  <2>1. Key(p.index, id) \in Seq(Nat)
    BY <1>2, PlanIndex, KeyType
  <2> QED
    BY <2>1
<1>4. PICK R : R = {r \in S \X S : Before(p, r[1], r[2])}
  OBVIOUS
<1>5. \A a, b \in S : <<a, b>> \in R <=> Before(p, a, b)
  BY <1>4
<1>6. ASSUME NEW a \in S, NEW b \in S PROVE Before(p, a, b) \/ Before(p, b, a)
  BY <1>3, UpToTotal DEF Before
<1>7. ASSUME NEW a \in S, NEW b \in S, NEW c \in S, Before(p, a, b), Before(p, b, c)
      PROVE  Before(p, a, c)
  BY <1>3, <1>7, UpToTransitive DEF Before
<1>8. Orderable(S, R)
  BY <1>5, <1>6, <1>7 DEF Orderable
<1>9. PICK s : Enumerates(s, S, Cardinality(S)) /\ Ascends(s, Cardinality(S), R)
  BY <1>2, <1>8, OrderExists
<1>10. s \in SetToSeqs(S) /\ DOMAIN s = 1..Cardinality(S)
  BY <1>2, <1>9, SeqsEnumerate DEF Enumerates
<1>11. \A m, n \in DOMAIN s : m < n => Before(p, s[m], s[n])
  BY <1>5, <1>9, <1>10 DEF Enumerates, Ascends
<1>12. InScanOrder(p, w) \in SetToSeqs(S)
  BY <1>1, <1>10, <1>11 DEF InScanOrder
<1> QED
  BY <1>1, <1>2, <1>12, SeqsEnumerate

-----------------------------------------------------------------------------
(* The order asked for.                                                      *)

\* The first of k values in which they differ is less.
Less(s, t, k) == \E n \in 1..k : s[n] < t[n] /\ \A m \in 1..(n - 1) : s[m] = t[m]

\* If two rows of values differ, one is less.
LEMMA LessTotal ==
  ASSUME NEW k \in Nat, NEW s \in [1..k -> Int], NEW t \in [1..k -> Int],
         \E n \in 1..k : s[n] # t[n]
  PROVE  Less(s, t, k) \/ Less(t, s, k)
<1> DEFINE D == {n \in 1..k : s[n] # t[n]}
<1>1. D # {} /\ D \subseteq Nat
  OBVIOUS
<1>2. PICK d \in D : \A n \in D : d <= n
  BY <1>1, LeastElement
<1>3. d \in 1..k /\ s[d] # t[d] /\ \A m \in 1..(d - 1) : s[m] = t[m]
  BY <1>2
<1>4. s[d] < t[d] \/ t[d] < s[d]
  BY <1>3
<1> HIDE DEF D
<1> QED
  BY <1>3, <1>4 DEF Less

\* Only one of them.
LEMMA LessOneWay ==
  ASSUME NEW k \in Nat, NEW s \in [1..k -> Int], NEW t \in [1..k -> Int], Less(s, t, k)
  PROVE  ~Less(t, s, k)
<1> SUFFICES ASSUME Less(t, s, k) PROVE FALSE
  OBVIOUS
<1>1. PICK n \in 1..k : s[n] < t[n] /\ \A m \in 1..(n - 1) : s[m] = t[m]
  BY DEF Less
<1>2. PICK l \in 1..k : t[l] < s[l] /\ \A m \in 1..(l - 1) : t[m] = s[m]
  BY DEF Less
<1>3. s[n] \in Int /\ t[n] \in Int /\ s[l] \in Int /\ t[l] \in Int
  OBVIOUS
<1>4. CASE n < l
  <2>1. n \in 1..(l - 1)
    BY <1>4
  <2> QED
    BY <1>1, <1>2, <1>3, <2>1
<1>5. CASE l < n
  <2>1. l \in 1..(n - 1)
    BY <1>5
  <2> QED
    BY <1>1, <1>2, <1>3, <2>1
<1>6. CASE l = n
  BY <1>1, <1>2, <1>3, <1>6
<1> QED
  BY <1>4, <1>5, <1>6

\* Any third comes after the first or before the second.
LEMMA LessEither ==
  ASSUME NEW k \in Nat, NEW s \in [1..k -> Int], NEW t \in [1..k -> Int],
         NEW u \in [1..k -> Int], Less(s, t, k)
  PROVE  Less(s, u, k) \/ Less(u, t, k)
<1>1. PICK n \in 1..k : s[n] < t[n] /\ \A m \in 1..(n - 1) : s[m] = t[m]
  BY DEF Less
<1> DEFINE D == {m \in 1..(n - 1) : u[m] # s[m]}
<1>2. CASE D = {}
  <2>1. \A m \in 1..(n - 1) : u[m] = s[m] /\ u[m] = t[m]
    BY <1>1, <1>2
  <2>2. s[n] < u[n] \/ u[n] < t[n]
    <3>1. s[n] \in Int /\ t[n] \in Int /\ u[n] \in Int
      OBVIOUS
    <3> QED
      BY <1>1, <3>1
  <2> HIDE DEF D
  <2> QED
    BY <2>1, <2>2 DEF Less
<1>3. CASE D # {}
  <2>1. D \subseteq Nat
    OBVIOUS
  <2>2. PICK d \in D : \A m \in D : d <= m
    BY <1>3, <2>1, LeastElement
  <2>3. d \in 1..(n - 1) /\ u[d] # s[d] /\ d \in 1..k
    BY <2>2
  <2>4. \A m \in 1..(d - 1) : m \in 1..(n - 1) /\ u[m] = s[m]
    BY <2>2, <2>3
  <2> HIDE DEF D
  <2>5. \A m \in 1..(d - 1) : u[m] = s[m] /\ u[m] = t[m]
    BY <1>1, <2>4
  <2>6. s[d] < u[d] \/ u[d] < t[d]
    <3>1. s[d] \in Int /\ u[d] \in Int /\ t[d] = s[d]
      BY <1>1, <2>3
    <3> QED
      BY <2>3, <3>1
  <2> QED
    BY <2>3, <2>5, <2>6 DEF Less
<1> QED
  BY <1>2, <1>3

\* A document that the order speaks of.
Ranked(order, a) == Rank(order, a) \in [1..Len(order) -> Int]

\* Documents with the fields of an order have a rank in it.
LEMMA RankType ==
  ASSUME DocsType, NEW order \in Orders, NEW a \in Id, docs[a] # NoDoc,
         \A n \in DOMAIN order : At(a, order[n].field) # Absent
  PROVE  /\ DOMAIN order = 1..Len(order) /\ Len(order) \in Nat
         /\ Ranked(order, a)
         /\ \A n \in DOMAIN order : At(a, order[n].field) \in Int
<1>1. PICK T : T = [field : Field \cup {PK}, desc : BOOLEAN]
  OBVIOUS
<1>2. DOMAIN order = 1..Len(order) /\ Len(order) \in Nat
      /\ \A n \in DOMAIN order : order[n].field \in Field \cup {PK}
  <2>1. order \in Seq(T)
    BY <1>1, OrdersAssumption
  <2>2. DOMAIN order = 1..Len(order) /\ Len(order) \in Nat /\ \A n \in DOMAIN order : order[n] \in T
    BY <2>1
  <2> QED
    BY <1>1, <2>2
<1>3. \A n \in DOMAIN order : At(a, order[n].field) \in Int
  <2> SUFFICES ASSUME NEW n \in DOMAIN order PROVE At(a, order[n].field) \in Int
    OBVIOUS
  <2>1. PICK f \in Field \cup {PK} : f = order[n].field
    BY <1>2
  <2>2. At(a, f) # Absent
    BY <2>1
  <2>3. At(a, f) \in Int
    BY <2>2, AtIsNumber
  <2> QED
    BY <2>1, <2>3
<1>4. \A n \in DOMAIN order : 0 - At(a, order[n].field) \in Int
  BY <1>3
<1> QED
  BY <1>2, <1>3, <1>4 DEF Ranked, Rank

\* The comparison compares ranks.
LEMMA PrecedesIsLess ==
  ASSUME DocsType, NEW order \in Orders,
         NEW a \in Id, docs[a] # NoDoc, \A n \in DOMAIN order : At(a, order[n].field) # Absent,
         NEW b \in Id, docs[b] # NoDoc, \A n \in DOMAIN order : At(b, order[n].field) # Absent
  PROVE  Precedes(order, a, b) <=> Less(Rank(order, a), Rank(order, b), Len(order))
<1>1. /\ DOMAIN order = 1..Len(order) /\ Len(order) \in Nat
      /\ \A n \in DOMAIN order : At(a, order[n].field) \in Int
      /\ \A n \in DOMAIN order : At(b, order[n].field) \in Int
  BY RankType
<1>2. PICK r, q, k : r = Rank(order, a) /\ q = Rank(order, b) /\ k = Len(order)
  OBVIOUS
<1>3. ASSUME NEW n \in 1..k
      PROVE  /\ r[n] = q[n] <=> At(a, order[n].field) = At(b, order[n].field)
             /\ r[n] < q[n] <=> /\ At(a, order[n].field) # At(b, order[n].field)
                                /\ IF order[n].desc THEN Exceeds(order[n].field, a, b)
                                   ELSE ~Exceeds(order[n].field, a, b)
  <2>1. PICK x \in Int, y \in Int : x = At(a, order[n].field) /\ y = At(b, order[n].field)
    BY <1>1, <1>2
  <2>2. n \in DOMAIN order
    BY <1>1, <1>2
  <2>3. /\ r[n] = IF order[n].desc THEN 0 - x ELSE x
        /\ q[n] = IF order[n].desc THEN 0 - y ELSE y
    BY <1>2, <2>1, <2>2 DEF Rank
  <2>4. Exceeds(order[n].field, a, b) <=> x > y
    BY <2>1, <2>2 DEF Exceeds, Num
  <2> QED
    BY <2>1, <2>3, <2>4
<1>4. \A n \in 1..k : \A m \in 1..(n - 1) : m \in 1..k
  BY <1>1, <1>2
<1> QED
  BY <1>1, <1>2, <1>3, <1>4 DEF Precedes, Less

\* Documents in an order that decides between them.
Deciding(order, S) ==
  /\ order \in Orders /\ S \subseteq {id \in Id : docs[id] # NoDoc}
  /\ Complete(order, S) /\ Decides(order, S)

\* The documents of S that have a lesser rank than others.
RankBelow(order, S) ==
  {r \in S \X S : Less(Rank(order, r[1]), Rank(order, r[2]), Len(order))}

\* Then one of two documents comes first.
LEMMA RankDecides ==
  ASSUME DocsType, NEW order, NEW S, Deciding(order, S)
  PROVE  /\ Len(order) \in Nat /\ \A a \in S : Ranked(order, a)
         /\ \A a, b \in S : <<a, b>> \in RankBelow(order, S) <=> Precedes(order, a, b)
         /\ \A a, b \in S : a # b =>
              <<a, b>> \in RankBelow(order, S) \/ <<b, a>> \in RankBelow(order, S)
         /\ \A a, b \in S : ~(<<a, b>> \in RankBelow(order, S) /\ <<b, a>> \in RankBelow(order, S))
         /\ \A a, b, c \in S : <<a, b>> \in RankBelow(order, S) =>
              <<a, c>> \in RankBelow(order, S) \/ <<c, b>> \in RankBelow(order, S)
<1>1. order \in Orders /\ \A a \in S : a \in Id /\ docs[a] # NoDoc
  BY DEF Deciding
<1>2. \A a \in S : \A n \in DOMAIN order : At(a, order[n].field) # Absent
  BY DEF Deciding, Complete
<1>3. \A a, b \in S : a # b => \E n \in DOMAIN order : At(a, order[n].field) # At(b, order[n].field)
  BY DEF Deciding, Decides
<1>4. PICK R, k : R = RankBelow(order, S) /\ k = Len(order)
  OBVIOUS
<1>5. \A a, b \in S : <<a, b>> \in R <=> Less(Rank(order, a), Rank(order, b), k)
  BY <1>4 DEF RankBelow
<1>6. \A a \in S : /\ DOMAIN order = 1..k /\ k \in Nat
                   /\ Rank(order, a) \in [1..k -> Int]
                   /\ \A n \in 1..k : At(a, order[n].field) \in Int
  BY <1>1, <1>2, <1>4, RankType DEF Ranked
<1>7. Len(order) \in Nat
  BY <1>1, OrdersAssumption
<1>8. ASSUME NEW a \in S, NEW b \in S
      PROVE  <<a, b>> \in R <=> Precedes(order, a, b)
  BY <1>1, <1>2, <1>4, <1>5, PrecedesIsLess
<1>9. ASSUME NEW a \in S, NEW b \in S, a # b
      PROVE  <<a, b>> \in R \/ <<b, a>> \in R
  <2>1. PICK n \in 1..k : At(a, order[n].field) # At(b, order[n].field)
    BY <1>3, <1>6, <1>9
  <2>2. Rank(order, a)[n] # Rank(order, b)[n]
    <3>1. PICK x \in Int, y \in Int : x = At(a, order[n].field) /\ y = At(b, order[n].field)
      BY <1>6, <2>1
    <3>2. n \in DOMAIN order
      BY <1>6
    <3>3. /\ Rank(order, a)[n] = IF order[n].desc THEN 0 - x ELSE x
          /\ Rank(order, b)[n] = IF order[n].desc THEN 0 - y ELSE y
      BY <3>1, <3>2 DEF Rank
    <3> QED
      BY <2>1, <3>1, <3>3
  <2>3. /\ k \in Nat /\ Rank(order, a) \in [1..k -> Int] /\ Rank(order, b) \in [1..k -> Int]
        /\ \E m \in 1..k : Rank(order, a)[m] # Rank(order, b)[m]
    BY <1>6, <2>2
  <2>4. Less(Rank(order, a), Rank(order, b), k) \/ Less(Rank(order, b), Rank(order, a), k)
    BY <2>3, LessTotal
  <2> QED
    BY <1>5, <2>4
<1>10. ASSUME NEW a \in S, NEW b \in S, <<a, b>> \in R PROVE <<b, a>> \notin R
  BY <1>5, <1>6, <1>10, LessOneWay
<1>11. ASSUME NEW a \in S, NEW b \in S, NEW c \in S, <<a, b>> \in R
       PROVE  <<a, c>> \in R \/ <<c, b>> \in R
  BY <1>5, <1>6, <1>11, LessEither
<1> QED
  BY <1>4, <1>6, <1>7, <1>8, <1>9, <1>10, <1>11 DEF Ranked

\* Where the order decides, sorting has one result, in that order.
LEMMA SortedByRank ==
  ASSUME DocsType, NEW order, NEW S, Deciding(order, S), NEW n \in Nat, n = Cardinality(S),
         NEW s, Enumerates(s, S, n)
  PROVE  /\ \E r : r \in Sorted(order, s)
         /\ \A r \in Sorted(order, s) : Enumerates(r, S, n) /\ Ascends(r, n, RankBelow(order, S))
<1>1. PICK R : R = RankBelow(order, S)
  OBVIOUS
<1>2. /\ \A a, b \in S : <<a, b>> \in R <=> Precedes(order, a, b)
      /\ \A a, b \in S : a # b => <<a, b>> \in R \/ <<b, a>> \in R
      /\ \A a, b \in S : ~(<<a, b>> \in R /\ <<b, a>> \in R)
      /\ \A a, b, c \in S : <<a, b>> \in R => <<a, c>> \in R \/ <<c, b>> \in R
  BY <1>1, RankDecides
<1>3. IsFiniteSet(S)
  BY FiniteAssumption, FS_Subset DEF Deciding
<1>4. ToSet(s) = S
  BY DEF Enumerates, ToSet
<1>5. CASE order = << >>
  <2>1. Sorted(order, s) = {s}
    BY <1>5 DEF Sorted
  <2>2. \A a, b \in S : a = b
    BY <1>5 DEF Deciding, Decides
  <2>3. Ascends(s, n, R)
    BY <2>2 DEF Enumerates, Ascends
  <2> QED
    BY <1>1, <2>1, <2>3
<1>6. CASE order # << >>
  <2>1. IsOrdering(order, S)
    BY <1>2 DEF IsOrdering
  <2>2. \A r : r \in Sorted(order, s) <=>
          r \in SetToSeqs(S) /\ \A i, j \in DOMAIN r : i < j => ~Precedes(order, r[j], r[i])
    BY <1>4, <1>6, <2>1 DEF Sorted
  <2>3. ASSUME NEW r, Enumerates(r, S, n)
        PROVE  (\A i, j \in DOMAIN r : i < j => ~Precedes(order, r[j], r[i])) <=> Ascends(r, n, R)
    <3>1. DOMAIN r = 1..n /\ \A i \in 1..n : r[i] \in S
      BY <2>3 DEF Enumerates
    <3>2. \A i, j \in 1..n : i < j => r[i] # r[j]
      BY <2>3 DEF Enumerates
    <3>3. \A i, j \in 1..n : i < j => (~Precedes(order, r[j], r[i]) <=> <<r[i], r[j]>> \in R)
      BY <1>2, <3>1, <3>2
    <3> QED
      BY <3>1, <3>3 DEF Ascends
  <2>4. \A r : r \in Sorted(order, s) <=> Enumerates(r, S, n) /\ Ascends(r, n, R)
    BY <1>3, <2>2, <2>3, SeqsEnumerate
  <2>5. PICK Q : Q = {q \in S \X S : q[1] = q[2] \/ q \in R}
    OBVIOUS
  <2>6. \A a, b \in S : <<a, b>> \in Q <=> a = b \/ <<a, b>> \in R
    BY <2>5
  <2>7. Orderable(S, Q)
    BY <1>2, <2>6 DEF Orderable
  <2>8. PICK r : Enumerates(r, S, n) /\ Ascends(r, n, Q)
    BY <1>3, <2>7, OrderExists
  <2>9. Ascends(r, n, R)
    BY <2>6, <2>8 DEF Ascends, Enumerates
  <2> QED
    BY <1>1, <2>4, <2>8, <2>9
<1> QED
  BY <1>5, <1>6

-----------------------------------------------------------------------------
(* Pages.                                                                    *)

\* The page with this number has these places.
OnNumber(limit, page, i) == limit * page < i /\ i <= limit * (page + 1)

\* Every place is on a page.
LEMMA PageOf ==
  ASSUME NEW limit \in Nat, limit >= 1
  PROVE  \A i \in Nat : i >= 1 => \E page \in 0..i : page < i /\ OnNumber(limit, page, i)
<1> DEFINE T == {i \in Nat : i >= 1 => \E page \in 0..i : page < i /\ OnNumber(limit, page, i)}
<1>1. 0 \in T
  OBVIOUS
<1>2. ASSUME NEW i \in Nat, i \in T PROVE i + 1 \in T
  <2> SUFFICES \E page \in 0..(i + 1) : page < i + 1 /\ OnNumber(limit, page, i + 1)
    OBVIOUS
  <2>1. CASE i = 0
    <3>1. limit * 0 = 0 /\ limit * (0 + 1) = limit
      OBVIOUS
    <3>2. OnNumber(limit, 0, i + 1)
      BY <2>1, <3>1 DEF OnNumber
    <3> QED
      BY <3>2
  <2>2. CASE i # 0
    <3>1. PICK page \in 0..i : page < i /\ OnNumber(limit, page, i)
      BY <1>2, <2>2
    <3>2. CASE i < limit * (page + 1)
      BY <3>1, <3>2 DEF OnNumber
    <3>3. CASE i = limit * (page + 1)
      <4>1. limit * ((page + 1) + 1) = limit * (page + 1) + limit
        OBVIOUS
      <4>2. OnNumber(limit, page + 1, i + 1)
        BY <3>3, <4>1 DEF OnNumber
      <4> QED
        BY <3>1, <4>2
    <3> QED
      BY <3>1, <3>2, <3>3 DEF OnNumber
  <2> QED
    BY <2>1, <2>2
<1> HIDE DEF T
<1>3. Nat \subseteq T
  BY <1>1, <1>2, SetInduction
<1> QED
  BY <1>3 DEF T

\* Pages have no place in common, and go up.
LEMMA PagesGoUp ==
  ASSUME NEW limit \in Nat, NEW m \in Nat, NEW n \in Nat, m < n, NEW i \in Nat, NEW j \in Nat,
         OnNumber(limit, m, i), OnNumber(limit, n, j)
  PROVE  i < j
<1>1. PICK d \in Nat : n = (m + 1) + d
  <2>1. n - (m + 1) \in Nat /\ n = (m + 1) + (n - (m + 1))
    OBVIOUS
  <2> QED
    BY <2>1
<1>2. limit * n = limit * (m + 1) + limit * d /\ limit * d >= 0
  BY <1>1
<1>3. limit * (m + 1) \in Nat /\ limit * d \in Nat
  OBVIOUS
<1> QED
  BY <1>2, <1>3 DEF OnNumber

\* A page shows the documents at its places.
LEMMA SliceShows ==
  ASSUME NEW S, NEW n \in Nat, NEW r, Enumerates(r, S, n), NEW limit \in Nat, NEW page \in Nat
  PROVE  ToSet(Slice(r, limit, page)) = {r[i] : i \in {j \in 1..n : OnNumber(limit, page, j)}}
<1>1. r \in [1..n -> S] /\ r \in Seq(S) /\ Len(r) = n
  BY DEF Enumerates
<1>2. PICK lo \in Nat, hi \in Nat : lo = limit * page /\ hi = limit * (page + 1)
  OBVIOUS
<1>3. PICK top \in {hi, n} : top <= hi /\ top <= n /\ Min({hi, n}) = top
  <2>1. CASE hi <= n
    <3>1. Min({hi, n}) = hi
      BY <2>1 DEF Min
    <3> QED
      BY <2>1, <3>1
  <2>2. CASE n < hi
    <3>1. Min({hi, n}) = n
      BY <2>2 DEF Min
    <3> QED
      BY <2>2, <3>1
  <2> QED
    BY <2>1, <2>2
<1>4. Slice(r, limit, page) = SubSeq(r, lo + 1, top)
  BY <1>1, <1>2, <1>3 DEF Slice
<1>5. PICK q : q = SubSeq(r, lo + 1, top)
  OBVIOUS
<1>6. /\ DOMAIN q = 1..(top - lo)
      /\ \A i \in 1..(top - lo) : q[i] = r[lo + i]
  BY <1>1, <1>3, <1>5
<1>7. \A j \in 1..n : OnNumber(limit, page, j) <=> lo < j /\ j <= top
  BY <1>2, <1>3 DEF OnNumber
<1>8. ASSUME NEW i \in 1..(top - lo)
      PROVE  lo + i \in 1..n /\ OnNumber(limit, page, lo + i)
  BY <1>3, <1>7
<1>9. ASSUME NEW j \in 1..n, OnNumber(limit, page, j)
      PROVE  j - lo \in 1..(top - lo) /\ lo + (j - lo) = j
  BY <1>3, <1>7, <1>9
<1>10. ToSet(q) = {q[i] : i \in 1..(top - lo)}
  BY <1>6 DEF ToSet
<1>11. ToSet(q) \subseteq {r[i] : i \in {j \in 1..n : OnNumber(limit, page, j)}}
  BY <1>6, <1>8, <1>10
<1>12. {r[i] : i \in {j \in 1..n : OnNumber(limit, page, j)}} \subseteq ToSet(q)
  BY <1>6, <1>9, <1>10
<1> QED
  BY <1>4, <1>5, <1>11, <1>12

\* A lesser rank is up to a greater one.
LEMMA LessIsUpTo ==
  ASSUME NEW k \in Nat, NEW s \in [1..k -> Int], NEW t \in [1..k -> Int], Less(s, t, k)
  PROVE  UpTo(s, t)
<1>1. PICK n \in 1..k : s[n] < t[n] /\ \A m \in 1..(n - 1) : s[m] = t[m]
  BY DEF Less
<1>2. Len(s) = k /\ Len(t) = k
  OBVIOUS
<1>3. PICK l \in 0..k : l = n - 1
  OBVIOUS
<1>4. l + 1 = n /\ l <= k /\ l < k
  BY <1>3
<1> QED
  BY <1>1, <1>2, <1>3, <1>4 DEF UpTo

\* However a scan is sorted, all documents come, once.
LEMMA SortedEnumerates ==
  ASSUME NEW order, NEW S, IsFiniteSet(S), NEW n \in Nat, n = Cardinality(S),
         NEW s, Enumerates(s, S, n), NEW r \in Sorted(order, s)
  PROVE  Enumerates(r, S, n)
<1>1. ToSet(s) = S
  BY DEF Enumerates, ToSet
<1>2. r = s \/ r \in SetToSeqs(S)
  BY <1>1 DEF Sorted
<1> QED
  BY <1>2, SeqsEnumerate

\* What may come on a page.
LEMMA PageShows ==
  ASSUME DocsType, NEW w, NEW p \in Plans(w), NEW S, S = Found(p, w),
         NEW n \in Nat, n = Cardinality(S), NEW order, NEW limit \in Nat, NEW page \in Nat
  PROVE  \A a : a \in OnPage(p, w, order, limit, page) <=>
           \E r \in Sorted(order, InScanOrder(p, w)), i \in 1..n :
             OnNumber(limit, page, i) /\ a = r[i]
<1>1. Enumerates(InScanOrder(p, w), S, n) /\ IsFiniteSet(S)
  BY ScanEnumerates, FoundIsFinite
<1>2. PICK X : X = Sorted(order, InScanOrder(p, w))
  OBVIOUS
<1>3. \A r \in X : Enumerates(r, S, n)
  BY <1>1, <1>2, SortedEnumerates
<1>4. \A r \in X : ToSet(Slice(r, limit, page)) = {r[i] : i \in {j \in 1..n : OnNumber(limit, page, j)}}
  BY <1>3, SliceShows
<1>5. OnPage(p, w, order, limit, page) = UNION {ToSet(Slice(r, limit, page)) : r \in X}
  BY <1>2 DEF OnPage, Pages
<1>6. \A a : a \in OnPage(p, w, order, limit, page) <=>
        \E r \in X : a \in ToSet(Slice(r, limit, page))
  BY <1>5
<1>7. \A r \in X : \A a : a \in ToSet(Slice(r, limit, page)) <=>
        \E i \in 1..n : OnNumber(limit, page, i) /\ a = r[i]
  BY <1>4
<1> QED
  BY <1>2, <1>6, <1>7

\* Two pages that have to fit together.
Fitting(p, q, w, order) ==
  \/ order = << >> /\ p = q
  \/ /\ Found(p, w) = Found(q, w)
     /\ Complete(order, Found(p, w)) /\ Decides(order, Found(p, w))

\* r is what both are cut from, in the order asked for.
CutFrom(r, p, q, w, order, n) ==
  /\ Enumerates(r, Found(p, w), n)
  /\ \E x : x \in Sorted(order, InScanOrder(p, w))
  /\ \A x \in Sorted(order, InScanOrder(p, w)) \cup Sorted(order, InScanOrder(q, w)) :
       \A i \in 1..n : x[i] = r[i]
  /\ \A i, j \in 1..n : i < j => UpTo(Rank(order, r[i]), Rank(order, r[j]))

\* They are cut from the same sequence.
LEMMA SameSequence ==
  ASSUME DocsType, NEW w, NEW p \in Plans(w), NEW q \in Plans(w), NEW order \in Orders,
         Fitting(p, q, w, order), NEW n \in Nat, n = Cardinality(Found(p, w))
  PROVE  \E r : CutFrom(r, p, q, w, order, n)
<1>1. PICK S : S = Found(p, w)
  OBVIOUS
<1>2. PICK s, t : s = InScanOrder(p, w) /\ t = InScanOrder(q, w)
  OBVIOUS
<1>3. Enumerates(s, S, n)
  BY <1>1, <1>2, ScanEnumerates
<1>4. CASE order = << >> /\ p = q
  <2>1. Sorted(order, s) = {s} /\ t = s
    BY <1>2, <1>4 DEF Sorted
  <2>2. \A a : Rank(order, a) = << >>
    <3>1. DOMAIN order = {}
      BY <1>4
    <3> QED
      BY <3>1 DEF Rank
  <2>3. UpTo(<< >>, << >>)
    <3>1. Len(<< >>) = 0 /\ 0 \in 0..0 /\ 1..0 = {}
      OBVIOUS
    <3> QED
      BY <3>1 DEF UpTo
  <2>4. CutFrom(s, p, q, w, order, n)
    BY <1>1, <1>2, <1>3, <2>1, <2>2, <2>3 DEF CutFrom
  <2> QED
    BY <2>4
<1>5. CASE /\ Found(p, w) = Found(q, w)
           /\ Complete(order, Found(p, w)) /\ Decides(order, Found(p, w))
  <2>1. Deciding(order, S)
    BY <1>1, <1>5, FoundIsFinite DEF Deciding
  <2>2. PICK R : R = RankBelow(order, S)
    OBVIOUS
  <2>3. Enumerates(t, S, n)
    BY <1>1, <1>2, <1>5, ScanEnumerates
  <2>4. n = Cardinality(S)
    BY <1>1
  <2>5. /\ \E r : r \in Sorted(order, s)
        /\ \A r \in Sorted(order, s) : Enumerates(r, S, n) /\ Ascends(r, n, R)
    BY <1>3, <2>1, <2>2, <2>4, SortedByRank
  <2>6. \A r \in Sorted(order, t) : Enumerates(r, S, n) /\ Ascends(r, n, R)
    BY <2>1, <2>2, <2>3, <2>4, SortedByRank
  <2>7. PICK r : r \in Sorted(order, s)
    BY <2>5
  <2>8. Enumerates(r, S, n) /\ Ascends(r, n, R)
    BY <2>5, <2>7
  <2>9. \A a, b \in S : ~(<<a, b>> \in R /\ <<b, a>> \in R)
    BY <2>1, <2>2, RankDecides
  <2>10. ASSUME NEW x \in Sorted(order, s) \cup Sorted(order, t)
         PROVE  \A i \in 1..n : x[i] = r[i]
    <3>1. Enumerates(x, S, n) /\ Ascends(x, n, R)
      BY <2>5, <2>6, <2>10
    <3> QED
      BY <2>8, <2>9, <3>1, OrderIsUnique
  <2>11. ASSUME NEW i \in 1..n, NEW j \in 1..n, i < j
         PROVE  UpTo(Rank(order, r[i]), Rank(order, r[j]))
    <3>1. r[i] \in S /\ r[j] \in S /\ <<r[i], r[j]>> \in R
      BY <2>8, <2>11 DEF Enumerates, Ascends
    <3>2. Less(Rank(order, r[i]), Rank(order, r[j]), Len(order))
      BY <2>2, <3>1 DEF RankBelow
    <3>3. Len(order) \in Nat /\ Ranked(order, r[i]) /\ Ranked(order, r[j])
      BY <2>1, <3>1, RankDecides
    <3> QED
      BY <3>2, <3>3, LessIsUpTo DEF Ranked
  <2>12. CutFrom(r, p, q, w, order, n)
    BY <1>1, <1>2, <2>7, <2>8, <2>10, <2>11 DEF CutFrom
  <2> QED
    BY <2>12
<1> QED
  BY <1>4, <1>5 DEF Fitting

\* Pages of what is there fit together.
LEMMA PagesFit == DocsType => PagesPartition
<1> SUFFICES ASSUME DocsType, NEW w \in Single, NEW order \in Orders,
                    NEW limit \in 1..MaxLimit, NEW p \in Plans(w), NEW q \in Plans(w),
                    Fitting(p, q, w, order)
             PROVE  /\ UNION {OnPage(p, w, order, limit, page) : page \in PageNumbers} = Found(p, w)
                    /\ \A m, n \in PageNumbers : m < n =>
                         \A a \in OnPage(p, w, order, limit, m), b \in OnPage(q, w, order, limit, n) :
                           a # b /\ UpTo(Rank(order, a), Rank(order, b))
  BY DEF PagesPartition, Fitting
<1>1. PICK S, k : S = Found(p, w) /\ k = Cardinality(S)
  OBVIOUS
<1>2. k \in Nat /\ k <= Cardinality(Id) /\ Cardinality(Id) \in Nat
  BY <1>1, FoundIsFinite
<1>3. PICK r : CutFrom(r, p, q, w, order, k)
  BY <1>1, <1>2, SameSequence
<1>4. /\ Enumerates(r, S, k)
      /\ \A i, j \in 1..k : i < j => UpTo(Rank(order, r[i]), Rank(order, r[j]))
  BY <1>1, <1>3 DEF CutFrom
<1>5. limit \in Nat /\ limit >= 1
  OBVIOUS
<1>6. ASSUME NEW page \in Nat
      PROVE  \A a : a \in OnPage(p, w, order, limit, page) <=>
               \E i \in 1..k : OnNumber(limit, page, i) /\ a = r[i]
  <2>1. \A a : a \in OnPage(p, w, order, limit, page) <=>
          \E x \in Sorted(order, InScanOrder(p, w)), i \in 1..k :
            OnNumber(limit, page, i) /\ a = x[i]
    BY <1>1, <1>2, <1>5, PageShows
  <2> QED
    BY <1>3, <2>1 DEF CutFrom
<1>7. ASSUME NEW page \in Nat
      PROVE  \A b : b \in OnPage(q, w, order, limit, page) =>
               \E i \in 1..k : OnNumber(limit, page, i) /\ b = r[i]
  <2>1. PICK U : U = Found(q, w)
    OBVIOUS
  <2>2. k = Cardinality(U)
    BY <1>1, <2>1 DEF Fitting
  <2>3. \A b : b \in OnPage(q, w, order, limit, page) <=>
          \E x \in Sorted(order, InScanOrder(q, w)), i \in 1..k :
            OnNumber(limit, page, i) /\ b = x[i]
    BY <1>2, <1>5, <2>1, <2>2, PageShows
  <2> QED
    BY <1>3, <2>3 DEF CutFrom
<1>8. PageNumbers \subseteq Nat /\ \A i \in 1..k : i - 1 \in PageNumbers
  BY <1>2 DEF PageNumbers
<1>9. UNION {OnPage(p, w, order, limit, page) : page \in PageNumbers} = S
  <2>1. ASSUME NEW page \in PageNumbers, NEW a \in OnPage(p, w, order, limit, page)
        PROVE  a \in S
    BY <1>4, <1>6, <1>8 DEF Enumerates
  <2>2. ASSUME NEW a \in S
        PROVE  \E page \in PageNumbers : a \in OnPage(p, w, order, limit, page)
    <3>1. PICK i \in 1..k : r[i] = a
      BY <1>4 DEF Enumerates
    <3>2. PICK page \in 0..i : page < i /\ OnNumber(limit, page, i)
      BY <1>5, PageOf
    <3>3. page \in PageNumbers /\ page \in Nat
      BY <1>2, <3>2 DEF PageNumbers
    <3> QED
      BY <1>6, <3>1, <3>2, <3>3
  <2> QED
    BY <2>1, <2>2
<1>10. ASSUME NEW m \in PageNumbers, NEW n \in PageNumbers, m < n,
              NEW a \in OnPage(p, w, order, limit, m), NEW b \in OnPage(q, w, order, limit, n)
       PROVE  a # b /\ UpTo(Rank(order, a), Rank(order, b))
  <2>1. m \in Nat /\ n \in Nat
    BY <1>8
  <2>2. PICK i \in 1..k : OnNumber(limit, m, i) /\ a = r[i]
    BY <1>6, <2>1
  <2>3. PICK j \in 1..k : OnNumber(limit, n, j) /\ b = r[j]
    BY <1>7, <2>1
  <2>4. i < j
    BY <1>5, <1>10, <2>1, <2>2, <2>3, PagesGoUp
  <2> QED
    BY <1>4, <2>2, <2>3, <2>4 DEF Enumerates
<1> QED
  BY <1>1, <1>9, <1>10

-----------------------------------------------------------------------------
(* Folds over finite sets: the library chooses an element of what is left.   *)

\* u is what a fold over the subsets of S computes.
Chooses(choice, S) == \A s \in SUBSET S : s # {} => choice[s] \in s
IsFold(u, S, base, step, choice) ==
  \A s \in SUBSET S :
    u[s] = IF s = {} THEN base ELSE step[<<u[s \ {choice[s]}], choice[s]>>]

\* Such a function exists, subsets of n elements after those of fewer.
LEMMA FoldExists ==
  ASSUME NEW S, IsFiniteSet(S), NEW D, NEW base \in D, NEW step \in [D \X S -> D],
         NEW choice, Chooses(choice, S)
  PROVE  \E u \in [SUBSET S -> D] : IsFold(u, S, base, step, choice)
<1> DEFINE Upto(u, n) ==
             \A s \in SUBSET S : Cardinality(s) <= n =>
               u[s] = IF s = {} THEN base ELSE step[<<u[s \ {choice[s]}], choice[s]>>]
           T == {n \in Nat : \E u \in [SUBSET S -> D] : Upto(u, n)}
<1>1. ASSUME NEW s \in SUBSET S
      PROVE  IsFiniteSet(s) /\ Cardinality(s) \in Nat /\ Cardinality(s) <= Cardinality(S)
             /\ (Cardinality(s) = 0 <=> s = {})
  <2>1. IsFiniteSet(s) /\ Cardinality(s) <= Cardinality(S)
    BY FS_Subset
  <2> QED
    BY <2>1, FS_CardinalityType, FS_EmptySet
<1>2. ASSUME NEW s \in SUBSET S, s # {}
      PROVE  /\ s \ {choice[s]} \in SUBSET S /\ choice[s] \in S
             /\ Cardinality(s \ {choice[s]}) = Cardinality(s) - 1
  <2>1. choice[s] \in s
    BY <1>2 DEF Chooses
  <2>2. Cardinality(s \ {choice[s]}) = Cardinality(s) - 1
    BY <1>1, <2>1, FS_RemoveElement
  <2> QED
    BY <2>1, <2>2
<1>3. 0 \in T
  <2>1. PICK u \in [SUBSET S -> D] : u = [s \in SUBSET S |-> base]
    OBVIOUS
  <2>2. ASSUME NEW s \in SUBSET S, Cardinality(s) <= 0 PROVE s = {}
    BY <1>1, <2>2
  <2>3. Upto(u, 0)
    BY <2>1, <2>2
  <2> QED
    BY <2>3
<1>4. ASSUME NEW n \in Nat, n \in T PROVE n + 1 \in T
  <2>1. PICK u \in [SUBSET S -> D] : Upto(u, n)
    BY <1>4
  <2>2. PICK v : v = [s \in SUBSET S |-> IF Cardinality(s) = n + 1
                                         THEN step[<<u[s \ {choice[s]}], choice[s]>>] ELSE u[s]]
    OBVIOUS
  <2>3. ASSUME NEW s \in SUBSET S, Cardinality(s) = n + 1
        PROVE  v[s] = step[<<u[s \ {choice[s]}], choice[s]>>] /\ v[s] \in D /\ s # {}
    <3>1. s # {}
      BY <1>1, <2>3
    <3>2. <<u[s \ {choice[s]}], choice[s]>> \in D \X S
      BY <1>2, <3>1
    <3> QED
      BY <2>2, <2>3, <3>1, <3>2
  <2>4. ASSUME NEW s \in SUBSET S, Cardinality(s) # n + 1
        PROVE  v[s] = u[s]
    BY <2>2, <2>4
  <2>5. v \in [SUBSET S -> D]
    <3>1. \A s \in SUBSET S : v[s] \in D
      BY <2>3, <2>4
    <3> QED
      BY <2>2, <3>1
  <2>6. ASSUME NEW s \in SUBSET S, Cardinality(s) <= n + 1
        PROVE  v[s] = IF s = {} THEN base ELSE step[<<v[s \ {choice[s]}], choice[s]>>]
    <3>1. s # {} => v[s \ {choice[s]}] = u[s \ {choice[s]}]
      <4> SUFFICES ASSUME s # {} PROVE v[s \ {choice[s]}] = u[s \ {choice[s]}]
        OBVIOUS
      <4>1. s \ {choice[s]} \in SUBSET S /\ Cardinality(s \ {choice[s]}) # n + 1
        BY <1>1, <1>2, <2>6
      <4> QED
        BY <2>4, <4>1
    <3>2. CASE Cardinality(s) = n + 1
      BY <2>3, <3>1, <3>2
    <3>3. CASE Cardinality(s) # n + 1
      <4>1. Cardinality(s) <= n
        BY <1>1, <2>6, <3>3
      <4>2. u[s] = IF s = {} THEN base ELSE step[<<u[s \ {choice[s]}], choice[s]>>]
        BY <2>1, <4>1
      <4> QED
        BY <2>4, <3>1, <3>3, <4>2
    <3> QED
      BY <3>2, <3>3
  <2>7. Upto(v, n + 1)
    BY <2>6
  <2> HIDE DEF Upto
  <2>8. \E f \in [SUBSET S -> D] : Upto(f, n + 1)
    BY <2>5, <2>7
  <2> QED
    BY <2>8
<1> HIDE DEF T
<1>5. Nat \subseteq T
  BY <1>3, <1>4, SetInduction
<1>6. S \in SUBSET S /\ Cardinality(S) \in T
  BY <1>1, <1>5
<1>7. PICK u \in [SUBSET S -> D] : Upto(u, Cardinality(S))
  BY <1>6 DEF T
<1>8. ASSUME NEW s \in SUBSET S
      PROVE  u[s] = IF s = {} THEN base ELSE step[<<u[s \ {choice[s]}], choice[s]>>]
  <2>1. Cardinality(s) <= Cardinality(S)
    BY <1>1
  <2> QED
    BY <1>7, <2>1
<1> QED
  BY <1>8 DEF IsFold

\* The greatest and the least of numbers.
LEMMA MaxExists ==
  ASSUME NEW S, IsFiniteSet(S), S \subseteq Int, S # {}
  PROVE  Max(S) \in S /\ \A a \in S : Max(S) >= a
<1>1. PICK R : R = {r \in S \X S : r[1] <= r[2]}
  OBVIOUS
<1>2. \A a, b \in S : <<a, b>> \in R <=> a <= b
  BY <1>1
<1>3. Orderable(S, R)
  BY <1>2 DEF Orderable
<1>4. S \in SUBSET S
  OBVIOUS
<1>5. PICK z : LastIn(S, R, z)
  BY <1>3, <1>4, LastExists
<1>6. z \in S /\ \A a \in S : z >= a
  BY <1>2, <1>5 DEF LastIn
<1> QED
  BY <1>6 DEF Max

LEMMA MinExists ==
  ASSUME NEW S, IsFiniteSet(S), S \subseteq Int, S # {}
  PROVE  Min(S) \in S /\ \A a \in S : Min(S) <= a
<1>1. PICK R : R = {r \in S \X S : r[1] >= r[2]}
  OBVIOUS
<1>2. \A a, b \in S : <<a, b>> \in R <=> a >= b
  BY <1>1
<1>3. Orderable(S, R)
  BY <1>2 DEF Orderable
<1>4. S \in SUBSET S
  OBVIOUS
<1>5. PICK z : LastIn(S, R, z)
  BY <1>3, <1>4, LastExists
<1>6. z \in S /\ \A a \in S : z <= a
  BY <1>2, <1>5 DEF LastIn
<1> QED
  BY <1>6 DEF Min

\* FoldLeft takes the last of the places that are left.
LastOf(n) == [s \in SUBSET (1..n) |-> Max(s)]

LEMMA LastPlace ==
  ASSUME NEW n \in Nat
  PROVE  /\ IsFiniteSet(1..n) /\ Chooses(LastOf(n), 1..n)
         /\ \A s \in SUBSET (1..n) : s # {} => LastOf(n)[s] = Max(s) /\ Max(s) \in s
<1>1. IsFiniteSet(1..n)
  BY FS_Interval
<1>2. ASSUME NEW s \in SUBSET (1..n), s # {}
      PROVE  LastOf(n)[s] = Max(s) /\ Max(s) \in s
  <2>1. IsFiniteSet(s)
    BY <1>1, FS_Subset
  <2>2. s \subseteq Int
    OBVIOUS
  <2>3. Max(s) \in s
    BY <1>2, <2>1, <2>2, MaxExists
  <2> QED
    BY <2>3 DEF LastOf
<1>3. Chooses(LastOf(n), 1..n)
  BY <1>2 DEF Chooses
<1> QED
  BY <1>1, <1>2, <1>3

\* What is left then are the places before it.
LEMMA PlacesLeft ==
  ASSUME NEW n \in Nat, NEW k \in Nat, k < n
  PROVE  /\ 1..(k + 1) \in SUBSET (1..n) /\ 1..(k + 1) # {}
         /\ Max(1..(k + 1)) = k + 1 /\ 1..(k + 1) \ {k + 1} = 1..k
<1>1. PICK s : s = 1..(k + 1)
  OBVIOUS
<1>2. \A i \in s : i \in 1..n
  BY <1>1
<1>3. k + 1 \in s /\ s \subseteq Int
  BY <1>1
<1>4. IsFiniteSet(s)
  BY <1>1, FS_Interval
<1>5. Max(s) \in s /\ \A i \in s : Max(s) >= i
  BY <1>3, <1>4, MaxExists
<1>6. Max(s) = k + 1
  BY <1>1, <1>3, <1>5
<1>7. s \ {k + 1} = 1..k
  BY <1>1
<1> QED
  BY <1>1, <1>2, <1>3, <1>6, <1>7

-----------------------------------------------------------------------------
(* Groups and aggregates, row by row.                                        *)

\* The rows of a group, numbered, and what is taken of each.
Numbered(g, n, f) == n \in Nat /\ \A i \in 1..n : Num(g[i], f) \in Int

\* What an aggregate is after each row of its group.
Totals(r, function, f, g, n) ==
  /\ r \in [0..n -> Int] /\ r[0] = 0
  /\ \A k \in Nat : k < n => r[k + 1] = Apply(function, r[k], Num(g[k + 1], f))
Functions == {"count", "max", "min", "sum"}

LEMMA ApplyType ==
  ASSUME NEW function \in Functions, NEW a \in Int, NEW b \in Int
  PROVE  Apply(function, a, b) \in Int
BY DEF Apply, Functions

\* u is what Aggregate computes.
IsAggregate(u, function, f, g, n) ==
  u = [s \in SUBSET (1..n) |->
         IF s = {} THEN 0 ELSE Apply(function, u[s \ {Max(s)}], Num(g[Max(s)], f))]

\* There is such a function.
LEMMA AggregateExists ==
  ASSUME NEW function \in Functions, NEW f, NEW g, NEW n, Numbered(g, n, f)
  PROVE  \E u : IsAggregate(u, function, f, g, n)
<1> DEFINE step == [c \in Int \X (1..n) |-> Apply(function, c[1], Num(g[c[2]], f))]
<1>1. n \in Nat /\ \A i \in 1..n : Num(g[i], f) \in Int
  BY DEF Numbered
<1>2. step \in [Int \X (1..n) -> Int]
  <2> SUFFICES ASSUME NEW c \in Int \X (1..n) PROVE Apply(function, c[1], Num(g[c[2]], f)) \in Int
    OBVIOUS
  <2>1. c[1] \in Int /\ c[2] \in 1..n
    OBVIOUS
  <2>2. Num(g[c[2]], f) \in Int
    BY <1>1, <2>1
  <2> QED
    BY <2>1, <2>2, ApplyType
<1>3. \A a \in Int, i \in 1..n : step[<<a, i>>] = Apply(function, a, Num(g[i], f))
  OBVIOUS
<1> HIDE DEF step
<1>4. PICK u \in [SUBSET (1..n) -> Int] : IsFold(u, 1..n, 0, step, LastOf(n))
  <2>1. IsFiniteSet(1..n) /\ Chooses(LastOf(n), 1..n) /\ 0 \in Int
    BY <1>1, LastPlace
  <2> QED
    BY <1>2, <2>1, FoldExists
<1>5. ASSUME NEW s \in SUBSET (1..n)
      PROVE  u[s] = IF s = {} THEN 0 ELSE Apply(function, u[s \ {Max(s)}], Num(g[Max(s)], f))
  <2>1. CASE s = {}
    BY <1>4, <2>1 DEF IsFold
  <2>2. CASE s # {}
    <3>1. LastOf(n)[s] = Max(s) /\ Max(s) \in 1..n
      BY <1>1, <2>2, LastPlace
    <3>2. u[s \ {Max(s)}] \in Int
      OBVIOUS
    <3>3. u[s] = step[<<u[s \ {Max(s)}], Max(s)>>]
      BY <1>4, <2>2, <3>1 DEF IsFold
    <3> QED
      BY <1>3, <2>2, <3>1, <3>2, <3>3
  <2> QED
    BY <2>1, <2>2
<1>6. IsAggregate(u, function, f, g, n)
  BY <1>5 DEF IsAggregate
<1> QED
  BY <1>6

\* Aggregate is the last of the totals.
LEMMA AggregateTotals ==
  ASSUME NEW function \in Functions, NEW f, NEW g, NEW n, Numbered(g, n, f), DOMAIN g = 1..n
  PROVE  \E r : Totals(r, function, f, g, n) /\ Aggregate(function, f, g) = r[n]
<1> DEFINE u == CHOOSE v : IsAggregate(v, function, f, g, n)
<1>1. n \in Nat /\ \A i \in 1..n : Num(g[i], f) \in Int
  BY DEF Numbered
<1>2. IsAggregate(u, function, f, g, n)
  <2>1. \E v : IsAggregate(v, function, f, g, n)
    BY AggregateExists
  <2> QED
    BY <2>1
<1>3. Aggregate(function, f, g) = u[1..n]
  BY DEF Aggregate, FoldLeft, MapThenFoldSet, IsAggregate
<1> HIDE DEF u
<1>4. \A s \in SUBSET (1..n) :
        u[s] = IF s = {} THEN 0 ELSE Apply(function, u[s \ {Max(s)}], Num(g[Max(s)], f))
  BY <1>2 DEF IsAggregate
<1>5. u[1..0] = 0
  <2>1. 1..0 = {} /\ {} \in SUBSET (1..n)
    OBVIOUS
  <2> QED
    BY <1>4, <2>1
<1>6. ASSUME NEW k \in Nat, k < n
      PROVE  u[1..(k + 1)] = Apply(function, u[1..k], Num(g[k + 1], f))
  <2>1. PICK s : s = 1..(k + 1)
    OBVIOUS
  <2>2. s \in SUBSET (1..n) /\ s # {} /\ Max(s) = k + 1 /\ s \ {k + 1} = 1..k
    BY <1>1, <1>6, <2>1, PlacesLeft
  <2> QED
    BY <1>4, <2>1, <2>2
<1> DEFINE T == {k \in Nat : k <= n => u[1..k] \in Int}
<1>7. 0 \in T
  BY <1>5
<1>8. ASSUME NEW k \in Nat, k \in T PROVE k + 1 \in T
  <2> SUFFICES ASSUME k + 1 <= n PROVE u[1..(k + 1)] \in Int
    OBVIOUS
  <2>1. k < n /\ k + 1 \in 1..n /\ u[1..k] \in Int
    BY <1>1, <1>8
  <2>2. Num(g[k + 1], f) \in Int
    BY <1>1, <2>1
  <2> QED
    BY <1>6, <2>1, <2>2, ApplyType
<1> HIDE DEF T
<1>9. Nat \subseteq T
  BY <1>7, <1>8, SetInduction
<1>10. PICK r : r = [k \in 0..n |-> u[1..k]]
  OBVIOUS
<1>11. \A k \in 0..n : r[k] = u[1..k] /\ u[1..k] \in Int
  BY <1>1, <1>9, <1>10 DEF T
<1>12. r \in [0..n -> Int] /\ r[0] = 0 /\ r[n] = u[1..n]
  BY <1>1, <1>5, <1>10, <1>11
<1>13. ASSUME NEW k \in Nat, k < n PROVE r[k + 1] = Apply(function, r[k], Num(g[k + 1], f))
  <2>1. k \in 0..n /\ k + 1 \in 0..n
    BY <1>1, <1>13
  <2> QED
    BY <1>6, <1>11, <1>13, <2>1
<1> QED
  BY <1>3, <1>12, <1>13 DEF Totals

\* A count is the number of rows, and a maximum and a minimum are 0 or one of them.
LEMMA CountAndBounds ==
  ASSUME NEW function \in Functions, NEW f, NEW g, NEW n, Numbered(g, n, f),
         NEW r, Totals(r, function, f, g, n)
  PROVE  /\ function = "count" => r[n] = n
         /\ function = "max" =>
              /\ r[n] >= 0 /\ \A i \in 1..n : r[n] >= Num(g[i], f)
              /\ r[n] = 0 \/ \E i \in 1..n : r[n] = Num(g[i], f)
         /\ function = "min" =>
              /\ r[n] <= 0 /\ \A i \in 1..n : r[n] <= Num(g[i], f)
              /\ r[n] = 0 \/ \E i \in 1..n : r[n] = Num(g[i], f)
<1> DEFINE P(k) ==
      /\ function = "count" => r[k] = k
      /\ function = "max" =>
           /\ r[k] >= 0 /\ \A i \in 1..k : r[k] >= Num(g[i], f)
           /\ r[k] = 0 \/ \E i \in 1..k : r[k] = Num(g[i], f)
      /\ function = "min" =>
           /\ r[k] <= 0 /\ \A i \in 1..k : r[k] <= Num(g[i], f)
           /\ r[k] = 0 \/ \E i \in 1..k : r[k] = Num(g[i], f)
           T == {k \in Nat : k <= n => P(k)}
<1>1. n \in Nat /\ \A i \in 1..n : Num(g[i], f) \in Int
  BY DEF Numbered
<1>2. /\ r \in [0..n -> Int] /\ r[0] = 0
      /\ \A k \in Nat : k < n => r[k + 1] = Apply(function, r[k], Num(g[k + 1], f))
  BY DEF Totals
<1>3. 0 \in T
  BY <1>2
<1>4. ASSUME NEW k \in Nat, k \in T PROVE k + 1 \in T
  <2> SUFFICES ASSUME k + 1 <= n PROVE P(k + 1)
    OBVIOUS
  <2>1. k < n /\ P(k) /\ k + 1 \in 1..n /\ k \in 0..n
    BY <1>1, <1>4
  <2>2. PICK a, b, c : a = r[k] /\ b = Num(g[k + 1], f) /\ c = r[k + 1]
    OBVIOUS
  <2>3. a \in Int /\ b \in Int /\ c = Apply(function, a, b)
    BY <1>1, <1>2, <2>1, <2>2
  <2>4. \A i \in 1..(k + 1) : i = k + 1 \/ i \in 1..k
    OBVIOUS
  <2>5. \A i \in 1..k : i \in 1..(k + 1) /\ Num(g[i], f) \in Int
    BY <1>1, <2>1
  <2>6. CASE function = "count"
    BY <2>1, <2>2, <2>3, <2>6 DEF Apply
  <2>7. CASE function = "max"
    <3>1. c = IF b > a THEN b ELSE a
      BY <2>3, <2>7 DEF Apply
    <3>2. c >= a /\ c >= b /\ c \in Int /\ (c = a \/ c = b)
      BY <2>3, <3>1
    <3>3. /\ a >= 0 /\ \A i \in 1..k : a >= Num(g[i], f)
          /\ a = 0 \/ \E i \in 1..k : a = Num(g[i], f)
      BY <2>1, <2>2, <2>7
    <3>4. c >= 0 /\ \A i \in 1..(k + 1) : c >= Num(g[i], f)
      BY <2>2, <2>3, <2>4, <2>5, <3>2, <3>3
    <3>5. c = 0 \/ \E i \in 1..(k + 1) : c = Num(g[i], f)
      BY <2>1, <2>2, <2>5, <3>2, <3>3
    <3> QED
      BY <2>2, <2>7, <3>4, <3>5
  <2>8. CASE function = "min"
    <3>1. c = IF b < a THEN b ELSE a
      BY <2>3, <2>8 DEF Apply
    <3>2. c <= a /\ c <= b /\ c \in Int /\ (c = a \/ c = b)
      BY <2>3, <3>1
    <3>3. /\ a <= 0 /\ \A i \in 1..k : a <= Num(g[i], f)
          /\ a = 0 \/ \E i \in 1..k : a = Num(g[i], f)
      BY <2>1, <2>2, <2>8
    <3>4. c <= 0 /\ \A i \in 1..(k + 1) : c <= Num(g[i], f)
      BY <2>2, <2>3, <2>4, <2>5, <3>2, <3>3
    <3>5. c = 0 \/ \E i \in 1..(k + 1) : c = Num(g[i], f)
      BY <2>1, <2>2, <2>5, <3>2, <3>3
    <3> QED
      BY <2>2, <2>8, <3>4, <3>5
  <2> QED
    BY <2>6, <2>7, <2>8
<1> HIDE DEF T
<1>5. Nat \subseteq T
  BY <1>3, <1>4, SetInduction
<1>6. P(n)
  BY <1>1, <1>5 DEF T
<1> QED
  BY <1>6

\* u is what the sum over a set computes, for each of its parts.
Some(s) == CHOOSE x \in s : TRUE
IsSum(u, S, f) ==
  u = [s \in SUBSET S |-> IF s = {} THEN 0 ELSE Num(Some(s), f) + u[s \ {Some(s)}]]
Summable(S, f) == IsFiniteSet(S) /\ \A x \in S : Num(x, f) \in Int

\* There is such a function.
LEMMA SumExists ==
  ASSUME NEW S, NEW f, Summable(S, f)
  PROVE  \E u : IsSum(u, S, f)
<1> DEFINE step == [c \in Int \X S |-> Num(c[2], f) + c[1]]
           choice == [s \in SUBSET S |-> Some(s)]
<1>1. IsFiniteSet(S) /\ \A x \in S : Num(x, f) \in Int
  BY DEF Summable
<1>2. step \in [Int \X S -> Int] /\ \A a \in Int, x \in S : step[<<a, x>>] = Num(x, f) + a
  <2> SUFFICES ASSUME NEW c \in Int \X S PROVE Num(c[2], f) + c[1] \in Int
    OBVIOUS
  <2>1. c[1] \in Int /\ c[2] \in S
    OBVIOUS
  <2>2. Num(c[2], f) \in Int
    BY <1>1, <2>1
  <2> QED
    BY <2>1, <2>2
<1>3. ASSUME NEW s \in SUBSET S, s # {} PROVE choice[s] = Some(s) /\ Some(s) \in s
  BY <1>3 DEF Some
<1> HIDE DEF step, choice
<1>4. Chooses(choice, S)
  BY <1>3 DEF Chooses
<1>5. PICK u \in [SUBSET S -> Int] : IsFold(u, S, 0, step, choice)
  <2>1. 0 \in Int /\ step \in [Int \X S -> Int]
    BY <1>2
  <2> QED
    BY <1>1, <1>4, <2>1, FoldExists
<1>6. ASSUME NEW s \in SUBSET S
      PROVE  u[s] = IF s = {} THEN 0 ELSE Num(Some(s), f) + u[s \ {Some(s)}]
  <2>1. CASE s = {}
    BY <1>5, <2>1 DEF IsFold
  <2>2. CASE s # {}
    <3>1. u[s] = step[<<u[s \ {Some(s)}], Some(s)>>]
      BY <1>3, <1>5, <2>2 DEF IsFold
    <3>2. u[s \ {Some(s)}] \in Int /\ Some(s) \in S
      BY <1>3, <2>2
    <3> QED
      BY <1>2, <2>2, <3>1, <3>2
  <2> QED
    BY <2>1, <2>2
<1>7. IsSum(u, S, f)
  BY <1>6 DEF IsSum
<1> QED
  BY <1>7

\* Whichever element is taken first, the sum is the same.
SumsUp(u, s, f) ==
  u[s] \in Int /\ \A x \in s : u[s] = Num(x, f) + u[s \ {x}]

LEMMA SumAnyOrder ==
  ASSUME NEW S, NEW f, Summable(S, f), NEW u, IsSum(u, S, f)
  PROVE  \A s \in SUBSET S : SumsUp(u, s, f)
<1> DEFINE T == {n \in Nat : \A s \in SUBSET S : Cardinality(s) <= n => SumsUp(u, s, f)}
<1>1. \A x \in S : Num(x, f) \in Int
  BY DEF Summable
<1>2. \A s \in SUBSET S : u[s] = IF s = {} THEN 0 ELSE Num(Some(s), f) + u[s \ {Some(s)}]
  BY DEF IsSum
<1>3. ASSUME NEW s \in SUBSET S
      PROVE  /\ IsFiniteSet(s) /\ Cardinality(s) \in Nat
             /\ Cardinality(s) = 0 <=> s = {}
             /\ \A x \in s : Cardinality(s \ {x}) = Cardinality(s) - 1
  <2>1. IsFiniteSet(s)
    BY FS_Subset DEF Summable
  <2>2. Cardinality(s) \in Nat /\ (Cardinality(s) = 0 <=> s = {})
    BY <2>1, FS_CardinalityType, FS_EmptySet
  <2>3. \A x \in s : Cardinality(s \ {x}) = Cardinality(s) - 1
    BY <2>1, FS_RemoveElement
  <2> QED
    BY <2>1, <2>2, <2>3
<1>4. 0 \in T
  <2> SUFFICES ASSUME NEW s \in SUBSET S, Cardinality(s) <= 0 PROVE SumsUp(u, s, f)
    OBVIOUS
  <2>1. s = {}
    BY <1>3
  <2>2. u[s] = 0
    BY <1>2, <2>1
  <2> QED
    BY <2>1, <2>2 DEF SumsUp
<1>5. ASSUME NEW n \in Nat, n \in T PROVE n + 1 \in T
  <2> SUFFICES ASSUME NEW s \in SUBSET S, Cardinality(s) <= n + 1, s # {} PROVE SumsUp(u, s, f)
    <3>1. ASSUME NEW s \in SUBSET S, s = {} PROVE SumsUp(u, s, f)
      <4>1. Cardinality(s) <= 0
        BY <1>3, <3>1
      <4> QED
        BY <1>4, <4>1
    <3> QED
      BY <3>1
  <2>1. \A r \in SUBSET S : Cardinality(r) <= n => SumsUp(u, r, f)
    BY <1>5
  <2> HIDE DEF T
  <2>2. PICK y \in s : y = Some(s)
    BY DEF Some
  <2>3. ASSUME NEW x \in s
        PROVE  s \ {x} \in SUBSET S /\ SumsUp(u, s \ {x}, f) /\ Num(x, f) \in Int
    <3>1. Cardinality(s \ {x}) <= n
      BY <1>3
    <3> QED
      BY <1>1, <2>1, <3>1
  <2>4. u[s] = Num(y, f) + u[s \ {y}]
    BY <1>2, <2>2
  <2>5. u[s] \in Int
    BY <2>3, <2>4 DEF SumsUp
  <2>6. ASSUME NEW x \in s, x # y PROVE u[s] = Num(x, f) + u[s \ {x}]
    <3>1. x \in s \ {y} /\ y \in s \ {x} /\ (s \ {x}) \ {y} = (s \ {y}) \ {x}
      BY <2>6
    <3>2. PICK t : t = (s \ {y}) \ {x}
      OBVIOUS
    <3>3. PICK a, b, c, d, e :
            a = u[s \ {y}] /\ b = u[s \ {x}] /\ c = u[t] /\ d = Num(x, f) /\ e = Num(y, f)
      OBVIOUS
    <3>4. a \in Int /\ b \in Int /\ d \in Int /\ e \in Int
      BY <2>3, <3>3 DEF SumsUp
    <3>5. a = d + c
      BY <2>3, <3>1, <3>2, <3>3 DEF SumsUp
    <3>6. b = e + c
      BY <2>3, <3>1, <3>2, <3>3 DEF SumsUp
    <3>7. c \in Int
      <4>1. PICK r : r = s \ {y}
        OBVIOUS
      <4>2. r \in SUBSET S /\ x \in r /\ t = r \ {x} /\ Cardinality(r) <= n
        BY <1>3, <2>3, <3>1, <3>2, <4>1
      <4>3. t \in SUBSET S /\ Cardinality(t) <= n
        BY <1>3, <4>2
      <4> QED
        BY <2>1, <3>3, <4>3 DEF SumsUp
    <3> QED
      BY <2>4, <3>3, <3>4, <3>5, <3>6, <3>7
  <2> QED
    BY <2>4, <2>5, <2>6 DEF SumsUp
<1> HIDE DEF T
<1>6. Nat \subseteq T
  BY <1>4, <1>5, SetInduction
<1> SUFFICES ASSUME NEW s \in SUBSET S PROVE SumsUp(u, s, f)
  OBVIOUS
<1>7. Cardinality(s) \in T
  BY <1>3, <1>6
<1> QED
  BY <1>7 DEF T

\* Added up row by row, the sum over a set is the same.
LEMMA SumOfRows ==
  ASSUME NEW S, NEW f, Summable(S, f), NEW g, NEW n \in Nat, Enumerates(g, S, n),
         NEW r, Totals(r, "sum", f, g, n)
  PROVE  r[n] = MapThenSumSet(LAMBDA id : Num(id, f), S)
<1> DEFINE u == CHOOSE v : IsSum(v, S, f)
<1>1. IsSum(u, S, f)
  <2>1. \E v : IsSum(v, S, f)
    BY SumExists
  <2> QED
    BY <2>1
<1>2. MapThenSumSet(LAMBDA id : Num(id, f), S) = u[S]
  BY DEF MapThenSumSet, MapThenFoldSet, IsSum, Some
<1> HIDE DEF u
<1>3. \A s \in SUBSET S : SumsUp(u, s, f)
  BY <1>1, SumAnyOrder
<1>4. u[{}] = 0
  BY <1>1 DEF IsSum
<1>5. /\ r \in [0..n -> Int] /\ r[0] = 0
      /\ \A k \in Nat : k < n => r[k + 1] = Apply("sum", r[k], Num(g[k + 1], f))
  BY DEF Totals
<1>6. /\ g \in [1..n -> S]
      /\ \A i, j \in 1..n : i # j => g[i] # g[j]
      /\ \A a \in S : \E i \in 1..n : g[i] = a
  BY DEF Enumerates
<1> DEFINE RowsTo(k) == {g[i] : i \in 1..k}
           T == {k \in Nat : k <= n => r[k] = u[RowsTo(k)]}
<1>7. 0 \in T
  <2>1. RowsTo(0) = {}
    OBVIOUS
  <2> QED
    BY <1>4, <1>5, <2>1
<1>8. ASSUME NEW k \in Nat, k \in T PROVE k + 1 \in T
  <2> SUFFICES ASSUME k + 1 <= n PROVE r[k + 1] = u[RowsTo(k + 1)]
    OBVIOUS
  <2>1. k < n /\ k + 1 \in 1..n /\ k \in 0..n /\ r[k] = u[RowsTo(k)]
    BY <1>8
  <2>2. PICK x, s, t : x = g[k + 1] /\ s = RowsTo(k) /\ t = RowsTo(k + 1)
    OBVIOUS
  <2>3. \A i \in 1..k : i \in 1..n /\ i # k + 1
    BY <2>1
  <2>4. \A i \in 1..(k + 1) : i \in 1..n /\ (i = k + 1 \/ i \in 1..k)
    BY <2>1
  <2>5. t \in SUBSET S
    BY <1>6, <2>2, <2>4
  <2>6. x \in t
    BY <2>2
  <2>7. t \ {x} = s
    <3>1. ASSUME NEW a \in t \ {x} PROVE a \in s
      <4>1. PICK i \in 1..(k + 1) : a = g[i]
        BY <2>2
      <4>2. i \in 1..k
        BY <2>2, <2>4, <4>1
      <4> QED
        BY <2>2, <4>1, <4>2
    <3>2. ASSUME NEW a \in s PROVE a \in t \ {x}
      <4>1. PICK i \in 1..k : a = g[i]
        BY <2>2
      <4>2. a # x
        BY <1>6, <2>1, <2>2, <2>3, <4>1
      <4>3. i \in 1..(k + 1)
        OBVIOUS
      <4> QED
        BY <2>2, <4>1, <4>2, <4>3
    <3> QED
      BY <3>1, <3>2
  <2>8. u[t] = Num(x, f) + u[s]
    BY <1>3, <2>5, <2>6, <2>7 DEF SumsUp
  <2>9. r[k + 1] = r[k] + Num(x, f)
    BY <1>5, <2>1, <2>2 DEF Apply
  <2>10. r[k] \in Int /\ Num(x, f) \in Int
    BY <1>5, <1>6, <2>1, <2>2 DEF Summable
  <2>11. r[k] = u[s]
    BY <2>1, <2>2
  <2> QED
    BY <2>2, <2>8, <2>9, <2>10, <2>11
<1> HIDE DEF T
<1>9. Nat \subseteq T
  BY <1>7, <1>8, SetInduction
<1>10. r[n] = u[RowsTo(n)]
  BY <1>9 DEF T
<1>11. RowsTo(n) = S
  BY <1>6
<1> QED
  BY <1>2, <1>10, <1>11

\* u is what Group computes.
IsGroup(u, by, s, values, n) ==
  u = [t \in SUBSET (1..n) |->
         IF t = {} THEN << >>
         ELSE IF Values(by, s[Max(t)]) = values THEN Append(u[t \ {Max(t)}], s[Max(t)])
         ELSE u[t \ {Max(t)}]]

\* There is such a function.
LEMMA GroupExists ==
  ASSUME NEW by, NEW values, NEW n \in Nat, NEW S, NEW s \in [1..n -> S]
  PROVE  \E u : IsGroup(u, by, s, values, n)
<1> DEFINE step == [c \in Seq(S) \X (1..n) |->
                      IF Values(by, s[c[2]]) = values THEN Append(c[1], s[c[2]]) ELSE c[1]]
<1>1. /\ step \in [Seq(S) \X (1..n) -> Seq(S)]
      /\ \A g \in Seq(S), i \in 1..n :
           step[<<g, i>>] = IF Values(by, s[i]) = values THEN Append(g, s[i]) ELSE g
  <2> SUFFICES ASSUME NEW c \in Seq(S) \X (1..n)
               PROVE  (IF Values(by, s[c[2]]) = values THEN Append(c[1], s[c[2]]) ELSE c[1]) \in Seq(S)
    OBVIOUS
  <2>1. PICK a, b : a = c[1] /\ b = s[c[2]]
    OBVIOUS
  <2>2. a \in Seq(S) /\ b \in S
    BY <2>1
  <2>3. Append(a, b) \in Seq(S)
    BY <2>2
  <2> QED
    BY <2>1, <2>2, <2>3
<1> HIDE DEF step
<1>2. PICK u \in [SUBSET (1..n) -> Seq(S)] : IsFold(u, 1..n, << >>, step, LastOf(n))
  <2>1. IsFiniteSet(1..n) /\ Chooses(LastOf(n), 1..n)
    BY LastPlace
  <2>2. << >> \in Seq(S) /\ step \in [Seq(S) \X (1..n) -> Seq(S)]
    BY <1>1
  <2> QED
    BY <2>1, <2>2, FoldExists
<1>3. ASSUME NEW t \in SUBSET (1..n)
      PROVE  u[t] = IF t = {} THEN << >>
                    ELSE IF Values(by, s[Max(t)]) = values THEN Append(u[t \ {Max(t)}], s[Max(t)])
                    ELSE u[t \ {Max(t)}]
  <2>1. CASE t = {}
    BY <1>2, <2>1 DEF IsFold
  <2>2. CASE t # {}
    <3>1. LastOf(n)[t] = Max(t) /\ Max(t) \in 1..n
      BY <2>2, LastPlace
    <3>2. u[t \ {Max(t)}] \in Seq(S)
      OBVIOUS
    <3>3. u[t] = step[<<u[t \ {Max(t)}], Max(t)>>]
      BY <1>2, <2>2, <3>1 DEF IsFold
    <3> QED
      BY <1>1, <2>2, <3>1, <3>2, <3>3
  <2> QED
    BY <2>1, <2>2
<1>4. IsGroup(u, by, s, values, n)
  BY <1>3 DEF IsGroup
<1> QED
  BY <1>4

\* The first k documents that have the values of a group, in a group of their own.
Collected(g, by, s, values, k) ==
  \E n \in Nat : Enumerates(g, {s[i] : i \in {j \in 1..k : Values(by, s[j]) = values}}, n)

LEMMA GroupCollects ==
  ASSUME NEW by, NEW values, NEW n \in Nat, NEW S, NEW s, Enumerates(s, S, n)
  PROVE  Collected(Group(by, s, values), by, s, values, n)
<1> DEFINE u == CHOOSE v : IsGroup(v, by, s, values, n)
           Of(k) == {s[i] : i \in {j \in 1..k : Values(by, s[j]) = values}}
           Ok(k) == \E m \in Nat : Enumerates(u[1..k], Of(k), m)
           T == {k \in Nat : k <= n => Ok(k)}
<1>1. s \in [1..n -> S] /\ \A i, j \in 1..n : i # j => s[i] # s[j]
  BY DEF Enumerates
<1>2. IsGroup(u, by, s, values, n)
  <2>1. \E v : IsGroup(v, by, s, values, n)
    BY <1>1, GroupExists
  <2> QED
    BY <2>1
<1>3. Group(by, s, values) = u[1..n]
  <2>1. DOMAIN s = 1..n
    BY <1>1
  <2> QED
    BY <2>1 DEF Group, FoldLeft, MapThenFoldSet, IsGroup
<1> HIDE DEF u
<1>4. \A t \in SUBSET (1..n) :
        u[t] = IF t = {} THEN << >>
               ELSE IF Values(by, s[Max(t)]) = values THEN Append(u[t \ {Max(t)}], s[Max(t)])
               ELSE u[t \ {Max(t)}]
  BY <1>2 DEF IsGroup
<1>5. 0 \in T
  <2>1. 1..0 = {} /\ {} \in SUBSET (1..n)
    OBVIOUS
  <2>2. u[1..0] = << >> /\ Of(0) = {}
    BY <1>4, <2>1
  <2>3. Enumerates(<< >>, {}, 0)
    BY DEF Enumerates
  <2> QED
    BY <2>2, <2>3
<1>6. ASSUME NEW k \in Nat, k < n, Ok(k) PROVE Ok(k + 1)
  <2>1. k < n /\ k + 1 \in 1..n
    BY <1>6
  <2>2. PICK m \in Nat : Enumerates(u[1..k], Of(k), m)
    BY <1>6
  <2>3. PICK t, x, g, V, W :
          t = 1..(k + 1) /\ x = s[k + 1] /\ g = u[1..k] /\ V = Of(k) /\ W = Of(k + 1)
    OBVIOUS
  <2>4. t \in SUBSET (1..n) /\ t # {} /\ Max(t) = k + 1 /\ t \ {k + 1} = 1..k
    BY <2>1, <2>3, PlacesLeft
  <2>5. u[t] = IF Values(by, x) = values THEN Append(g, x) ELSE g
    BY <1>4, <2>3, <2>4
  <2>6. \A i \in 1..(k + 1) : i \in 1..n /\ (i = k + 1 \/ i \in 1..k)
    BY <2>1
  <2>7. \A i \in 1..k : i \in 1..(k + 1) /\ i \in 1..n /\ i # k + 1
    BY <2>1
  <2>8. x \notin V
    BY <1>1, <2>1, <2>3, <2>7
  <2>9. Enumerates(g, V, m)
    BY <2>2, <2>3
  <2>10. CASE Values(by, x) = values
    <3>1. W = V \cup {x}
      BY <2>3, <2>6, <2>7, <2>10
    <3>2. g \in [1..m -> V]
      BY <2>9 DEF Enumerates
    <3>3. PICK h, l : h = Append(g, x) /\ l = m + 1
      OBVIOUS
    <3>4. g \in Seq(V \cup {x}) /\ Len(g) = m
      BY <3>2
    <3>5. /\ h \in [1..l -> V \cup {x}] /\ l \in Nat
          /\ h[l] = x /\ \A i \in 1..m : h[i] = g[i] /\ g[i] \in V
      <4>1. h \in Seq(V \cup {x}) /\ Len(h) = l /\ l \in Nat
        BY <3>3, <3>4
      <4>2. h \in [1..l -> V \cup {x}]
        BY <4>1
      <4>3. h[l] = x /\ \A i \in 1..m : h[i] = g[i]
        BY <3>3, <3>4
      <4> QED
        BY <3>2, <4>1, <4>2, <4>3
    <3>6. \A i \in 1..l : i = l \/ i \in 1..m
      BY <3>3
    <3>7. \A i \in 1..m : i \in 1..l
      BY <3>3
    <3>8. \A i, j \in 1..l : i # j => h[i] # h[j]
      BY <2>8, <2>9, <3>5, <3>6 DEF Enumerates
    <3>9. \A a \in V \cup {x} : \E i \in 1..l : h[i] = a
      <4>1. l \in 1..l
        BY <3>3
      <4> QED
        BY <2>9, <3>5, <3>7, <4>1 DEF Enumerates
    <3>10. Enumerates(h, W, l)
      BY <3>1, <3>5, <3>8, <3>9 DEF Enumerates
    <3> QED
      BY <2>3, <2>5, <2>10, <3>3, <3>5, <3>10
  <2>11. CASE Values(by, x) # values
    <3>1. W = V
      BY <2>3, <2>6, <2>7, <2>11
    <3> QED
      BY <2>3, <2>5, <2>9, <2>11, <3>1
  <2> QED
    BY <2>10, <2>11
<1> HIDE DEF Ok
<1>7. \A k \in Nat : k \in T => k + 1 \in T
  BY <1>6
<1> HIDE DEF T
<1>8. Nat \subseteq T
  BY <1>5, <1>7, SetInduction
<1>9. Ok(n)
  BY <1>8 DEF T
<1> QED
  BY <1>3, <1>9 DEF Collected, Ok

\* A group is made of all of them.
LEMMA GroupIsAlike ==
  ASSUME DocsType, NEW w, NEW p \in Plans(w), NEW by, NEW s, s = InScanOrder(p, w),
         NEW id \in ToSet(s)
  PROVE  /\ ToSet(s) = Found(p, w)
         /\ \E n \in Nat : Enumerates(Group(by, s, Values(by, id)), Alike(by, s, id), n)
<1>1. PICK S, k : S = Found(p, w) /\ k = Cardinality(S)
  OBVIOUS
<1>2. Enumerates(s, S, k) /\ k \in Nat
  BY <1>1, ScanEnumerates, FoundIsFinite
<1>3. ToSet(s) = S /\ DOMAIN s = 1..k
  BY <1>2 DEF ToSet, Enumerates
<1>4. Collected(Group(by, s, Values(by, id)), by, s, Values(by, id), k)
  BY <1>2, GroupCollects
<1>5. {s[i] : i \in {j \in 1..k : Values(by, s[j]) = Values(by, id)}} = Alike(by, s, id)
  BY <1>3 DEF ToSet, Alike
<1> QED
  BY <1>1, <1>3, <1>4, <1>5 DEF Collected

\* Aggregates of an enumerated set are right.
LEMMA AggregatesOfRows ==
  ASSUME NEW T, NEW f, Summable(T, f), T # {}, NEW g, NEW n \in Nat, Enumerates(g, T, n)
  PROVE  RightOf(g, T, f)
<1>1. /\ g \in [1..n -> T] /\ DOMAIN g = 1..n
      /\ \A i, j \in 1..n : i # j => g[i] # g[j]
      /\ \A a \in T : \E i \in 1..n : g[i] = a
  BY DEF Enumerates
<1>2. IsFiniteSet(T) /\ \A x \in T : Num(x, f) \in Int
  BY DEF Summable
<1>3. Numbered(g, n, f)
  BY <1>1, <1>2 DEF Numbered
<1>4. ASSUME NEW function \in Functions
      PROVE  \E r : Totals(r, function, f, g, n) /\ Aggregate(function, f, g) = r[n]
  BY <1>1, <1>3, AggregateTotals
<1>5. Aggregate("count", f, g) = Cardinality(T)
  <2>1. PICK r : Totals(r, "count", f, g, n) /\ Aggregate("count", f, g) = r[n]
    BY <1>4 DEF Functions
  <2>2. r[n] = n
    BY <1>3, <2>1, CountAndBounds DEF Functions
  <2>3. g \in Bijection(1..n, T)
    BY <1>1 DEF Bijection, Injection, Surjection, IsInjective
  <2>4. IsFiniteSet(1..n) /\ Cardinality(1..n) = n
    BY FS_Interval
  <2>5. Cardinality(T) = n
    BY <2>3, <2>4, FS_Bijection DEF ExistsBijection
  <2> QED
    BY <2>1, <2>2, <2>5
<1>6. Aggregate("sum", f, g) = MapThenSumSet(LAMBDA id : Num(id, f), T)
  <2>1. PICK r : Totals(r, "sum", f, g, n) /\ Aggregate("sum", f, g) = r[n]
    BY <1>4 DEF Functions
  <2> QED
    BY <2>1, SumOfRows
<1>7. PICK nums : nums = {Num(id, f) : id \in T}
  OBVIOUS
<1>8. /\ \A i \in 1..n : Num(g[i], f) \in nums
      /\ \A a \in nums : \E i \in 1..n : a = Num(g[i], f)
      /\ nums # {} /\ nums \subseteq Int
  BY <1>1, <1>2, <1>7
<1>9. IsFiniteSet(nums)
  <2>1. PICK m : m = [i \in 1..n |-> Num(g[i], f)]
    OBVIOUS
  <2>2. m \in Surjection(1..n, nums)
    BY <1>8, <2>1 DEF Surjection
  <2>3. IsFiniteSet(1..n)
    BY FS_Interval
  <2> QED
    BY <2>2, <2>3, FS_Surjection
<1>10. Max(nums) \in nums /\ \A a \in nums : Max(nums) >= a
  BY <1>8, <1>9, MaxExists
<1>11. Min(nums) \in nums /\ \A a \in nums : Min(nums) <= a
  BY <1>8, <1>9, MinExists
<1>12. Max(nums) >= 0 => Aggregate("max", f, g) = Max(nums)
  <2>1. PICK r : Totals(r, "max", f, g, n) /\ Aggregate("max", f, g) = r[n]
    BY <1>4 DEF Functions
  <2>2. /\ r[n] >= 0 /\ \A i \in 1..n : r[n] >= Num(g[i], f)
        /\ r[n] = 0 \/ \E i \in 1..n : r[n] = Num(g[i], f)
    BY <1>3, <2>1, CountAndBounds DEF Functions
  <2>3. r[n] \in Int
    BY <2>1 DEF Totals
  <2>4. PICK max : max = Max(nums)
    OBVIOUS
  <2>5. max \in Int /\ r[n] >= max
    BY <1>8, <1>10, <2>2, <2>4
  <2>6. r[n] = 0 \/ max >= r[n]
    BY <1>8, <1>10, <2>2, <2>4
  <2> QED
    BY <2>1, <2>2, <2>3, <2>4, <2>5, <2>6
<1>13. Min(nums) <= 0 => Aggregate("min", f, g) = Min(nums)
  <2>1. PICK r : Totals(r, "min", f, g, n) /\ Aggregate("min", f, g) = r[n]
    BY <1>4 DEF Functions
  <2>2. /\ r[n] <= 0 /\ \A i \in 1..n : r[n] <= Num(g[i], f)
        /\ r[n] = 0 \/ \E i \in 1..n : r[n] = Num(g[i], f)
    BY <1>3, <2>1, CountAndBounds DEF Functions
  <2>3. r[n] \in Int
    BY <2>1 DEF Totals
  <2>4. PICK min : min = Min(nums)
    OBVIOUS
  <2>5. min \in Int /\ r[n] <= min
    BY <1>8, <1>11, <2>2, <2>4
  <2>6. r[n] = 0 \/ min <= r[n]
    BY <1>8, <1>11, <2>2, <2>4
  <2> QED
    BY <2>1, <2>2, <2>3, <2>4, <2>5, <2>6
<1> QED
  BY <1>5, <1>6, <1>7, <1>12, <1>13 DEF RightOf

\* Groups of what is there, and what is made of them.
LEMMA AggregatesFit == DocsType => AggregatesAreRight
<1> SUFFICES ASSUME DocsType, NEW w \in Single, NEW p \in Plans(w),
                    NEW by \in {<< >>} \cup {<<f>> : f \in Field}, NEW s, s = InScanOrder(p, w)
             PROVE  /\ \A id \in ToSet(s) :
                         Cardinality({g \in Groups(by, s) : id \in ToSet(g)}) = 1
                    /\ \A g \in Groups(by, s), f \in Field : RightOf(g, Alike(by, s, g[1]), f)
  BY DEF AggregatesAreRight
<1>1. ASSUME NEW id \in ToSet(s)
      PROVE  \E n \in Nat : Enumerates(Group(by, s, Values(by, id)), Alike(by, s, id), n)
  BY GroupIsAlike
<1>2. ASSUME NEW id \in ToSet(s)
      PROVE  ToSet(Group(by, s, Values(by, id))) = Alike(by, s, id) /\ id \in Alike(by, s, id)
  <2>1. PICK n \in Nat : Enumerates(Group(by, s, Values(by, id)), Alike(by, s, id), n)
    BY <1>1
  <2>2. \A g, T : Enumerates(g, T, n) => ToSet(g) = T
    BY DEF ToSet, Enumerates
  <2>3. id \in Alike(by, s, id)
    BY DEF Alike
  <2> QED
    BY <2>1, <2>2, <2>3
<1>3. ASSUME NEW id \in ToSet(s)
      PROVE  Cardinality({g \in Groups(by, s) : id \in ToSet(g)}) = 1
  <2>1. Group(by, s, Values(by, id)) \in Groups(by, s)
    BY DEF Groups
  <2>2. ASSUME NEW g \in Groups(by, s), id \in ToSet(g)
        PROVE  g = Group(by, s, Values(by, id))
    <3>1. PICK other \in ToSet(s) : g = Group(by, s, Values(by, other))
      BY DEF Groups
    <3>2. id \in Alike(by, s, other)
      BY <1>2, <2>2, <3>1
    <3>3. Values(by, id) = Values(by, other)
      BY <3>2 DEF Alike
    <3> QED
      BY <3>1, <3>3
  <2>3. {g \in Groups(by, s) : id \in ToSet(g)} = {Group(by, s, Values(by, id))}
    BY <1>2, <2>1, <2>2
  <2> QED
    BY <2>3, FS_Singleton
<1>4. ASSUME NEW g \in Groups(by, s), NEW f \in Field
      PROVE  RightOf(g, Alike(by, s, g[1]), f)
  <2>1. PICK id \in ToSet(s) : g = Group(by, s, Values(by, id))
    BY DEF Groups
  <2>2. PICK T : T = Alike(by, s, id)
    OBVIOUS
  <2>3. PICK n \in Nat : Enumerates(g, T, n)
    BY <1>1, <2>1, <2>2
  <2>4. id \in T
    BY <1>2, <2>2
  <2>5. PICK i \in 1..n : g[i] = id
    BY <2>3, <2>4 DEF Enumerates
  <2>6. 1 \in 1..n /\ g[1] \in T
    BY <2>3, <2>5 DEF Enumerates
  <2>7. Alike(by, s, g[1]) = T
    BY <2>2, <2>6 DEF Alike
  <2>8. Summable(T, f)
    <3>1. T \in SUBSET Found(p, w)
      BY <2>2, GroupIsAlike DEF Alike
    <3>2. IsFiniteSet(T)
      BY <3>1, FoundIsFinite, FS_Subset
    <3>3. ASSUME NEW x \in T PROVE Num(x, f) \in Int
      <4>1. x \in Id /\ docs[x] # NoDoc
        BY <3>1, FoundIsFinite
      <4>2. At(x, f) # Absent => At(x, f) \in Int
        BY <4>1, AtIsNumber
      <4> QED
        BY <4>2 DEF Num
    <3> QED
      BY <3>2, <3>3 DEF Summable
  <2> QED
    BY <2>3, <2>4, <2>7, <2>8, AggregatesOfRows
<1> QED
  BY <1>3, <1>4

-----------------------------------------------------------------------------
(* Theorems.                                                                 *)

\* A document that satisfies the conditions is visited, and so it is found.
LEMMA FoundInType == DocsType => QueryFindsAll
<1> SUFFICES ASSUME DocsType, NEW w \in Wheres, NEW p \in Plans(w), Trusted(p, w)
             PROVE  Found(p, w) = {id \in Id : docs[id] # NoDoc /\ Passes(id, w)}
  BY DEF QueryFindsAll
<1>1. ~p.reverse
  BY DEF Trusted
<1>2. ASSUME NEW id \in Id, docs[id] # NoDoc, Passes(id, w)
      PROVE  id \in Visited(p, w)
  <2>1. IsPrefix(Prefix(p, w), Key(p.index, id)) /\ UpTo(Start(p, w), Key(p.index, id))
    BY <1>2, KeyAfterPrefix, KeyAfterValue
  <2> QED
    BY <1>1, <1>2, <2>1 DEF Visited
<1>3. \A id \in Visited(p, w) : id \in Id /\ docs[id] # NoDoc
  BY DEF Visited
<1> QED
  BY <1>2, <1>3 DEF Found

\* Put stores a document or replaces one, and Delete removes one.
LEMMA DocsTyped == Spec => []DocsType
<1>1. Init => DocsType
  BY DEF Init, DocsType
<1>2. DocsType /\ [Next]_docs => DocsType'
  BY DEF DocsType, Next, Put, Delete
<1> QED
  BY <1>1, <1>2, PTL DEF Spec

\* Whatever the documents, the indexes and the conditions are, and whichever of
\* the best indexes the optimizer takes, a scan that can be trusted finds the
\* documents that satisfy the conditions, all of them and no other (optimizer.go,
\* seekPrefix in indexing.go, queryScan in tx_util.go).
THEOREM ScansFindAll == Spec => []QueryFindsAll
  BY DocsTyped, FoundInType, PTL

\* docsHaving (tx.go:345-358) is not the filter that model.go:99 announces with
\* "Having applies a final filter after any aggregations have occured", which
\* would leave the rows that pass.  Unless it panics it leaves every row that
\* does not pass; the only row that passes is what it removes; and it panics
\* only if several rows pass.
THEOREM HavingIsTurnedRound ==
  ASSUME NEW n \in Nat, NEW w, NEW row \in [1..n -> Id]
  PROVE  LET passing == Passing(row, w)
             rows == Having([i \in 1..n |-> i], passing)
         IN  /\ ~rows.panic => (1..n) \ passing \subseteq ToSet(Left(rows))
             /\ Cardinality(passing) = 1 =>
                  ~rows.panic /\ ToSet(Left(rows)) = (1..n) \ passing
<1> DEFINE passing == Passing(row, w)
           rows == Having([i \in 1..n |-> i], passing)
<1>1. passing \in SUBSET (1..n)
  BY DEF Passing
<1>2. /\ rows.panic => Cardinality(passing) > 1
      /\ ~rows.panic => /\ (1..n) \ passing \subseteq ToSet(Left(rows))
                        /\ Cardinality(passing) = 1 => ToSet(Left(rows)) = (1..n) \ passing
  BY <1>1, Dropped
<1> HIDE DEF passing, rows
<1>3. /\ ~rows.panic => (1..n) \ passing \subseteq ToSet(Left(rows))
      /\ Cardinality(passing) = 1 => ~rows.panic /\ ToSet(Left(rows)) = (1..n) \ passing
  BY <1>2
<1> QED
  BY <1>3 DEF passing, rows

\* Whatever is found, and whatever an order compares, the pages of a query show
\* all of it, have no document in common, and come in that order, if they are of
\* one plan and nothing is sorted, or if the order decides (Query in tx.go,
\* orderByDocs in util.go).
THEOREM PagesFitTogether == Spec => []PagesPartition
  BY DocsTyped, PagesFit, PTL

\* Whatever is found and whatever it is grouped by, every document found is in
\* exactly one group, and the count, the sum, the maximum from 0 and the minimum
\* from 0 of a group are those of the set of its documents, in whatever order the
\* scan came by them (groupByDocs, aggregateDocs and applyAggregates in util.go).
THEOREM AggregatesAreExact == Spec => []AggregatesAreRight
  BY DocsTyped, AggregatesFit, PTL
=============================================================================
