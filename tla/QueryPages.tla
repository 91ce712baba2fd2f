----------------------------- MODULE QueryPages -----------------------------
(***************************************************************************)
(* What a query makes of the documents it has found (tx.go, util.go): it   *)
(* orders them and cuts out a page, or groups them, aggregates each group, *)
(* and filters the groups.                                                 *)
(*                                                                         *)
(* Values are whole numbers, as in QueryScan.  What is selected of a       *)
(* document, and under which name, is left out.                            *)
(***************************************************************************)
EXTENDS QueryScan, FiniteSetsExt

CONSTANTS Orders,   \* orderings: sequences of [field, desc]
          MaxLimit  \* bound on the size of a page

ASSUME FiniteAssumption == IsFiniteSet(Id)
ASSUME OrdersAssumption == Orders \subseteq Seq([field : Field \cup {PK}, desc : BOOLEAN])

\* The documents found, as the iterator runs into them.
Before(p, a, b) ==
  IF p.reverse THEN UpTo(Key(p.index, b), Key(p.index, a))
  ELSE UpTo(Key(p.index, a), Key(p.index, b))
InScanOrder(p, w) ==
  CHOOSE s \in SetToSeqs(Found(p, w)) : \A m, n \in DOMAIN s : m < n => Before(p, s[m], s[n])

-----------------------------------------------------------------------------
\* compareField: a number is compared with 0 if the other document lacks the
\* field; a document that lacks it compares as text, "null" after any number.
Exceeds(field, a, b) == At(a, field) = Absent \/ At(a, field) > Num(b, field)

\* The comparison of orderByDocs: the first field in which they differ decides.
Precedes(order, a, b) ==
  \E n \in DOMAIN order :
    /\ At(a, order[n].field) # At(b, order[n].field)
    /\ \A m \in 1..n-1 : At(a, order[m].field) = At(b, order[m].field)
    /\ IF order[n].desc THEN Exceeds(order[n].field, a, b) ELSE ~Exceeds(order[n].field, a, b)

\* A comparison sort.Slice can work with; with any other it returns the
\* documents in some order.
IsOrdering(order, S) ==
  \A a, b, c \in S :
    /\ ~(Precedes(order, a, b) /\ Precedes(order, b, a))
    /\ Precedes(order, a, b) => Precedes(order, a, c) \/ Precedes(order, c, b)

\* orderByDocs: what sort.Slice, which is not stable, may return.
Sorted(order, s) ==
  IF order = << >> THEN {s}
  ELSE {r \in SetToSeqs(ToSet(s)) :
          IsOrdering(order, ToSet(s)) =>
            \A m, n \in DOMAIN r : m < n => ~Precedes(order, r[n], r[m])}

\* Mutation: a page begins with the last document of the one before.
SliceOverlapping(s, limit, page) ==
  SubSeq(s, IF page = 0 THEN 1 ELSE limit * page, Min({limit * (page + 1), Len(s)}))

\* Page 0 without an order is cut short by the scan itself, to the same effect.
Slice(s, limit, page) == SubSeq(s, limit * page + 1, Min({limit * (page + 1), Len(s)}))

\* Query, for a limit greater than 0; with none, every page is everything.
Pages(p, w, order, limit, page) ==
  {Slice(s, limit, page) : s \in Sorted(order, InScanOrder(p, w))}

-----------------------------------------------------------------------------
\* groupByDocs.  Two groups whose values join to the same text are one: "1.1"
\* and "1", "1" and "1.1".  Whole numbers have no dots.
Values(by, id) == [n \in DOMAIN by |-> At(id, by[n])]
Group(by, s, values) ==
  FoldLeft(LAMBDA group, id : IF Values(by, id) = values THEN Append(group, id) ELSE group, << >>, s)
Groups(by, s) == {Group(by, s, Values(by, id)) : id \in ToSet(s)}

\* applyAggregates.
Apply(function, current, value) ==
  CASE function = "count" -> current + 1
    [] function = "max"   -> IF value > current THEN value ELSE current
    [] function = "min"   -> IF value < current THEN value ELSE current
    [] function = "sum"   -> current + value

\* Mutation: the document that opens a group is not aggregated.
AggregateRest(function, field, group) ==
  FoldLeft(LAMBDA current, id : Apply(function, current, Num(id, field)), 0, Tail(group))

\* aggregateDocs: what is not there yet counts as 0.
Aggregate(function, field, group) ==
  FoldLeft(LAMBDA current, id : Apply(function, current, Num(id, field)), 0, group)

\* util.RemoveElement moves the later elements down, in the array that
\* docsHaving is ranging over; beyond its end it panics.
Drop(rows, i) ==
  IF i > rows.len THEN [rows EXCEPT !.panic = TRUE]
  ELSE [rows EXCEPT !.len = @ - 1,
                    !.array = [n \in DOMAIN @ |-> IF i <= n /\ n < rows.len THEN @[n + 1] ELSE @[n]]]

\* docsHaving, which removes rows that pass, though model.go:99 says "Having
\* applies a final filter": one turn of its loop, and all.
Turn(rows, i, passing) ==
  IF rows.panic \/ rows.array[i] \notin passing THEN rows ELSE Drop(rows, i)

Having(row, passing) ==
  LET after[i \in 0..Len(row)] ==
        IF i = 0 THEN [array |-> row, len |-> Len(row), panic |-> FALSE]
        ELSE Turn(after[i - 1], i, passing)
  IN  after[Len(row)]

\* The rows that pass; with no conditions none is looked at.
Passing(row, w) == {i \in DOMAIN row : w # << >> /\ Passes(row[i], w)}
Left(rows) == SubSeq(rows.array, 1, rows.len)

-----------------------------------------------------------------------------
Single == {w \in Wheres : Len(w) <= 1}
PageNumbers == 0..Cardinality(Id)
Complete(order, S) == \A n \in DOMAIN order : \A a \in S : At(a, order[n].field) # Absent
Decides(order, S) ==
  \A a, b \in S : a # b => \E n \in DOMAIN order : At(a, order[n].field) # At(b, order[n].field)

\* What an order compares, so that the lesser comes first.
Rank(order, id) ==
  [n \in DOMAIN order |-> IF order[n].desc THEN 0 - At(id, order[n].field) ELSE At(id, order[n].field)]

\* The documents that may come on a page.
OnPage(p, w, order, limit, page) == UNION {ToSet(s) : s \in Pages(p, w, order, limit, page)}

\* Two pages of a query share no document, all of them together are what was
\* found, and they come in the order asked for, each field in its own direction
\* (Query, tx.go:158-178; orderByDocs, util.go:77-130) - if both pages come
\* from the same plan and nothing is sorted, or if the order leaves no two
\* documents equal and all of them have its fields.  Otherwise they may not:
\* the optimizer may take another of several equally good indexes for every
\* page, documents between which the order does not decide come as they were
\* scanned, and with a field missing the comparison is none.
PagesPartition ==
  \A w \in Single, order \in Orders, limit \in 1..MaxLimit : \A p, q \in Plans(w) :
    LET found == Found(p, w)
    IN  \/ order = << >> /\ p = q
        \/ found = Found(q, w) /\ Complete(order, found) /\ Decides(order, found)
        => /\ UNION {OnPage(p, w, order, limit, page) : page \in PageNumbers} = found
           /\ \A m, n \in PageNumbers : m < n =>
                \A a \in OnPage(p, w, order, limit, m), b \in OnPage(q, w, order, limit, n) :
                  a # b /\ UpTo(Rank(order, a), Rank(order, b))

\* The documents grouped with another, and what is to be made of a group.
Alike(by, s, id) == {other \in ToSet(s) : Values(by, other) = Values(by, id)}
RightOf(g, members, f) ==
  LET nums == {Num(id, f) : id \in members}
  IN  /\ Aggregate("count", f, g) = Cardinality(members)
      /\ Aggregate("sum", f, g) = MapThenSumSet(LAMBDA id : Num(id, f), members)
      /\ Max(nums) >= 0 => Aggregate("max", f, g) = Max(nums)
      /\ Min(nums) <= 0 => Aggregate("min", f, g) = Min(nums)

\* Every document found is counted in exactly one group, and of every group
\* the count and the sum are right, the maximum if it is not below 0, and the
\* minimum if it is not above 0: both start from 0 (model.go:73: "gets the max
\* value in a set of documents"; aggregateDocs, util.go:132-211).
AggregatesAreRight ==
  \A w \in Single : \A p \in Plans(w) : \A by \in {<< >>} \cup {<<f>> : f \in Field} :
    LET s == InScanOrder(p, w)
    IN  /\ \A id \in ToSet(s) : Cardinality({g \in Groups(by, s) : id \in ToSet(g)}) = 1
        /\ \A g \in Groups(by, s), f \in Field : RightOf(g, Alike(by, s, g[1]), f)
=============================================================================
