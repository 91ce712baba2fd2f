----------------------------- MODULE QueryScan -----------------------------
(***************************************************************************)
(* How a query finds documents: the optimizer (optimizer.go) picks an      *)
(* index from the conditions, seekPrefix (indexing.go) turns them into the *)
(* prefix and the starting point of an iterator, and queryScan (tx_util.go)*)
(* filters what the iterator runs into by all the conditions.              *)
(*                                                                         *)
(* A key is a sequence of tokens, ordered as the store orders keys; ids,   *)
(* field names and encoded values are naturals here.  Joins and computed   *)
(* fields are left out, and so are values that are not numbers: they are   *)
(* matched and sought in the same way, but have no lt, lte, gt and gte.    *)
(***************************************************************************)
EXTENDS Integers, Sequences, SequencesExt

CONSTANTS Id, Field, PK,  \* document ids, fields, the field of the primary key
          Value, Absent,  \* what a field holds
          Index,          \* indexes: a name, their fields, whether primary
          MaxWhere        \* bound on the number of conditions

Primary == CHOOSE i \in Index : i.primary
ASSUME IndexAssumption ==
  /\ \A i \in Index : i.fields \in Seq(Field \cup {PK}) /\ i.fields # << >>
  /\ Primary.fields = <<PK>> /\ \A i \in Index \ {Primary} : ~i.primary
ASSUME TokenAssumption ==
  /\ Id \subseteq Nat /\ Field \cup {PK} \subseteq Nat /\ PK \notin Field
  /\ Value \subseteq Int /\ Absent \notin Value \cup Id

VARIABLE docs  \* the documents the transaction sees, by id

NoDoc == << >>
Doc == [Field -> Value \cup {Absent}]

\* Get of a field; numbers are compared after GetFloat, 0 if absent.
At(id, f) == IF f = PK THEN id ELSE docs[id][f]
Num(id, f) == IF At(id, f) = Absent THEN 0 ELSE At(id, f)

Cond == [field : {PK}, op : {"eq"}, value : Id]
        \cup [field : Field, op : {"eq", "neq", "lt", "lte", "gt", "gte"}, value : Value]
Wheres == UNION {[1..n -> Cond] : n \in 0..MaxWhere}

\* Document.Where.
Passes(id, w) ==
  \A i \in DOMAIN w :
    LET c == w[i]
    IN  /\ c.op = "eq"  => At(id, c.field) = c.value
        /\ c.op = "neq" => At(id, c.field) # c.value
        /\ c.op = "lt"  => Num(id, c.field) < c.value
        /\ c.op = "lte" => Num(id, c.field) <= c.value
        /\ c.op = "gt"  => Num(id, c.field) > c.value
        /\ c.op = "gte" => Num(id, c.field) >= c.value

-----------------------------------------------------------------------------
\* The fields of an index that the conditions, taken in the same order, fix.
Positions(i, w) == {n \in DOMAIN i.fields \cap DOMAIN w : i.fields[n] = w[n].field}

\* Mutation: any condition on the field counts as an equality.
MatchedAnyOp(i, w) == {i.fields[n] : n \in Positions(i, w)}

Matched(i, w) == {i.fields[n] : n \in {m \in Positions(i, w) : w[m].op = "eq"}}

\* A bound on the last field of the index is sought.
Sought(i, w) ==
  {n \in Positions(i, w) : n = Len(i.fields) /\ w[n].op \in {"lt", "lte", "gt", "gte"}}
Backwards(i, w) == \E n \in Sought(i, w) : w[n].op \in {"lt", "lte"}

Plan(i, matched, seek, reverse) ==
  [index |-> i, matched |-> matched, seek |-> seek, reverse |-> reverse]
FullScan == Plan(Primary, {}, {}, FALSE)

PlanOf(i, w) == Plan(i, Matched(i, w), {i.fields[n] : n \in Sought(i, w)}, Backwards(i, w))
Uses(p) == p.matched \cup p.seek
Size(i, w) == Len(SelectSeq(i.fields, LAMBDA f : f \in Uses(PlanOf(i, w))))

\* Optimize: indexes are looked at in no particular order, and the last of
\* those that use most fields is taken.
Plans(w) ==
  IF w # << >> /\ w[1].field = PK /\ w[1].op = "eq" THEN {Plan(Primary, {PK}, {}, FALSE)}
  ELSE LET best == {i \in Index : \A j \in Index : Size(j, w) <= Size(i, w)}
       IN {IF Size(i, w) = 0 THEN FullScan ELSE PlanOf(i, w) : i \in best}

-----------------------------------------------------------------------------
\* EncodeIndexValue: eight bytes, and no negative numbers.
Encode(v) == IF v < 0 THEN 0 ELSE v

\* getMatchedFieldValues: the last condition on the field, whatever its kind.
ValueOf(w, f) == Encode(w[SelectLastInSeq(w, LAMBDA c : c.field = f)].value)

\* seekPrefix: the fields that are given a value, in the order of the index.
Part(f, value) == IF f \in DOMAIN value THEN <<f, value[f]>> ELSE << >>
Path(i, value) ==
  LET first[n \in 0..Len(i.fields)] ==
        IF n = 0 THEN << >> ELSE first[n - 1] \o Part(i.fields[n], value)
  IN  first[Len(i.fields)]

\* The key of a document in an index leaves out the fields it does not have.
Key(i, id) ==
  Path(i, [f \in {g \in Field \cup {PK} : At(id, g) # Absent} |-> Encode(At(id, f))]) \o <<id>>

Prefix(p, w) == Path(p.index, [f \in p.matched |-> ValueOf(w, f)])
Start(p, w) == Prefix(p, w) \o Path(p.index, [f \in p.seek |-> ValueOf(w, f)])

\* The order of keys.
UpTo(s, t) ==
  \E n \in 0..Len(s) :
    /\ n <= Len(t) /\ \A m \in 1..n : s[m] = t[m]
    /\ n = Len(s) \/ (n < Len(t) /\ s[n + 1] < t[n + 1])

\* What the iterator runs into, from the starting point to the end of the prefix.
Visited(p, w) ==
  {id \in Id : /\ docs[id] # NoDoc
               /\ IsPrefix(Prefix(p, w), Key(p.index, id))
               /\ IF p.reverse THEN UpTo(Key(p.index, id), Start(p, w))
                  ELSE UpTo(Start(p, w), Key(p.index, id))}

Found(p, w) == {id \in Visited(p, w) : Passes(id, w)}

-----------------------------------------------------------------------------
Init == docs = [id \in Id |-> NoDoc]

Put(id, d) == docs' = [docs EXCEPT ![id] = d]
Delete(id) == docs[id] # NoDoc /\ docs' = [docs EXCEPT ![id] = NoDoc]

Next == \E id \in Id : Delete(id) \/ \E d \in Doc : Put(id, d)

Spec == Init /\ [][Next]_docs

-----------------------------------------------------------------------------
\* A plan the scan can be trusted with.  Where one of these fails, documents
\* that satisfy the query may be missed: the index names a field twice; the
\* fields used are not the first ones of the index (the optimizer compares
\* position by position, optimizer.go:60); a field used has a second condition
\* (the last one decides the prefix and where to start, optimizer.go:99-107);
\* the scan runs backwards (it starts below the keys of the value itself,
\* optimizer.go:69-74); or documents without the field sought satisfy the
\* condition, since it counts as 0, and have no key there.
Trusted(p, w) ==
  /\ \A m, n \in DOMAIN p.index.fields : p.index.fields[m] = p.index.fields[n] => m = n
  /\ \E n \in 0..Len(p.index.fields) : Uses(p) = {p.index.fields[m] : m \in 1..n}
  /\ \A f \in Uses(p) : \A m, n \in DOMAIN w : w[m].field = f /\ w[n].field = f => m = n
  /\ ~p.reverse
  /\ \A m \in DOMAIN w : w[m].field \in p.seek =>
       w[m].value > 0 \/ (w[m].op = "gt" /\ w[m].value = 0)

\* Where the plan can be trusted, a query finds every document that satisfies
\* its conditions and no other, whichever of the best indexes the optimizer
\* happens to take, or none (queryScan, tx_util.go:383-508).
QueryFindsAll ==
  \A w \in Wheres : \A p \in Plans(w) :
    Trusted(p, w) => Found(p, w) = {id \in Id : docs[id] # NoDoc /\ Passes(id, w)}
=============================================================================
