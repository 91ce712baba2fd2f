--------------------------- MODULE ChangesProofs ---------------------------
(***************************************************************************)
(* Proofs about Changes.                                                   *)
(*                                                                         *)
(* What the log and the documents have in common (LogInv) is proved with   *)
(* what an open transaction sees of them (ViewInv): so many committed      *)
(* changes and then its own.  TimeTravel undoes the changes of a document  *)
(* from the last place in the log on to the first, which is an induction   *)
(* over the changes undone.                                                *)
(***************************************************************************)
EXTENDS Changes, FiniteSetTheorems, WellFoundedInduction, TLAPS

-----------------------------------------------------------------------------
(* Numbers and sequences.                                                    *)

\* Every nonempty set of naturals has a least element.
LEMMA LeastElement ==
  ASSUME NEW T, T \subseteq Nat, T # {}
  PROVE  \E n \in T : \A m \in T : n <= m
<1>1. IsWellFoundedOn(OpToRel(<, Nat), Nat)
  BY NatLessThanWellFounded
<1>2. PICK n \in T : \A m \in T : ~(<<m, n>> \in OpToRel(<, Nat))
  BY <1>1, WFMin
<1>3. \A m \in T : ~(m < n)
  BY <1>2 DEF OpToRel
<1> QED
  BY <1>3

\* Induction, for the set of the numbers that have a property.
LEMMA SetInduction ==
  ASSUME NEW T, 0 \in T, \A n \in Nat : n \in T => n + 1 \in T
  PROVE  Nat \subseteq T
<1> SUFFICES ASSUME Nat \ T # {} PROVE FALSE
  OBVIOUS
<1>1. PICK n \in Nat \ T : \A m \in Nat \ T : n <= m
  BY LeastElement
<1>2. n # 0 /\ n - 1 \in Nat
  BY <1>1
<1>3. n - 1 \in T
  BY <1>1, <1>2
<1>4. (n - 1) + 1 \in T
  BY <1>2, <1>3
<1> QED
  BY <1>1, <1>4

\* Places in a log have a first one and a last one.
LEMMA MinPlace ==
  ASSUME NEW T, T \subseteq Nat, T # {}
  PROVE  Min(T) \in T /\ \A m \in T : Min(T) <= m
BY LeastElement DEF Min

\* And a last one.
LEMMA MaxPlace ==
  ASSUME NEW n \in Nat, NEW T, T \subseteq 1 .. n, T # {}
  PROVE  Max(T) \in T /\ \A m \in T : m <= Max(T)
<1> DEFINE R == {n - m : m \in T}
<1>1. R \subseteq Nat /\ R # {}
  <2>1. \A m \in T : n - m \in Nat
    OBVIOUS
  <2> QED
    BY <2>1
<1>2. PICK r \in R : \A q \in R : r <= q
  BY <1>1, LeastElement
<1>3. PICK k \in T : r = n - k
  BY <1>2
<1>4. \A m \in T : n - m \in R
  OBVIOUS
<1> HIDE DEF R
<1>5. \A m \in T : k >= m
  <2> SUFFICES ASSUME NEW m \in T PROVE k >= m
    OBVIOUS
  <2>1. n - k <= n - m
    BY <1>2, <1>3, <1>4
  <2> QED
    BY <1>3, <2>1
<1> QED
  BY <1>3, <1>5 DEF Max

-----------------------------------------------------------------------------
(* Documents and their differences.                                          *)

Docs == [Coll -> [Id -> Doc \cup {NoDoc}]]

\* What commands make of documents are documents.
LEMMA DocTypes ==
  ASSUME NEW d \in Doc \cup {NoDoc}, NEW e \in Doc
  PROVE  /\ Bare \in Doc /\ FieldsOf(d) \in Doc
         /\ WithDefaults(e) \in Doc /\ Keeping(d, e) \in Doc
         /\ d # NoDoc => Merge(d, e) \in Doc
<1>1. Bare \in Doc /\ FieldsOf(d) \in Doc
  BY DEF Bare, FieldsOf, Doc
<1>2. WithDefaults(e) \in Doc
  BY SchemaAssumption DEF WithDefaults, Doc
<1>3. Keeping(d, e) \in Doc
  BY <1>2 DEF Keeping, Doc
<1>4. d # NoDoc => Merge(d, e) \in Doc
  BY DEF Merge, Doc
<1> QED
  BY <1>1, <1>2, <1>3, <1>4

\* A difference of two documents is one.
LEMMA DiffType ==
  ASSUME NEW d \in Doc, NEW e \in Doc
  PROVE  Diff(d, e) \in Diffs
<1> DEFINE F == {g \in Field : d[g] # e[g]}
<1>1. Diff(d, e) \in [F -> Op]
  BY DEF Diff, Op, Doc
<1>2. F \in SUBSET Field
  OBVIOUS
<1> QED
  BY <1>1, <1>2 DEF Diffs

\* What a difference is made of.
LEMMA DiffParts ==
  ASSUME NEW diff \in Diffs
  PROVE  /\ DOMAIN diff \subseteq Field
         /\ \A f \in DOMAIN diff : diff[f].value \in Val \cup {Absent} /\ diff[f].before \in Val \cup {Absent}
BY DEF Diffs, Op

\* Undoing a difference gives a document.
LEMMA RevertType ==
  ASSUME NEW d \in Doc, NEW diff \in Diffs
  PROVE  RevertOps(d, diff) \in Doc
BY DiffParts DEF RevertOps, Doc

-----------------------------------------------------------------------------
(* TimeTravel: undoing changes one after the other, by induction.            *)

\* u is what Undone computes: one row per change undone.
IsUndoing(u, m, d, l, o) ==
  u = [n \in 0 .. m |-> IF n = 0 THEN d ELSE RevertOps(u[n - 1], l[o[n]].diff)]

\* One more change can be undone.
LEMMA UndoingGrows ==
  ASSUME NEW d, NEW l, NEW o, NEW m \in Nat, NEW u, IsUndoing(u, m, d, l, o)
  PROVE  \E w : IsUndoing(w, m + 1, d, l, o)
<1> DEFINE row == RevertOps(u[m], l[o[m + 1]].diff)
           w == [n \in 0 .. (m + 1) |-> IF n = m + 1 THEN row ELSE u[n]]
<1>1. \A n \in 0 .. m : w[n] = u[n]
  OBVIOUS
<1>2. \A n \in 0 .. m :
        u[n] = IF n = 0 THEN d ELSE RevertOps(u[n - 1], l[o[n]].diff)
  BY DEF IsUndoing
<1>3. w[m + 1] = row
  OBVIOUS
<1>4. ASSUME NEW n \in 0 .. (m + 1)
      PROVE  w[n] = IF n = 0 THEN d ELSE RevertOps(w[n - 1], l[o[n]].diff)
  <2>1. CASE n = m + 1
    <3>1. n # 0 /\ n - 1 = m /\ m \in 0 .. m
      BY <2>1
    <3>2. w[n - 1] = u[m]
      BY <1>1, <3>1
    <3> HIDE DEF w
    <3> QED
      BY <1>3, <2>1, <3>1, <3>2
  <2>2. CASE n \in 0 .. m /\ n # 0
    <3>1. n - 1 \in 0 .. m
      BY <2>2
    <3>2. w[n] = u[n] /\ w[n - 1] = u[n - 1]
      BY <1>1, <2>2, <3>1
    <3> HIDE DEF w
    <3> QED
      BY <1>2, <2>2, <3>2
  <2>3. CASE n = 0
    <3>1. w[0] = u[0] /\ u[0] = d
      BY <1>1, <1>2
    <3> HIDE DEF w
    <3> QED
      BY <2>3, <3>1
  <2> QED
    BY <2>1, <2>2, <2>3
<1>5. DOMAIN w = 0 .. (m + 1) /\ w = [n \in 0 .. (m + 1) |-> w[n]]
  OBVIOUS
<1> HIDE DEF w
<1>6. w = [n \in 0 .. (m + 1) |-> IF n = 0 THEN d ELSE RevertOps(w[n - 1], l[o[n]].diff)]
  BY <1>4, <1>5
<1> QED
  BY <1>6 DEF IsUndoing

\* So any number can.
LEMMA UndoingExists ==
  ASSUME NEW d, NEW l, NEW o, NEW m \in Nat
  PROVE  \E u : IsUndoing(u, m, d, l, o)
<1> DEFINE T == {n \in Nat : \E u : IsUndoing(u, n, d, l, o)}
<1>1. 0 \in T
  <2>1. IsUndoing([n \in 0 .. 0 |-> d], 0, d, l, o)
    BY DEF IsUndoing
  <2> QED
    BY <2>1
<1>2. \A n \in Nat : n \in T => n + 1 \in T
  BY UndoingGrows
<1> HIDE DEF T
<1>3. Nat \subseteq T
  BY <1>1, <1>2, SetInduction
<1> QED
  BY <1>3 DEF T

\* The document after each of the changes in o has been undone.
HasUndone(u, d, l, o) ==
  /\ u[0] = d
  /\ \A n \in Nat : n < Len(o) => u[n + 1] = RevertOps(u[n], l[o[n + 1]].diff)

\* Undone is the last of such rows: its function exists.
LEMMA UndoneRows ==
  ASSUME NEW d, NEW l, NEW o, Len(o) \in Nat
  PROVE  \E u : HasUndone(u, d, l, o) /\ Undone(d, l, o) = u[Len(o)]
<1> DEFINE N == Len(o)
           u == CHOOSE f : IsUndoing(f, N, d, l, o)
<1>1. IsUndoing(u, N, d, l, o)
  <2>1. \E f : IsUndoing(f, N, d, l, o)
    BY UndoingExists
  <2> QED
    BY <2>1
<1>2. Undone(d, l, o) = u[N]
  BY DEF Undone, IsUndoing
<1> HIDE DEF u, N
<1>3. \A n \in 0 .. N :
        u[n] = IF n = 0 THEN d ELSE RevertOps(u[n - 1], l[o[n]].diff)
  BY <1>1 DEF IsUndoing
<1>4. N \in Nat
  BY DEF N
<1>5. u[0] = d
  BY <1>3, <1>4
<1>6. ASSUME NEW n \in Nat, n < N
      PROVE  u[n + 1] = RevertOps(u[n], l[o[n + 1]].diff)
  <2>1. n + 1 \in 0 .. N /\ n + 1 # 0 /\ (n + 1) - 1 = n
    BY <1>4, <1>6
  <2>2. u[n + 1] = RevertOps(u[(n + 1) - 1], l[o[n + 1]].diff)
    BY <1>3, <2>1
  <2> QED
    BY <2>1, <2>2
<1> QED
  BY <1>2, <1>5, <1>6 DEF HasUndone, N

-----------------------------------------------------------------------------
(* Types.                                                                    *)

TxState == [status : Status, actor : Actor, docs : Docs \cup {<< >>}, log : Seq(Change),
            own : Seq(Change), reads : SUBSET (Coll \X Id), dirty : SUBSET (Coll \X Id),
            after : SUBSET Tx, sent : Nat]
SubState == [on : BOOLEAN, queue : Seq(Message), got : Seq(Message), from : SUBSET Tx]

\* What every state x of transaction t is like.
OfTx(t, x) ==
  /\ x \in TxState
  /\ x.sent <= Len(x.own)
  /\ \A n \in DOMAIN x.own : x.own[n].n = n /\ x.own[n].tx = t
  /\ x.status \in {"new", "rolledback"} => x.own = << >>
  /\ x.status = "open" => x.docs \in Docs

TInv ==
  /\ docs \in Docs
  /\ log \in Seq(Change)
  /\ now \in 0 .. MaxTime
  /\ tx = [t \in Tx |-> tx[t]]
  /\ \A t \in Tx : OfTx(t, tx[t])
  /\ subs \in [Sub -> SubState]

\* This is more than TypeOK says.
LEMMA TInvTypes == TInv => TypeOK
<1> SUFFICES ASSUME TInv PROVE TypeOK
  OBVIOUS
<1>1. docs \in [Coll -> [Id -> Doc \cup {NoDoc}]] /\ now \in 0 .. MaxTime
  BY DEF TInv, Docs
<1>2. \A i \in DOMAIN log : log[i] \in Change
  BY DEF TInv
<1>3. ASSUME NEW t \in Tx
      PROVE  /\ tx[t].status \in Status /\ tx[t].actor \in Actor
             /\ tx[t].reads \cup tx[t].dirty \subseteq Coll \X Id
             /\ tx[t].after \subseteq Tx
             /\ tx[t].sent \in 0 .. Len(tx[t].own)
             /\ \A n \in DOMAIN tx[t].own : tx[t].own[n] \in Change /\ tx[t].own[n].n = n
             /\ tx[t].status \in {"new", "rolledback"} => tx[t].own = << >>
  <2>1. PICK x : x = tx[t]
    OBVIOUS
  <2>2. OfTx(t, x)
    BY <2>1 DEF TInv
  <2>3. x.own \in Seq(Change) /\ x.sent \in Nat /\ x.sent <= Len(x.own)
    BY <2>2 DEF OfTx, TxState
  <2>4. x.sent \in 0 .. Len(x.own) /\ \A n \in DOMAIN x.own : x.own[n] \in Change
    BY <2>3
  <2>5. x.status \in Status /\ x.actor \in Actor /\ x.after \subseteq Tx
        /\ x.reads \cup x.dirty \subseteq Coll \X Id
    BY <2>2 DEF OfTx, TxState
  <2>6. /\ \A n \in DOMAIN x.own : x.own[n].n = n
        /\ x.status \in {"new", "rolledback"} => x.own = << >>
    BY <2>2 DEF OfTx
  <2> QED
    BY <2>1, <2>4, <2>5, <2>6
<1>4. ASSUME NEW s \in Sub
      PROVE  /\ subs[s].on \in BOOLEAN /\ subs[s].from \subseteq Tx
             /\ \A m \in ToSet(subs[s].queue \o subs[s].got) : m \in Message
  <2>1. PICK x : x = subs[s]
    OBVIOUS
  <2>2. x \in SubState
    BY <2>1 DEF TInv
  <2>3. x.queue \in Seq(Message) /\ x.got \in Seq(Message)
    BY <2>2 DEF SubState
  <2>4. x.queue \o x.got \in Seq(Message)
    BY <2>3
  <2>5. \A m \in ToSet(x.queue \o x.got) : m \in Message
    <3>1. PICK q : q = x.queue \o x.got
      OBVIOUS
    <3>2. q \in Seq(Message)
      BY <2>4, <3>1
    <3>3. \A i \in DOMAIN q : q[i] \in Message
      BY <3>2
    <3> QED
      BY <3>1, <3>3 DEF ToSet
  <2> QED
    BY <2>1, <2>2, <2>5 DEF SubState
<1> QED
  BY <1>1, <1>2, <1>3, <1>4 DEF TypeOK

\* A transaction not yet begun.
LEMMA FreshType ==
  Fresh \in TxState /\ Fresh.own = << >> /\ Fresh.sent = 0 /\ Fresh.status = "new"
BY RulesAssumption DEF TxState, Fresh, Status

\* Of the initial states.
LEMMA InitTypes == Init => TInv
<1> SUFFICES ASSUME Init PROVE TInv
  OBVIOUS
<1>1. docs \in Docs /\ log \in Seq(Change) /\ now \in 0 .. MaxTime
  BY BoundAssumption DEF Init, Docs
<1>2. \A t \in Tx : OfTx(t, Fresh)
  BY FreshType DEF OfTx
<1>3. Quiet \in SubState
  BY DEF Quiet, SubState
<1> QED
  BY <1>1, <1>2, <1>3 DEF TInv, Init

\* The parts of a transaction's state.
LEMMA TxParts ==
  ASSUME TInv, NEW t \in Tx, NEW x, x = tx[t]
  PROVE  /\ x \in TxState /\ x.status \in Status /\ x.actor \in Actor
         /\ x.log \in Seq(Change) /\ x.own \in Seq(Change)
         /\ x.reads \in SUBSET (Coll \X Id) /\ x.sent \in Nat /\ x.sent <= Len(x.own)
         /\ \A n \in DOMAIN x.own : x.own[n].n = n /\ x.own[n].tx = t
         /\ x.status = "open" => x.docs \in Docs
<1>1. OfTx(t, x)
  BY DEF TInv
<1> QED
  BY <1>1 DEF OfTx, TxState

\* A step of one transaction that keeps it well formed.
LEMMA BecomesTypes ==
  ASSUME TInv, NEW t \in Tx, NEW x, Becomes(t, x), OfTx(t, x), now' \in 0 .. MaxTime
  PROVE  TInv'
<1>1. tx' = [u \in Tx |-> IF u = t THEN x ELSE tx[u]]
  BY DEF TInv, Becomes
<1>2. \A u \in Tx : OfTx(u, tx'[u])
  BY <1>1 DEF TInv
<1> QED
  BY <1>1, <1>2 DEF TInv, Becomes

-----------------------------------------------------------------------------
(* What the commands do: one write, or nothing.                              *)

\* What a command makes of the document it found.
Outcome(before, action, cmd, stored) ==
  /\ action # "update" => FieldsOf(stored) = cmd
  /\ \A f \in Field : cmd[f] = FieldsOf(before)[f] => FieldsOf(stored)[f] = FieldsOf(before)[f]
  /\ action \in {"set", "update"} /\ before # NoDoc => stored # NoDoc /\ \A f \in Fixed : stored[f] = before[f]

\* A create, a set, an update, a delete or a revert.
Writes(t, c, id, action, cmd, stored) ==
  /\ Working(t) /\ action \in Action
  /\ cmd \in Doc /\ stored \in Doc \cup {NoDoc}
  /\ Outcome(Before(tx[t], c, id), action, cmd, stored)
  /\ Persist(t, c, id, action, cmd, stored)

\* What a command finds.
LEMMA BeforeType ==
  ASSUME TInv, NEW t \in Tx, NEW c \in Coll, NEW id \in Id, tx[t].status = "open"
  PROVE  Before(tx[t], c, id) \in Doc \cup {NoDoc}
<1>1. tx[t].docs \in Docs
  BY TxParts
<1> QED
  BY <1>1 DEF Before, Docs

\* setDocument stores the document of the command, fixed fields kept.
LEMMA SetWrites ==
  ASSUME TInv, NEW t \in Tx, NEW c \in Coll, NEW id \in Id, NEW d \in Doc, Set(t, c, id, d)
  PROVE  \E cmd, stored : Writes(t, c, id, "set", cmd, stored)
<1> DEFINE b == Before(tx[t], c, id)
           cmd == Keeping(b, d)
<1>1. Working(t) /\ Persist(t, c, id, "set", cmd, cmd)
  BY DEF Set
<1>2. b \in Doc \cup {NoDoc}
  BY <1>1, BeforeType DEF Working
<1> HIDE DEF b
<1>3. cmd \in Doc
  BY <1>2, DocTypes
<1>4. cmd # NoDoc /\ FieldsOf(cmd) = cmd
  BY <1>3, NamesAssumption DEF FieldsOf
<1>5. b # NoDoc => \A f \in Fixed : cmd[f] = b[f]
  BY SchemaAssumption DEF Keeping
<1> HIDE DEF cmd
<1>6. Outcome(b, "set", cmd, cmd)
  BY <1>4, <1>5 DEF Outcome
<1>7. "set" \in Action
  BY DEF Action
<1> QED
  BY <1>1, <1>3, <1>6, <1>7 DEF Writes, b

\* updateDocument merges; a field as it was stays as it was.
LEMMA UpdateWrites ==
  ASSUME TInv, NEW t \in Tx, NEW c \in Coll, NEW id \in Id, NEW p \in Doc, Update(t, c, id, p)
  PROVE  \E cmd, stored : Writes(t, c, id, "update", cmd, stored)
<1> DEFINE b == Before(tx[t], c, id)
           cmd == Keeping(b, p)
           new == Merge(b, cmd)
<1>1. Working(t) /\ b # NoDoc /\ Persist(t, c, id, "update", cmd, new)
  BY DEF Update
<1>2. b \in Doc \cup {NoDoc}
  BY <1>1, BeforeType DEF Working
<1> HIDE DEF b
<1>3. cmd \in Doc
  BY <1>2, DocTypes
<1>4. \A f \in Fixed : cmd[f] = b[f]
  BY <1>1, SchemaAssumption DEF Keeping
<1> HIDE DEF cmd
<1>5. new \in Doc
  BY <1>1, <1>2, <1>3, DocTypes
<1>6. new # NoDoc /\ FieldsOf(new) = new /\ FieldsOf(b) = b
  BY <1>1, <1>5, NamesAssumption DEF FieldsOf
<1>7. \A f \in Field : cmd[f] = b[f] => new[f] = b[f]
  BY DEF Merge
<1>8. \A f \in Fixed : new[f] = b[f]
  BY <1>4, <1>7, SchemaAssumption
<1> HIDE DEF new
<1>9. Outcome(b, "update", cmd, new)
  BY <1>6, <1>7, <1>8 DEF Outcome
<1>10. "update" \in Action
  BY DEF Action
<1> QED
  BY <1>1, <1>3, <1>5, <1>9, <1>10 DEF Writes, b

\* createDocument stores the document with its defaults.
LEMMA CreateWrites ==
  ASSUME TInv, NEW t \in Tx, NEW c \in Coll, NEW id \in Id, NEW d \in Doc, Create(t, c, id, d)
  PROVE  \E cmd, stored : Writes(t, c, id, "create", cmd, stored)
<1> DEFINE cmd == WithDefaults(d)
<1>1. Working(t) /\ Persist(t, c, id, "create", cmd, cmd)
  BY DEF Create
<1>2. cmd \in Doc
  BY DocTypes
<1>3. cmd # NoDoc /\ FieldsOf(cmd) = cmd
  BY <1>2, NamesAssumption DEF FieldsOf
<1> HIDE DEF cmd
<1>4. Outcome(Before(tx[t], c, id), "create", cmd, cmd)
  BY <1>3 DEF Outcome
<1>5. "create" \in Action
  BY DEF Action
<1> QED
  BY <1>1, <1>2, <1>4, <1>5 DEF Writes

\* deleteDocument compares with a document that has nothing.
LEMMA DeleteWrites ==
  ASSUME TInv, NEW t \in Tx, NEW c \in Coll, NEW id \in Id, Delete(t, c, id)
  PROVE  \E cmd, stored : Writes(t, c, id, "delete", cmd, stored)
<1>1. Working(t) /\ Persist(t, c, id, "delete", Bare, NoDoc)
  BY DEF Delete
<1>2. Bare \in Doc
  BY DocTypes DEF Bare, Doc
<1>3. FieldsOf(NoDoc) = Bare
  BY DEF FieldsOf
<1>4. Outcome(Before(tx[t], c, id), "delete", Bare, NoDoc)
  BY <1>3 DEF Outcome
<1>5. "delete" \in Action
  BY DEF Action
<1> QED
  BY <1>1, <1>2, <1>4, <1>5 DEF Writes

\* The order TimeTravel works in: some numbering of the changes.
LEMMA OrderOf ==
  ASSUME NEW l \in Seq(Change), NEW c, NEW id, NEW time, NEW S, S = Since(l, c, id, time), NEW o \in NewestFirst(l, S)
  PROVE  /\ Cardinality(S) \in Nat /\ Len(o) = Cardinality(S)
         /\ S \subseteq DOMAIN l /\ o \in [1 .. Len(o) -> S]
         /\ \A a, b \in 1 .. Len(o) : o[a] = o[b] => a = b
         /\ \A i \in S : \E n \in 1 .. Len(o) : o[n] = i
         /\ \A a, b \in 1 .. Len(o) : a < b => l[o[a]].time >= l[o[b]].time
<1>1. S \subseteq 1 .. Len(l) /\ S \subseteq DOMAIN l /\ Len(l) \in Nat
  BY DEF Since, Places
<1>2. Cardinality(S) \in Nat
  <2>1. IsFiniteSet(1 .. Len(l))
    BY <1>1, FS_Interval
  <2>2. IsFiniteSet(S)
    BY <1>1, <2>1, FS_Subset
  <2> QED
    BY <2>2, FS_CardinalityType
<1> DEFINE m == Cardinality(S)
<1>3. o \in Bijection(1 .. m, S) /\ \A a, b \in DOMAIN o : a < b => l[o[a]].time >= l[o[b]].time
  BY DEF NewestFirst
<1>4. m \in Nat
  BY <1>2
<1> HIDE DEF m
<1>5. /\ o \in [1 .. m -> S]
      /\ \A a, b \in 1 .. m : o[a] = o[b] => a = b
      /\ \A i \in S : \E n \in 1 .. m : o[n] = i
  BY <1>3 DEF Bijection, Injection, Surjection, IsInjective
<1>6. Len(o) = m
  BY <1>4, <1>5
<1>7. DOMAIN o = 1 .. m
  BY <1>5
<1> QED
  BY <1>1, <1>3, <1>4, <1>5, <1>6, <1>7 DEF m

\* Undoing changes gives a document.
LEMMA UndoneType ==
  ASSUME NEW l \in Seq(Change), NEW c, NEW id, NEW time, NEW S, S = Since(l, c, id, time),
         NEW d \in Doc, NEW o \in NewestFirst(l, S)
  PROVE  Undone(d, l, o) \in Doc
<1>1. /\ Len(o) \in Nat /\ S \subseteq DOMAIN l /\ o \in [1 .. Len(o) -> S]
  BY OrderOf
<1>2. PICK u : HasUndone(u, d, l, o) /\ Undone(d, l, o) = u[Len(o)]
  BY <1>1, UndoneRows
<1>3. \A n \in 1 .. Len(o) : l[o[n]].diff \in Diffs
  <2>1. \A i \in DOMAIN l : l[i].diff \in Diffs
    <3> SUFFICES ASSUME NEW i \in DOMAIN l PROVE l[i].diff \in Diffs
      OBVIOUS
    <3>1. l[i] \in Change
      OBVIOUS
    <3> QED
      BY <3>1 DEF Change
  <2>2. \A n \in 1 .. Len(o) : o[n] \in DOMAIN l
    BY <1>1
  <2> QED
    BY <2>1, <2>2
<1> DEFINE T == {n \in Nat : n <= Len(o) => u[n] \in Doc}
<1>4. 0 \in T
  BY <1>2 DEF HasUndone
<1>5. \A n \in Nat : n \in T => n + 1 \in T
  <2> SUFFICES ASSUME NEW n \in Nat, u[n] \in Doc, n < Len(o) PROVE u[n + 1] \in Doc
    BY <1>1
  <2>1. u[n + 1] = RevertOps(u[n], l[o[n + 1]].diff)
    BY <1>2 DEF HasUndone
  <2>2. n + 1 \in 1 .. Len(o)
    BY <1>1
  <2> QED
    BY <1>3, <2>1, <2>2, RevertType
<1> HIDE DEF T
<1>6. Nat \subseteq T
  BY <1>4, <1>5, SetInduction
<1> QED
  BY <1>1, <1>2, <1>6 DEF T

\* So does TimeTravel.
LEMMA TravelledType ==
  ASSUME TInv, NEW t \in Tx, NEW c \in Coll, NEW id \in Id, NEW time,
         tx[t].status = "open", NEW d \in TravelledBy(t, c, id, time)
  PROVE  d \in Doc
<1>1. PICK l : l = tx[t].log
  OBVIOUS
<1>2. l \in Seq(Change)
  BY <1>1, TxParts
<1>3. PICK b : b = Before(tx[t], c, id)
  OBVIOUS
<1>4. b \in Doc \cup {NoDoc}
  BY <1>3, BeforeType
<1>5. PICK S : S = Since(l, c, id, time)
  OBVIOUS
<1>6. d \in Travelled(b, l, S)
  BY <1>1, <1>3, <1>5 DEF TravelledBy
<1>7. b # NoDoc /\ \E o \in NewestFirst(l, S) : d = Undone(b, l, o)
  BY <1>6 DEF Travelled
<1> QED
  BY <1>2, <1>4, <1>5, <1>7, UndoneType

\* A command writes one document, or only reads.
Reads(t, c, id) == Working(t) /\ Step(t, [tx[t] EXCEPT !.reads = @ \cup {<<c, id>>}])

\* Every step of a transaction is one of these.
LEMMA WorkCases ==
  ASSUME TInv, NEW t \in Tx, Work(t)
  PROVE  \/ \E a \in Actor : Begin(t, a)
         \/ Rollback(t) \/ Commit(t)
         \/ \E c \in Coll, id \in Id : \E action, cmd, stored : Writes(t, c, id, action, cmd, stored)
         \/ \E c \in Coll, id \in Id : Reads(t, c, id)
<1>1. CASE Rollback(t) \/ Commit(t)
  BY <1>1
<1>2. CASE \E a \in Users[t] : Begin(t, a)
  <2>1. Users[t] \subseteq Actor
    BY RulesAssumption
  <2> QED
    BY <1>2, <2>1
<1>3. ASSUME NEW c \in Coll, NEW id \in Id, Delete(t, c, id)
      PROVE  \E action, cmd, stored : Writes(t, c, id, action, cmd, stored)
  BY <1>3, DeleteWrites
<1>4. ASSUME NEW c \in Coll, NEW id \in Id, NEW d \in Input[c], Create(t, c, id, d) \/ Set(t, c, id, d)
      PROVE  \E action, cmd, stored : Writes(t, c, id, action, cmd, stored)
  <2>1. d \in Doc
    BY SchemaAssumption
  <2>2. CASE Create(t, c, id, d)
    BY <2>1, <2>2, CreateWrites
  <2>3. CASE Set(t, c, id, d)
    BY <2>1, <2>3, SetWrites
  <2> QED
    BY <1>4, <2>2, <2>3
<1>5. ASSUME NEW c \in Coll, NEW id \in Id, NEW p \in Partial[c], Update(t, c, id, p)
      PROVE  \E action, cmd, stored : Writes(t, c, id, action, cmd, stored)
  <2>1. p \in Doc
    BY SchemaAssumption
  <2> QED
    BY <1>5, <2>1, UpdateWrites
<1>6. ASSUME NEW c \in Coll, NEW id \in Id, NEW time \in 0 .. now, Revert(t, c, id, time)
      PROVE  \E action, cmd, stored : Writes(t, c, id, action, cmd, stored)
  <2>1. PICK d \in TravelledBy(t, c, id, time) : Set(t, c, id, d)
    BY <1>6 DEF Revert
  <2>2. tx[t].status = "open"
    BY <1>6 DEF Revert, Working
  <2>3. d \in Doc
    BY <2>1, <2>2, TravelledType
  <2> QED
    BY <2>1, <2>3, SetWrites
<1>7. ASSUME NEW c \in Coll, NEW id \in Id, NEW time \in 0 .. now, TimeTravel(t, c, id, time)
      PROVE  Reads(t, c, id)
  BY <1>7 DEF TimeTravel, Reads
<1> QED
  BY <1>1, <1>2, <1>3, <1>4, <1>5, <1>6, <1>7 DEF Work

-----------------------------------------------------------------------------
(* Every step keeps the types.                                               *)

\* The change a command records.
Recorded(t, c, id, action, cmd, stored, time) ==
  [tx |-> t, n |-> Len(tx[t].own) + 1, coll |-> c, id |-> id, action |-> action, time |-> time,
   diff |-> Diff(cmd, FieldsOf(Before(tx[t], c, id))), new |-> stored,
   blind |-> Before(tx[t], c, id) # tx[t].docs[c][id], saw |-> Known(tx[t], c, id)]

\* The state of the transaction that has recorded change r.
With(x, c, id, stored, r, reads) ==
  [x EXCEPT !.docs[c][id] = stored, !.log = Append(@, r), !.own = Append(@, r), !.reads = reads]

\* What With changes, and what it leaves.
Wrote(y, x, c, id, stored, r, reads) ==
  /\ y.status = x.status /\ y.actor = x.actor /\ y.reads = reads
  /\ y.dirty = x.dirty /\ y.after = x.after /\ y.sent = x.sent
  /\ y.log = Append(x.log, r) /\ y.own = Append(x.own, r)
  /\ y.docs \in Docs
  /\ \A e \in Coll, i \in Id : y.docs[e][i] = IF e = c /\ i = id THEN stored ELSE x.docs[e][i]
  /\ y = [status |-> y.status, actor |-> y.actor, docs |-> y.docs, log |-> y.log, own |-> y.own,
          reads |-> y.reads, dirty |-> y.dirty, after |-> y.after, sent |-> y.sent]

\* With changes that and leaves the rest.
LEMMA WithParts ==
  ASSUME NEW x \in TxState, NEW c \in Coll, NEW id \in Id, NEW stored \in Doc \cup {NoDoc},
         NEW r, NEW reads, x.docs \in Docs
  PROVE  Wrote(With(x, c, id, stored, r, reads), x, c, id, stored, r, reads)
<1> PICK y : y = With(x, c, id, stored, r, reads)
  OBVIOUS
<1>1. PICK k : k = [x.docs EXCEPT ![c][id] = stored]
  OBVIOUS
<1>2. k \in Docs /\ \A b \in Coll, i \in Id : k[b][i] = IF b = c /\ i = id THEN stored ELSE x.docs[b][i]
  BY <1>1 DEF Docs
<1>3. /\ y.status = x.status /\ y.actor = x.actor /\ y.reads = reads
      /\ y.dirty = x.dirty /\ y.after = x.after /\ y.sent = x.sent
      /\ y.log = Append(x.log, r) /\ y.own = Append(x.own, r)
      /\ y.docs = k
  BY <1>1 DEF With, TxState
<1>4. y = [status |-> y.status, actor |-> y.actor, docs |-> y.docs, log |-> y.log, own |-> y.own,
           reads |-> y.reads, dirty |-> y.dirty, after |-> y.after, sent |-> y.sent]
  BY DEF With, TxState
<1> QED
  BY <1>2, <1>3, <1>4 DEF Wrote

\* What a command records is a change.
LEMMA RecordedType ==
  ASSUME TInv, NEW t \in Tx, NEW c \in Coll, NEW id \in Id, NEW action, NEW cmd, NEW stored,
         Writes(t, c, id, action, cmd, stored), NEW time \in 0 .. MaxTime
  PROVE  Recorded(t, c, id, action, cmd, stored, time) \in Change
<1>1. PICK x : x = tx[t]
  OBVIOUS
<1>2. x.status = "open" /\ x.log \in Seq(Change) /\ x.own \in Seq(Change)
  BY <1>1, TxParts DEF Writes, Working
<1>3. PICK b : b = Before(x, c, id)
  OBVIOUS
<1>4. b \in Doc \cup {NoDoc}
  BY <1>1, <1>2, <1>3, BeforeType
<1>5. Diff(cmd, FieldsOf(b)) \in Diffs
  BY <1>4, DocTypes, DiffType DEF Writes
<1>6. Known(x, c, id) \in SUBSET Message
  <2>1. ASSUME NEW i \in DOMAIN x.log PROVE Name(x.log[i]) \in Message
    <3>1. x.log[i] \in Change
      BY <1>2
    <3> QED
      BY <3>1 DEF Name, Message, Change
  <2> QED
    BY <2>1 DEF Known, Places
<1>7. Len(x.own) + 1 \in Nat /\ action \in Action /\ stored \in Doc \cup {NoDoc}
  BY <1>2 DEF Writes
<1>8. PICK e : e = Diff(cmd, FieldsOf(b))
  OBVIOUS
<1>9. PICK w : w = Known(x, c, id)
  OBVIOUS
<1>10. PICK k : k = (b # x.docs[c][id])
  OBVIOUS
<1>11. k \in BOOLEAN
  BY <1>10
<1>12. [tx |-> t, n |-> Len(x.own) + 1, coll |-> c, id |-> id, action |-> action, time |-> time,
        diff |-> e, new |-> stored, blind |-> k, saw |-> w] \in Change
  BY <1>5, <1>6, <1>7, <1>8, <1>9, <1>11 DEF Change
<1> QED
  BY <1>1, <1>3, <1>8, <1>9, <1>10, <1>12 DEF Recorded

\* What a command does to the state.
LEMMA WriteStep ==
  ASSUME TInv, NEW t \in Tx, NEW c \in Coll, NEW id \in Id, NEW action, NEW cmd, NEW stored,
         Writes(t, c, id, action, cmd, stored)
  PROVE  \E r \in Change, reads \in SUBSET (Coll \X Id) :
           /\ r = Recorded(t, c, id, action, cmd, stored, now')
           /\ Becomes(t, With(tx[t], c, id, stored, r, reads))
           /\ now' \in now .. MaxTime
<1>1. PICK x : x = tx[t]
  OBVIOUS
<1>2. x \in TxState
  BY <1>1, TxParts
<1>3. now' \in now .. MaxTime /\ now' \in 0 .. MaxTime
  <2>1. PICK d \in Ticks : now + d <= MaxTime /\ now' = now + d
    BY DEF Writes, Persist
  <2>2. d \in Nat /\ MaxTime \in Nat /\ now \in Nat
    BY BoundAssumption DEF TInv
  <2> QED
    BY <2>1, <2>2
<1>4. PICK r : r = Recorded(t, c, id, action, cmd, stored, now')
  OBVIOUS
<1>5. r \in Change
  BY <1>3, <1>4, RecordedType
<1>6. PICK reads : reads = x.reads \cup Looked(x, c, id)
  OBVIOUS
<1>7. reads \in SUBSET (Coll \X Id)
  BY <1>2, <1>6 DEF Looked, TxState
<1>8. Becomes(t, With(tx[t], c, id, stored, r, reads))
  BY <1>1, <1>4, <1>6 DEF Writes, Persist, With, Recorded
<1> QED
  BY <1>3, <1>4, <1>5, <1>7, <1>8

\* A command that writes.
LEMMA WriteTypes ==
  ASSUME TInv, NEW t \in Tx, NEW c \in Coll, NEW id \in Id, NEW action, NEW cmd, NEW stored,
         Writes(t, c, id, action, cmd, stored)
  PROVE  TInv'
<1>1. PICK r \in Change, reads \in SUBSET (Coll \X Id) :
           /\ r = Recorded(t, c, id, action, cmd, stored, now')
           /\ Becomes(t, With(tx[t], c, id, stored, r, reads))
           /\ now' \in now .. MaxTime
  BY WriteStep
<1>2. PICK x : x = tx[t]
  OBVIOUS
<1>3. /\ x \in TxState /\ x.status = "open" /\ x.docs \in Docs
      /\ x.own \in Seq(Change) /\ x.log \in Seq(Change) /\ x.sent \in Nat /\ x.sent <= Len(x.own)
      /\ \A n \in DOMAIN x.own : x.own[n].n = n /\ x.own[n].tx = t
  <2>1. x.status = "open"
    BY <1>2 DEF Writes, Working
  <2>2. OfTx(t, x)
    BY <1>2 DEF TInv
  <2> QED
    BY <2>1, <2>2 DEF OfTx, TxState
<1>4. PICK y : y = With(x, c, id, stored, r, reads)
  OBVIOUS
<1>5. stored \in Doc \cup {NoDoc}
  BY DEF Writes
<1>6. /\ y.status = x.status /\ y.actor = x.actor /\ y.reads = reads
         /\ y.dirty = x.dirty /\ y.after = x.after /\ y.sent = x.sent
         /\ y.log = Append(x.log, r) /\ y.own = Append(x.own, r)
         /\ y.docs \in Docs
         /\ y = [status |-> y.status, actor |-> y.actor, docs |-> y.docs, log |-> y.log, own |-> y.own,
                 reads |-> y.reads, dirty |-> y.dirty, after |-> y.after, sent |-> y.sent]
  <2>1. Wrote(y, x, c, id, stored, r, reads)
    BY <1>3, <1>4, <1>5, WithParts
  <2> QED
    BY <2>1 DEF Wrote
<1>7. y.own \in Seq(Change) /\ y.log \in Seq(Change) /\ Len(y.own) = Len(x.own) + 1
  BY <1>3, <1>6
<1>8. y \in TxState
  BY <1>3, <1>6, <1>7 DEF TxState
<1>9. r.n = Len(x.own) + 1 /\ r.tx = t
  BY <1>1, <1>2 DEF Recorded
<1>10. \A n \in DOMAIN y.own : y.own[n].n = n /\ y.own[n].tx = t
  <2> SUFFICES ASSUME NEW n \in DOMAIN y.own PROVE y.own[n].n = n /\ y.own[n].tx = t
    OBVIOUS
  <2>1. CASE n = Len(x.own) + 1
    <3>1. y.own[n] = r
      BY <1>3, <1>6, <2>1
    <3> QED
      BY <1>9, <2>1, <3>1
  <2>2. CASE n \in DOMAIN x.own
    <3>1. y.own[n] = x.own[n]
      BY <1>3, <1>6, <2>2
    <3> QED
      BY <1>3, <2>2, <3>1
  <2> QED
    BY <1>3, <1>7, <2>1, <2>2
<1>11. OfTx(t, y)
  BY <1>3, <1>6, <1>7, <1>8, <1>10 DEF OfTx
<1>12. now' \in 0 .. MaxTime
  BY <1>1 DEF TInv
<1> QED
  BY <1>1, <1>2, <1>4, <1>11, <1>12, BecomesTypes

\* A commit.
LEMMA CommitTypes ==
  ASSUME TInv, NEW t \in Tx, Commit(t)
  PROVE  TInv'
<1>1. PICK x : x = tx[t]
  OBVIOUS
<1>2. /\ x \in TxState /\ x.status = "open" /\ x.docs \in Docs /\ x.own \in Seq(Change)
      /\ x.actor \in Actor
      /\ \A n \in DOMAIN x.own : x.own[n].n = n /\ x.own[n].tx = t
  <2>1. x.status = "open"
    BY <1>1 DEF Commit
  <2>2. OfTx(t, x)
    BY <1>1 DEF TInv
  <2> QED
    BY <2>1, <2>2 DEF OfTx, TxState
<1>3. PICK w : w = {<<r.coll, r.id>> : r \in ToSet(x.own)}
  OBVIOUS
<1>4. w \in SUBSET (Coll \X Id)
  <2>1. \A n \in DOMAIN x.own : <<x.own[n].coll, x.own[n].id>> \in Coll \X Id
    <3> SUFFICES ASSUME NEW n \in DOMAIN x.own PROVE <<x.own[n].coll, x.own[n].id>> \in Coll \X Id
      OBVIOUS
    <3>1. x.own[n] \in Change
      BY <1>2
    <3> QED
      BY <3>1 DEF Change
  <2> QED
    BY <1>3, <2>1 DEF ToSet
<1>5. docs' \in Docs
  <2>1. docs' = [c \in Coll |-> [id \in Id |-> IF <<c, id>> \in w THEN x.docs[c][id] ELSE docs[c][id]]]
    BY <1>1, <1>3 DEF Commit
  <2> QED
    BY <1>2, <2>1 DEF TInv, Docs
<1>6. log' \in Seq(Change)
  <2>1. log' = log \o x.own /\ log \in Seq(Change)
    BY <1>1 DEF Commit, TInv
  <2> QED
    BY <1>2, <2>1
<1>7. PICK e : e = {v \in Tx : tx[v].status = "committed"}
  OBVIOUS
<1>8. PICK y : y = [Fresh EXCEPT !.status = "publishing", !.own = x.own, !.actor = x.actor, !.after = e]
  OBVIOUS
<1>9. OfTx(t, y)
  <2>1. y \in TxState
    BY <1>2, <1>7, <1>8, FreshType DEF TxState, Status
  <2>2. y.own = x.own /\ y.sent = 0 /\ y.status = "publishing"
    BY <1>8, FreshType DEF TxState
  <2>3. 0 <= Len(x.own)
    BY <1>2
  <2> QED
    BY <1>2, <2>1, <2>2, <2>3 DEF OfTx
<1>10. tx' = [u \in Tx |-> IF u = t THEN y
                          ELSE IF tx[u].status = "open" THEN [tx[u] EXCEPT !.dirty = @ \cup w]
                          ELSE tx[u]]
  BY <1>1, <1>3, <1>7, <1>8 DEF Commit
<1>11. ASSUME NEW u \in Tx PROVE OfTx(u, tx'[u])
  <2>1. CASE u = t
    BY <1>9, <1>10, <2>1
  <2>2. CASE u # t
    <3>1. PICK z : z = tx[u]
      OBVIOUS
    <3>2. OfTx(u, z)
      BY <3>1 DEF TInv
    <3>3. OfTx(u, [z EXCEPT !.dirty = @ \cup w])
      BY <1>4, <3>2 DEF OfTx, TxState
    <3> QED
      BY <1>10, <2>2, <3>1, <3>2, <3>3
  <2> QED
    BY <2>1, <2>2
<1>12. tx' = [u \in Tx |-> tx'[u]]
  BY <1>10
<1> QED
  BY <1>5, <1>6, <1>11, <1>12 DEF TInv, Commit

\* A message sent.
LEMMA PublishTypes ==
  ASSUME TInv, NEW t \in Tx, Publish(t)
  PROVE  TInv'
<1>1. PICK x : x = tx[t]
  OBVIOUS
<1>2. OfTx(t, x)
  BY <1>1 DEF TInv
<1>3. PICK m : m = [tx |-> t, n |-> x.sent + 1]
  OBVIOUS
<1>4. m \in Message
  BY <1>2, <1>3 DEF OfTx, TxState, Message
<1>5. OfTx(t, [x EXCEPT !.sent = @ + 1])
  <2>1. x \in TxState /\ x.own \in Seq(Change) /\ x.sent \in Nat /\ x.sent < Len(x.own)
    BY <1>1, <1>2 DEF OfTx, TxState, Publish
  <2>2. PICK y : y = [x EXCEPT !.sent = @ + 1]
    OBVIOUS
  <2>3. y \in TxState
    BY <2>1, <2>2 DEF TxState
  <2>4. /\ y.own = x.own /\ y.status = x.status /\ y.docs = x.docs
        /\ y.sent = x.sent + 1
    BY <2>1, <2>2 DEF TxState
  <2>5. y.sent <= Len(y.own)
    BY <2>1, <2>4
  <2> QED
    BY <1>2, <2>2, <2>3, <2>4, <2>5 DEF OfTx
<1>6. tx' = [tx EXCEPT ![t] = [x EXCEPT !.sent = @ + 1]]
  BY <1>1 DEF Publish
<1>7. subs' = [s \in Sub |-> IF subs[s].on THEN [subs[s] EXCEPT !.queue = Append(@, m)] ELSE subs[s]]
  BY <1>1, <1>3 DEF Publish
<1>8. \A s \in Sub : subs'[s] \in SubState
  <2> SUFFICES ASSUME NEW s \in Sub PROVE subs'[s] \in SubState
    OBVIOUS
  <2>1. PICK z : z = subs[s]
    OBVIOUS
  <2>2. z \in SubState
    BY <2>1 DEF TInv
  <2>3. Append(z.queue, m) \in Seq(Message)
    BY <1>4, <2>2 DEF SubState
  <2>4. [z EXCEPT !.queue = Append(@, m)] \in SubState
    BY <2>2, <2>3 DEF SubState
  <2> QED
    BY <1>7, <2>1, <2>2, <2>4
<1> HIDE DEF TInv
<1>9. tx' = [u \in Tx |-> tx'[u]] /\ \A u \in Tx : OfTx(u, tx'[u])
  BY <1>5, <1>6 DEF TInv
<1>10. subs' \in [Sub -> SubState]
  BY <1>7, <1>8
<1> QED
  BY <1>9, <1>10 DEF TInv, Publish

\* A step of a subscriber.
LEMMA SubTypes ==
  ASSUME TInv, NEW s \in Sub, NEW y \in SubState, subs' = [subs EXCEPT ![s] = y], UNCHANGED <<docs, log, now, tx>>
  PROVE  TInv'
BY DEF TInv

\* Every step.
LEMMA NextTypes == TInv /\ [Next]_vars => TInv'
<1> SUFFICES ASSUME TInv, [Next]_vars PROVE TInv'
  OBVIOUS
<1>1. CASE UNCHANGED vars
  BY <1>1 DEF TInv, vars
<1>2. ASSUME NEW t \in Tx, NEW a \in Actor, Begin(t, a) PROVE TInv'
  <2>1. PICK y : y = [Fresh EXCEPT !.status = "open", !.actor = a, !.docs = docs, !.log = log]
    OBVIOUS
  <2>2. OfTx(t, y)
    <3>1. docs \in Docs /\ log \in Seq(Change)
      BY DEF TInv
    <3>2. y \in TxState
      BY <2>1, <3>1, FreshType DEF TxState, Status
    <3>3. y.own = << >> /\ y.sent = 0 /\ y.status = "open" /\ y.docs = docs
      BY <2>1, FreshType DEF TxState
    <3> QED
      BY <3>1, <3>2, <3>3 DEF OfTx
  <2> QED
    BY <1>2, <2>1, <2>2, BecomesTypes DEF Begin, Step, TInv
<1>3. ASSUME NEW t \in Tx, Rollback(t) PROVE TInv'
  <2>1. PICK y : y = [Fresh EXCEPT !.status = "rolledback"]
    OBVIOUS
  <2>2. OfTx(t, y)
    <3>1. y \in TxState
      BY <2>1, FreshType DEF TxState, Status
    <3>2. y.own = << >> /\ y.sent = 0 /\ y.status = "rolledback"
      BY <2>1, FreshType DEF TxState
    <3> QED
      BY <3>1, <3>2 DEF OfTx
  <2> QED
    BY <1>3, <2>1, <2>2, BecomesTypes DEF Rollback, Step, TInv
<1>4. ASSUME NEW t \in Tx, NEW c \in Coll, NEW id \in Id, Reads(t, c, id) PROVE TInv'
  <2>1. PICK x : x = tx[t]
    OBVIOUS
  <2>2. OfTx(t, x)
    BY <2>1 DEF TInv
  <2>3. PICK y : y = [x EXCEPT !.reads = @ \cup {<<c, id>>}]
    OBVIOUS
  <2>4. OfTx(t, y)
    <3>1. {<<c, id>>} \subseteq Coll \X Id
      OBVIOUS
    <3>2. y \in TxState
      BY <2>2, <2>3, <3>1 DEF OfTx, TxState
    <3>3. y.own = x.own /\ y.status = x.status /\ y.docs = x.docs /\ y.sent = x.sent
      BY <2>2, <2>3 DEF OfTx, TxState
    <3> QED
      BY <2>2, <3>2, <3>3 DEF OfTx
  <2> QED
    BY <1>4, <2>1, <2>3, <2>4, BecomesTypes DEF Reads, Step, TInv
<1>5. ASSUME NEW t \in Tx, Work(t) PROVE TInv'
  <2>1. CASE \E a \in Actor : Begin(t, a)
    BY <1>2, <2>1
  <2>2. CASE Rollback(t)
    BY <1>3, <2>2
  <2>3. CASE Commit(t)
    BY <2>3, CommitTypes
  <2>4. CASE \E c \in Coll, id \in Id : \E action, cmd, stored : Writes(t, c, id, action, cmd, stored)
    BY <2>4, WriteTypes
  <2>5. CASE \E c \in Coll, id \in Id : Reads(t, c, id)
    BY <1>4, <2>5
  <2> QED
    BY <1>5, <2>1, <2>2, <2>3, <2>4, <2>5, WorkCases
<1>6. ASSUME NEW t \in Tx, CommitReturns(t) PROVE TInv'
  <2>1. PICK x : x = tx[t]
    OBVIOUS
  <2>2. OfTx(t, x) /\ x.status = "publishing"
    BY <1>6, <2>1 DEF TInv, CommitReturns
  <2>3. PICK y : y = [x EXCEPT !.status = "committed"]
    OBVIOUS
  <2>4. OfTx(t, y)
    BY <2>2, <2>3 DEF OfTx, TxState, Status
  <2> QED
    BY <1>6, <2>1, <2>3, <2>4, BecomesTypes DEF CommitReturns, Step, TInv
<1>7. ASSUME NEW s \in Sub, Subscribe(s) \/ Deliver(s) \/ Unsubscribe(s) PROVE TInv'
  <2>1. PICK z : z = subs[s]
    OBVIOUS
  <2>2. z \in SubState
    BY <2>1 DEF TInv
  <2>3. CASE Subscribe(s)
    <3>1. PICK e : e = {t \in Tx : tx[t].status \in {"new", "open"}}
      OBVIOUS
    <3>2. PICK y : y = [z EXCEPT !.on = TRUE, !.from = e]
      OBVIOUS
    <3>3. y \in SubState
      BY <2>2, <3>1, <3>2 DEF SubState
    <3>4. subs' = [subs EXCEPT ![s] = y]
      BY <2>1, <2>3, <3>1, <3>2 DEF Subscribe, TInv
    <3> QED
      BY <2>3, <3>3, <3>4, SubTypes DEF Subscribe
  <2>4. CASE Deliver(s)
    <3>1. PICK m : m = Head(z.queue)
      OBVIOUS
    <3>2. PICK y : y = [z EXCEPT !.queue = Tail(@), !.got = IF Matches(s, m) THEN Append(@, m) ELSE @]
      OBVIOUS
    <3>3. z.queue \in Seq(Message) /\ z.queue # << >> /\ z.got \in Seq(Message)
      BY <2>1, <2>2, <2>4 DEF Deliver, SubState
    <3>4. m \in Message /\ Tail(z.queue) \in Seq(Message)
      BY <3>1, <3>3
    <3>5. y \in SubState
      <4>1. Append(z.got, m) \in Seq(Message)
        BY <3>3, <3>4
      <4>2. PICK g : g = IF Matches(s, m) THEN Append(z.got, m) ELSE z.got
        OBVIOUS
      <4>3. g \in Seq(Message)
        BY <3>3, <4>1, <4>2
      <4>4. y = [z EXCEPT !.queue = Tail(z.queue), !.got = g]
        BY <3>2, <4>2
      <4> QED
        BY <2>2, <3>4, <4>3, <4>4 DEF SubState
    <3>6. subs' = [subs EXCEPT ![s] = y]
      BY <2>1, <2>4, <3>1, <3>2 DEF Deliver, TInv
    <3> QED
      BY <2>4, <3>5, <3>6, SubTypes DEF Deliver
  <2>5. CASE Unsubscribe(s)
    <3>1. Quiet \in SubState
      BY DEF Quiet, SubState
    <3> QED
      BY <2>5, <3>1, SubTypes DEF Unsubscribe
  <2> QED
    BY <1>7, <2>3, <2>4, <2>5
<1> QED
  BY <1>1, <1>5, <1>6, <1>7, PublishTypes DEF Next

\* Every variable has its type; a transaction sends no more messages than it has
\* changes, and one that is rolled back has none (db.go, tx_util.go).
THEOREM TypeCorrect == Spec => []TypeOK
<1>1. Spec => []TInv
  BY InitTypes, NextTypes, PTL DEF Spec
<1> QED
  BY <1>1, TInvTypes, PTL

-----------------------------------------------------------------------------
(* The change stream.                                                        *)

\* A message that has been sent.
Sent(m) == m \in Message /\ Committed(m.tx) /\ 1 <= m.n /\ m.n <= tx[m.tx].sent

\* a may be handed over before b.
InOrder(a, b) == (a.tx = b.tx => a.n < b.n) /\ b.tx \notin tx[a.tx].after

\* What a subscriber has got and what waits for it, y, is in order.
StreamOf(s, y) ==
  /\ \A i \in DOMAIN y.got : Sent(y.got[i]) /\ Matches(s, y.got[i])
  /\ \A i \in DOMAIN y.queue : Sent(y.queue[i])
  /\ \A i, j \in DOMAIN y.got : i < j => InOrder(y.got[i], y.got[j])
  /\ \A i, j \in DOMAIN y.queue : i < j => InOrder(y.queue[i], y.queue[j])
  /\ \A i \in DOMAIN y.got, j \in DOMAIN y.queue : InOrder(y.got[i], y.queue[j])

\* Of a transaction: those that had returned before it are done, when it is
\* done all its messages are sent, and its changes are in the log.
Finishes(t) ==
  /\ \A v \in tx[t].after : tx[v].status = "committed"
  /\ tx[t].status = "committed" => tx[t].sent = Len(tx[t].own)
  /\ Committed(t) => \A n \in DOMAIN tx[t].own : tx[t].own[n] \in ToSet(log)

OrderInv ==
  /\ \A t \in Tx : Finishes(t)
  /\ \A s \in Sub : StreamOf(s, subs[s])

\* A message sent is about a change of its transaction.
LEMMA SentNumber ==
  ASSUME TInv, NEW m, Sent(m)
  PROVE  m.tx \in Tx /\ m.n \in DOMAIN tx[m.tx].own
<1>1. m.tx \in Tx /\ m.n \in Nat /\ 1 <= m.n /\ m.n <= tx[m.tx].sent
  BY DEF Sent, Message
<1>2. PICK x : x = tx[m.tx]
  OBVIOUS
<1>3. OfTx(m.tx, x)
  BY <1>1, <1>2 DEF TInv
<1>4. x.own \in Seq(Change) /\ x.sent \in Nat /\ x.sent <= Len(x.own)
  BY <1>3 DEF OfTx, TxState
<1>5. m.n \in DOMAIN x.own
  BY <1>1, <1>2, <1>4
<1> QED
  BY <1>1, <1>2, <1>5

\* This is more than DeliveredInOrder says.
LEMMA OrderShows == TInv /\ OrderInv => DeliveredInOrder
<1> SUFFICES ASSUME TInv, OrderInv, NEW s \in Sub, NEW j \in DOMAIN subs[s].got
             PROVE  LET b == subs[s].got[j]
                    IN  /\ Committed(b.tx) /\ Matches(s, b) /\ tx[b.tx].own[b.n] \in ToSet(log)
                        /\ \A i \in 1..j-1 :
                             LET a == subs[s].got[i]
                             IN  /\ a.tx = b.tx => a.n < b.n
                                 /\ b.tx \notin tx[a.tx].after
  BY DEF DeliveredInOrder
<1>1. PICK y : y = subs[s]
  OBVIOUS
<1>2. StreamOf(s, y) /\ y.got \in Seq(Message)
  BY <1>1 DEF OrderInv, TInv, SubState
<1>3. PICK b : b = y.got[j]
  OBVIOUS
<1>4. Sent(b) /\ Matches(s, b)
  BY <1>1, <1>2, <1>3 DEF StreamOf
<1>5. b.tx \in Tx /\ b.n \in DOMAIN tx[b.tx].own
  BY <1>4, SentNumber
<1>6. Committed(b.tx)
  BY <1>4 DEF Sent
<1>7. tx[b.tx].own[b.n] \in ToSet(log)
  BY <1>5, <1>6 DEF OrderInv, Finishes
<1>8. ASSUME NEW i \in 1 .. j-1
      PROVE  InOrder(y.got[i], b)
  <2>1. i \in DOMAIN y.got /\ i < j
    BY <1>1, <1>2, <1>8
  <2> QED
    BY <1>1, <1>2, <1>3, <2>1 DEF StreamOf
<1> QED
  BY <1>1, <1>3, <1>4, <1>6, <1>7, <1>8 DEF InOrder

\* Committed transactions keep what they have done.
Kept ==
  \A u \in Tx : Committed(u) =>
    /\ Committed(u)' /\ tx'[u].own = tx[u].own /\ tx'[u].after = tx[u].after
    /\ tx[u].sent <= tx'[u].sent

\* So messages sent stay sent, and in order.
LEMMA SentKept ==
  ASSUME TInv, TInv', Kept, NEW m, Sent(m)
  PROVE  /\ Sent(m)'
         /\ \A s : Matches(s, m) => Matches(s, m)'
         /\ \A b : InOrder(m, b) => InOrder(m, b)'
<1>1. m.tx \in Tx /\ m.n \in Nat /\ Committed(m.tx) /\ 1 <= m.n /\ m.n <= tx[m.tx].sent
  BY DEF Sent, Message
<1>2. Committed(m.tx)' /\ tx'[m.tx].own = tx[m.tx].own /\ tx'[m.tx].after = tx[m.tx].after
      /\ tx[m.tx].sent <= tx'[m.tx].sent
  BY <1>1 DEF Kept
<1>3. tx[m.tx].sent \in Nat /\ tx'[m.tx].sent \in Nat
  BY <1>1 DEF TInv, OfTx, TxState
<1>4. m.n <= tx'[m.tx].sent
  BY <1>1, <1>2, <1>3
<1> QED
  BY <1>1, <1>2, <1>4 DEF Sent, Matches, InOrder

\* And streams stay in order.
LEMMA StreamKept ==
  ASSUME TInv, TInv', Kept, NEW s \in Sub, NEW y, StreamOf(s, y)
  PROVE  StreamOf(s, y)'
<1>1. \A i \in DOMAIN y.got : Sent(y.got[i])' /\ Matches(s, y.got[i])'
  BY SentKept DEF StreamOf
<1>2. \A i \in DOMAIN y.queue : Sent(y.queue[i])'
  BY SentKept DEF StreamOf
<1>3. \A i, j \in DOMAIN y.got : i < j => InOrder(y.got[i], y.got[j])'
  BY SentKept DEF StreamOf
<1>4. \A i, j \in DOMAIN y.queue : i < j => InOrder(y.queue[i], y.queue[j])'
  BY SentKept DEF StreamOf
<1>5. \A i \in DOMAIN y.got, j \in DOMAIN y.queue : InOrder(y.got[i], y.queue[j])'
  BY SentKept DEF StreamOf
<1> QED
  BY <1>1, <1>2, <1>3, <1>4, <1>5 DEF StreamOf

\* A step of a subscriber.
LEMMA StreamsHandled ==
  ASSUME TInv, TInv', tx' = tx, \A s \in Sub : StreamOf(s, subs'[s])
  PROVE  \A s \in Sub : StreamOf(s, subs[s])'
<1> SUFFICES ASSUME NEW s \in Sub PROVE StreamOf(s, subs[s])'
  OBVIOUS
<1>1. PICK w : w = subs'[s]
  OBVIOUS
<1>2. Kept
  BY DEF Kept, Committed, TInv, OfTx, TxState
<1>3. StreamOf(s, w)'
  BY <1>1, <1>2, StreamKept
<1> QED
  BY <1>1, <1>3

\* A step of a transaction that has not committed.
LEMMA LocalOrder ==
  ASSUME TInv, TInv', OrderInv, NEW t \in Tx, NEW y, Becomes(t, y),
         ~Committed(t), y.status \in {"new", "open", "rolledback"}, y.after \subseteq tx[t].after
  PROVE  OrderInv'
<1>1. tx' = [u \in Tx |-> IF u = t THEN y ELSE tx[u]] /\ subs' = subs /\ log' = log
  BY DEF Becomes, TInv
<1>2. Kept
  <2> SUFFICES ASSUME NEW u \in Tx, Committed(u)
               PROVE  /\ Committed(u)' /\ tx'[u].own = tx[u].own /\ tx'[u].after = tx[u].after
                      /\ tx[u].sent <= tx'[u].sent
    BY DEF Kept
  <2>1. tx'[u] = tx[u]
    BY <1>1
  <2>2. tx[u].sent \in Nat
    BY DEF TInv, OfTx, TxState
  <2> QED
    BY <2>1, <2>2 DEF Committed
<1>3. \A v \in Tx : tx[v].status = "committed" => tx'[v].status = "committed"
  BY <1>1 DEF Committed
<1>4. ASSUME NEW u \in Tx PROVE Finishes(u)'
  <2>1. Finishes(u) /\ tx[u].after \subseteq Tx
    BY DEF OrderInv, TInv, OfTx, TxState
  <2>2. CASE u = t
    <3>1. tx'[u] = y
      BY <1>1, <2>2
    <3>2. ~Committed(u)' /\ tx'[u].status # "committed"
      BY <3>1 DEF Committed
    <3>3. \A v \in tx'[u].after : tx'[v].status = "committed"
      BY <1>3, <2>1, <2>2, <3>1 DEF Finishes
    <3> QED
      BY <3>2, <3>3 DEF Finishes
  <2>3. CASE u # t
    <3>1. tx'[u] = tx[u]
      BY <1>1, <2>3
    <3>2. \A v \in tx'[u].after : tx'[v].status = "committed"
      BY <1>3, <2>1, <3>1 DEF Finishes
    <3> QED
      BY <1>1, <2>1, <3>1, <3>2 DEF Finishes, Committed
  <2> QED
    BY <2>2, <2>3
<1>5. \A s \in Sub : StreamOf(s, subs[s])'
  BY <1>1, <1>2, StreamKept DEF OrderInv
<1> QED
  BY <1>4, <1>5 DEF OrderInv

\* The state of a transaction just committed.
LEMMA CommitState ==
  ASSUME TInv, NEW t \in Tx, Commit(t), NEW y, y = tx'[t]
  PROVE  /\ y.status = "publishing" /\ y.own = tx[t].own /\ y.sent = 0
         /\ y.after = {v \in Tx : tx[v].status = "committed"}
         /\ tx[t].status = "open"
<1>1. y = [Fresh EXCEPT !.status = "publishing", !.own = tx[t].own, !.actor = tx[t].actor,
                        !.after = {v \in Tx : tx[v].status = "committed"}]
  BY DEF Commit
<1> QED
  BY <1>1, FreshType DEF TxState, Commit

\* The other transactions at a commit.
LEMMA CommitOthers ==
  ASSUME TInv, NEW t \in Tx, Commit(t), NEW u \in Tx, u # t, NEW y, y = tx'[u]
  PROVE  /\ y.status = tx[u].status /\ y.own = tx[u].own /\ y.sent = tx[u].sent
         /\ y.after = tx[u].after /\ y.docs = tx[u].docs /\ y.log = tx[u].log
<1>1. PICK z : z = tx[u]
  OBVIOUS
<1>2. z \in TxState
  BY <1>1 DEF TInv, OfTx
<1>3. \E w : y = IF z.status = "open" THEN [z EXCEPT !.dirty = @ \cup w] ELSE z
  BY <1>1 DEF Commit
<1> QED
  BY <1>1, <1>2, <1>3 DEF TxState

\* A commit: the transactions that had returned before it are done.
LEMMA CommitOrder ==
  ASSUME TInv, TInv', OrderInv, NEW t \in Tx, Commit(t)
  PROVE  OrderInv'
<1>1. /\ tx'[t].status = "publishing" /\ tx'[t].own = tx[t].own /\ tx'[t].sent = 0
      /\ tx'[t].after = {v \in Tx : tx[v].status = "committed"} /\ tx[t].status = "open"
  BY CommitState
<1>2. ASSUME NEW u \in Tx, u # t
      PROVE  /\ tx'[u].status = tx[u].status /\ tx'[u].own = tx[u].own /\ tx'[u].sent = tx[u].sent
             /\ tx'[u].after = tx[u].after
  BY <1>2, CommitOthers
<1>3. subs' = subs /\ log' = log \o tx[t].own
  BY DEF Commit
<1>4. log \in Seq(Change) /\ tx[t].own \in Seq(Change)
  BY DEF TInv, OfTx, TxState
<1>5. /\ \A e \in ToSet(log) : e \in ToSet(log')
      /\ \A n \in DOMAIN tx[t].own : tx[t].own[n] \in ToSet(log')
  <2>1. PICK k : k = tx[t].own
    OBVIOUS
  <2>2. PICK l : l = log
    OBVIOUS
  <2>3. PICK g : g = l \o k
    OBVIOUS
  <2>4. \A i \in DOMAIN l : i \in DOMAIN g /\ g[i] = l[i]
    BY <1>4, <2>1, <2>2, <2>3
  <2>5. \A n \in DOMAIN k : Len(l) + n \in DOMAIN g /\ g[Len(l) + n] = k[n]
    BY <1>4, <2>1, <2>2, <2>3
  <2>6. ToSet(g) = {g[i] : i \in DOMAIN g} /\ ToSet(l) = {l[i] : i \in DOMAIN l}
    BY DEF ToSet
  <2>7. \A n \in DOMAIN k : k[n] \in ToSet(g)
    BY <2>5, <2>6
  <2>8. \A e \in ToSet(l) : e \in ToSet(g)
    BY <2>4, <2>6
  <2> QED
    BY <1>3, <2>1, <2>2, <2>3, <2>7, <2>8
<1>6. Kept
  <2> SUFFICES ASSUME NEW u \in Tx, Committed(u)
               PROVE  /\ Committed(u)' /\ tx'[u].own = tx[u].own /\ tx'[u].after = tx[u].after
                      /\ tx[u].sent <= tx'[u].sent
    BY DEF Kept
  <2>1. u # t
    BY <1>1 DEF Committed
  <2>2. tx[u].sent \in Nat
    BY DEF TInv, OfTx, TxState
  <2> QED
    BY <1>2, <2>1, <2>2 DEF Committed
<1>7. \A v \in Tx : tx[v].status = "committed" => tx'[v].status = "committed"
  BY <1>1, <1>2
<1>8. ASSUME NEW u \in Tx PROVE Finishes(u)'
  <2>1. CASE u = t
    <3>1. \A v \in tx'[u].after : tx'[v].status = "committed"
      BY <1>1, <1>7, <2>1
    <3> QED
      BY <1>1, <1>5, <2>1, <3>1 DEF Finishes
  <2>2. CASE u # t
    <3>1. Finishes(u) /\ tx[u].after \subseteq Tx
      BY DEF OrderInv, TInv, OfTx, TxState
    <3>2. \A v \in tx'[u].after : tx'[v].status = "committed"
      BY <1>2, <1>7, <2>2, <3>1 DEF Finishes
    <3>3. Committed(u)' => \A n \in DOMAIN tx'[u].own : tx'[u].own[n] \in ToSet(log')
      BY <1>2, <1>5, <2>2, <3>1 DEF Finishes, Committed
    <3> QED
      BY <1>2, <2>2, <3>1, <3>2, <3>3 DEF Finishes
  <2> QED
    BY <2>1, <2>2
<1>9. \A s \in Sub : StreamOf(s, subs[s])'
  BY <1>3, <1>6, StreamKept DEF OrderInv
<1> QED
  BY <1>8, <1>9 DEF OrderInv

\* A message comes after those sent before it: its transaction has not returned,
\* so no transaction with a message under way began its commit after that.
LEMMA PublishOrder ==
  ASSUME TInv, TInv', OrderInv, NEW t \in Tx, Publish(t)
  PROVE  OrderInv'
<1>1. PICK x : x = tx[t]
  OBVIOUS
<1>2. x \in TxState /\ x.sent \in Nat /\ x.own \in Seq(Change) /\ x.sent < Len(x.own)
      /\ x.status \in {"publishing", "committed"}
  BY <1>1 DEF TInv, OfTx, TxState, Publish, Committed
<1>3. x.status = "publishing"
  <2>1. Finishes(t)
    BY DEF OrderInv
  <2> QED
    BY <1>1, <1>2, <2>1 DEF Finishes
<1>4. PICK z : z = [x EXCEPT !.sent = @ + 1]
  OBVIOUS
<1>5. z.sent = x.sent + 1 /\ z.own = x.own /\ z.after = x.after /\ z.status = x.status
  BY <1>2, <1>4 DEF TxState
<1>6. tx' = [u \in Tx |-> IF u = t THEN z ELSE tx[u]] /\ log' = log
  BY <1>1, <1>4 DEF Publish, TInv
<1>7. PICK m : m = [tx |-> t, n |-> x.sent + 1]
  OBVIOUS
<1>8. Kept
  <2> SUFFICES ASSUME NEW u \in Tx, Committed(u)
               PROVE  /\ Committed(u)' /\ tx'[u].own = tx[u].own /\ tx'[u].after = tx[u].after
                      /\ tx[u].sent <= tx'[u].sent
    BY DEF Kept
  <2>1. tx[u].sent \in Nat
    BY DEF TInv, OfTx, TxState
  <2>2. CASE u = t
    BY <1>1, <1>2, <1>5, <1>6, <2>2 DEF Committed
  <2>3. CASE u # t
    BY <1>6, <2>1, <2>3 DEF Committed
  <2> QED
    BY <2>2, <2>3
<1>9. ASSUME NEW u \in Tx PROVE Finishes(u)'
  <2>1. \A v \in Tx : tx'[v].status = tx[v].status /\ tx'[v].own = tx[v].own /\ tx'[v].after = tx[v].after
    BY <1>1, <1>5, <1>6
  <2>2. Finishes(u) /\ tx[u].after \subseteq Tx
    BY DEF OrderInv, TInv, OfTx, TxState
  <2>3. tx[u].status = "committed" => tx'[u].sent = tx[u].sent
    BY <1>1, <1>3, <1>6
  <2> QED
    BY <1>6, <2>1, <2>2, <2>3 DEF Finishes, Committed
<1>10. Sent(m)'
  <2>1. m \in Message /\ m.tx = t /\ m.n = x.sent + 1
    BY <1>2, <1>7 DEF Message
  <2>2. tx'[t].sent = x.sent + 1 /\ tx'[t].status = "publishing"
    BY <1>3, <1>5, <1>6
  <2> QED
    BY <1>2, <2>1, <2>2 DEF Sent, Committed
<1>11. ASSUME NEW a, Sent(a) PROVE InOrder(a, m)'
  <2>1. a.tx \in Tx /\ a.n \in Nat /\ a.n <= tx[a.tx].sent /\ Committed(a.tx)
    BY <1>11 DEF Sent, Message
  <2>2. a.tx = m.tx => a.n < m.n
    BY <1>1, <1>2, <1>7, <2>1
  <2>3. Finishes(a.tx)
    BY <2>1 DEF OrderInv
  <2>4. t \notin tx[a.tx].after
    BY <1>1, <1>3, <2>3 DEF Finishes
  <2>5. tx'[a.tx].after = tx[a.tx].after
    BY <1>8, <2>1 DEF Kept
  <2> QED
    BY <1>7, <2>2, <2>4, <2>5 DEF InOrder
<1>12. ASSUME NEW s \in Sub PROVE StreamOf(s, subs[s])'
  <2>1. PICK y : y = subs[s]
    OBVIOUS
  <2>2. PICK w : w = subs'[s]
    OBVIOUS
  <2>3. y \in SubState /\ y.queue \in Seq(Message) /\ y.got \in Seq(Message)
    BY <2>1 DEF TInv, SubState
  <2>4. StreamOf(s, y) /\ StreamOf(s, y)'
    BY <1>8, <2>1, StreamKept DEF OrderInv
  <2>5. w = IF y.on THEN [y EXCEPT !.queue = Append(@, m)] ELSE y
    BY <1>1, <1>7, <2>1, <2>2 DEF Publish
  <2>6. CASE w = y
    BY <2>2, <2>4, <2>6
  <2>7. CASE w.queue = Append(y.queue, m) /\ w.got = y.got
    <3>1. PICK k : k = Len(y.queue)
      OBVIOUS
    <3>2. /\ k \in Nat /\ DOMAIN y.queue = 1 .. k /\ DOMAIN w.queue = 1 .. (k + 1)
          /\ w.queue[k + 1] = m /\ \A i \in 1 .. k : w.queue[i] = y.queue[i]
      BY <2>3, <2>7, <3>1
    <3>3. \A i \in 1 .. (k + 1) : i \in 1 .. k \/ i = k + 1
      BY <3>2
    <3>4. \A i \in DOMAIN w.queue : Sent(w.queue[i])'
      BY <1>10, <2>4, <3>2, <3>3 DEF StreamOf
    <3>5. ASSUME NEW i \in DOMAIN w.queue, NEW j \in DOMAIN w.queue, i < j
          PROVE  InOrder(w.queue[i], w.queue[j])'
      <4>1. i \in 1 .. k
        BY <3>2, <3>5
      <4>2. CASE j \in 1 .. k
        BY <2>4, <3>2, <3>5, <4>1, <4>2 DEF StreamOf
      <4>3. CASE j = k + 1
        BY <1>11, <2>4, <3>2, <4>1, <4>3 DEF StreamOf
      <4> QED
        BY <3>2, <3>3, <4>2, <4>3
    <3>6. ASSUME NEW i \in DOMAIN w.got, NEW j \in DOMAIN w.queue
          PROVE  InOrder(w.got[i], w.queue[j])'
      <4>1. CASE j \in 1 .. k
        BY <2>4, <2>7, <3>2, <4>1 DEF StreamOf
      <4>2. CASE j = k + 1
        BY <1>11, <2>4, <2>7, <3>2, <4>2 DEF StreamOf
      <4> QED
        BY <3>2, <3>3, <4>1, <4>2
    <3>7. \A i \in DOMAIN w.got : Sent(w.got[i])' /\ Matches(s, w.got[i])'
      BY <2>4, <2>7 DEF StreamOf
    <3>8. \A i, j \in DOMAIN w.got : i < j => InOrder(w.got[i], w.got[j])'
      BY <2>4, <2>7 DEF StreamOf
    <3>9. StreamOf(s, w)'
      BY <3>4, <3>5, <3>6, <3>7, <3>8 DEF StreamOf
    <3> QED
      BY <2>2, <3>9
  <2> QED
    BY <2>3, <2>5, <2>6, <2>7 DEF SubState
<1> QED
  BY <1>9, <1>12 DEF OrderInv

\* The oldest message is handed over.
LEMMA DeliverOrder ==
  ASSUME TInv, TInv', OrderInv, NEW s \in Sub, Deliver(s)
  PROVE  OrderInv'
<1>1. PICK y : y = subs[s]
  OBVIOUS
<1>2. PICK m : m = Head(y.queue)
  OBVIOUS
<1>3. PICK w : w = subs'[s]
  OBVIOUS
<1>4. /\ y \in SubState /\ y.queue \in Seq(Message) /\ y.got \in Seq(Message) /\ y.queue # << >>
      /\ StreamOf(s, y)
  BY <1>1 DEF TInv, SubState, Deliver, OrderInv
<1>5. subs' = [r \in Sub |-> IF r = s THEN [y EXCEPT !.queue = Tail(@),
                                 !.got = IF Matches(s, m) THEN Append(@, m) ELSE @] ELSE subs[r]]
      /\ tx' = tx /\ log' = log
  BY <1>1, <1>2 DEF Deliver, TInv
<1>6. w.queue = Tail(y.queue) /\ w.got = IF Matches(s, m) THEN Append(y.got, m) ELSE y.got
  BY <1>3, <1>4, <1>5 DEF SubState
<1>7. PICK k : k = Len(y.queue) - 1
  OBVIOUS
<1>8. /\ k \in Nat /\ DOMAIN y.queue = 1 .. (k + 1) /\ DOMAIN w.queue = 1 .. k
      /\ \A i \in 1 .. k : w.queue[i] = y.queue[i + 1]
      /\ m = y.queue[1]
  BY <1>2, <1>4, <1>6, <1>7
<1>9. \A i \in 1 .. k : i + 1 \in 1 .. (k + 1) /\ 1 < i + 1 /\ 1 \in 1 .. (k + 1)
  BY <1>8
<1>10. \A i \in DOMAIN w.queue : Sent(w.queue[i]) /\ InOrder(m, w.queue[i])
  BY <1>4, <1>8, <1>9 DEF StreamOf
<1>11. \A i, j \in DOMAIN w.queue : i < j => InOrder(w.queue[i], w.queue[j])
  <2> SUFFICES ASSUME NEW i \in 1 .. k, NEW j \in 1 .. k, i < j
               PROVE  InOrder(w.queue[i], w.queue[j])
    BY <1>8
  <2>1. i + 1 < j + 1
    BY <1>8
  <2> QED
    BY <1>4, <1>8, <1>9, <2>1 DEF StreamOf
<1>12. Sent(m) /\ \A i \in DOMAIN y.got : InOrder(y.got[i], m)
  BY <1>4, <1>8 DEF StreamOf
<1>13. \A i \in DOMAIN y.got, j \in DOMAIN w.queue : InOrder(y.got[i], w.queue[j])
  BY <1>4, <1>8, <1>9 DEF StreamOf
<1>14. StreamOf(s, w)
  <2>1. CASE w.got = y.got
    BY <1>4, <1>10, <1>11, <1>13, <2>1 DEF StreamOf
  <2>2. CASE w.got = Append(y.got, m) /\ Matches(s, m)
    <3>1. PICK g : g = Len(y.got)
      OBVIOUS
    <3>2. /\ g \in Nat /\ DOMAIN y.got = 1 .. g /\ DOMAIN w.got = 1 .. (g + 1)
          /\ w.got[g + 1] = m /\ \A i \in 1 .. g : w.got[i] = y.got[i]
      BY <1>4, <2>2, <3>1
    <3>3. \A i \in 1 .. (g + 1) : i \in 1 .. g \/ i = g + 1
      BY <3>2
    <3>4. \A i \in DOMAIN w.got : Sent(w.got[i]) /\ Matches(s, w.got[i])
      BY <1>4, <1>12, <2>2, <3>2, <3>3 DEF StreamOf
    <3>5. ASSUME NEW i \in DOMAIN w.got, NEW j \in DOMAIN w.got, i < j
          PROVE  InOrder(w.got[i], w.got[j])
      <4>1. i \in 1 .. g
        BY <3>2, <3>5
      <4>2. CASE j \in 1 .. g
        BY <1>4, <3>2, <3>5, <4>1, <4>2 DEF StreamOf
      <4>3. CASE j = g + 1
        BY <1>12, <3>2, <4>1, <4>3
      <4> QED
        BY <3>2, <3>3, <4>2, <4>3
    <3>6. \A i \in DOMAIN w.got, j \in DOMAIN w.queue : InOrder(w.got[i], w.queue[j])
      BY <1>10, <1>13, <3>2, <3>3
    <3> QED
      BY <1>10, <1>11, <3>4, <3>5, <3>6 DEF StreamOf
  <2> QED
    BY <1>6, <2>1, <2>2
<1>15. \A r \in Sub : StreamOf(r, subs'[r])
  BY <1>3, <1>5, <1>14 DEF OrderInv
<1>16. \A r \in Sub : StreamOf(r, subs[r])'
  BY <1>5, <1>15, StreamsHandled
<1>17. \A t \in Tx : Finishes(t)'
  BY <1>5 DEF OrderInv, Finishes, Committed
<1> QED
  BY <1>16, <1>17 DEF OrderInv

\* Every step.
LEMMA NextOrder == TInv /\ TInv' /\ OrderInv /\ [Next]_vars => OrderInv'
<1> SUFFICES ASSUME TInv, TInv', OrderInv, [Next]_vars PROVE OrderInv'
  OBVIOUS
<1>1. CASE UNCHANGED <<tx, log, subs>>
  BY <1>1 DEF OrderInv, Finishes, StreamOf, Sent, InOrder, Matches, Committed
<1>2. ASSUME NEW t \in Tx, NEW a \in Actor, Begin(t, a) PROVE OrderInv'
  <2>1. PICK y : y = [Fresh EXCEPT !.status = "open", !.actor = a, !.docs = docs, !.log = log]
    OBVIOUS
  <2>2. y.status = "open" /\ y.after = {}
    BY <2>1 DEF Fresh
  <2> QED
    BY <1>2, <2>1, <2>2, LocalOrder DEF Begin, Step, Committed
<1>3. ASSUME NEW t \in Tx, Rollback(t) PROVE OrderInv'
  <2>1. PICK y : y = [Fresh EXCEPT !.status = "rolledback"]
    OBVIOUS
  <2>2. y.status = "rolledback" /\ y.after = {}
    BY <2>1 DEF Fresh
  <2> QED
    BY <1>3, <2>1, <2>2, LocalOrder DEF Rollback, Step, Committed
<1>4. ASSUME NEW t \in Tx, NEW c \in Coll, NEW id \in Id, Reads(t, c, id) PROVE OrderInv'
  <2>1. PICK x : x = tx[t]
    OBVIOUS
  <2>2. x \in TxState /\ x.status = "open"
    BY <1>4, <2>1 DEF TInv, OfTx, Reads, Working
  <2>3. PICK y : y = [x EXCEPT !.reads = @ \cup {<<c, id>>}]
    OBVIOUS
  <2>4. y.status = "open" /\ y.after = x.after
    BY <2>2, <2>3 DEF TxState
  <2> QED
    BY <1>4, <2>1, <2>2, <2>3, <2>4, LocalOrder DEF Reads, Step, Committed
<1>5. ASSUME NEW t \in Tx, NEW c \in Coll, NEW id \in Id, NEW action, NEW cmd, NEW stored,
             Writes(t, c, id, action, cmd, stored)
      PROVE  OrderInv'
  <2>1. PICK r, reads : Becomes(t, With(tx[t], c, id, stored, r, reads))
    BY <1>5, WriteStep
  <2>2. PICK x : x = tx[t]
    OBVIOUS
  <2>3. x.status = "open" /\ stored \in Doc \cup {NoDoc}
    BY <1>5, <2>2 DEF Writes, Working
  <2>4. OfTx(t, x)
    BY <2>2 DEF TInv
  <2>5. x \in TxState /\ x.docs \in Docs
    BY <2>3, <2>4 DEF OfTx
  <2>6. PICK y : y = With(x, c, id, stored, r, reads)
    OBVIOUS
  <2>7. y.status = x.status /\ y.after = x.after
    BY <2>3, <2>5, <2>6, WithParts DEF Wrote
  <2> QED
    BY <2>1, <2>2, <2>3, <2>6, <2>7, LocalOrder DEF Committed
<1>6. ASSUME NEW t \in Tx, Work(t) PROVE OrderInv'
  <2>1. CASE \E a \in Actor : Begin(t, a)
    BY <1>2, <2>1
  <2>2. CASE Rollback(t)
    BY <1>3, <2>2
  <2>3. CASE Commit(t)
    BY <2>3, CommitOrder
  <2>4. CASE \E c \in Coll, id \in Id : \E action, cmd, stored : Writes(t, c, id, action, cmd, stored)
    BY <1>5, <2>4
  <2>5. CASE \E c \in Coll, id \in Id : Reads(t, c, id)
    BY <1>4, <2>5
  <2> QED
    BY <1>6, <2>1, <2>2, <2>3, <2>4, <2>5, WorkCases
<1>7. ASSUME NEW t \in Tx, CommitReturns(t) PROVE OrderInv'
  <2>1. PICK x : x = tx[t]
    OBVIOUS
  <2>2. x \in TxState /\ x.status = "publishing" /\ x.sent = Len(x.own) /\ x.sent \in Nat
    BY <1>7, <2>1 DEF TInv, OfTx, TxState, CommitReturns
  <2>3. PICK y : y = [x EXCEPT !.status = "committed"]
    OBVIOUS
  <2>4. y.status = "committed" /\ y.own = x.own /\ y.after = x.after /\ y.sent = x.sent
    BY <2>2, <2>3 DEF TxState
  <2>5. tx' = [u \in Tx |-> IF u = t THEN y ELSE tx[u]] /\ log' = log /\ subs' = subs
    BY <1>7, <2>1, <2>3 DEF CommitReturns, Step, Becomes, TInv
  <2>6. \A u \in Tx : /\ tx'[u].own = tx[u].own /\ tx'[u].after = tx[u].after /\ tx'[u].sent = tx[u].sent
                      /\ (u # t => tx'[u].status = tx[u].status)
    BY <2>1, <2>4, <2>5
  <2>7. \A u \in Tx : tx[u].sent \in Nat /\ tx[u].after \subseteq Tx
    BY DEF TInv, OfTx, TxState
  <2>8. tx'[t].status = "committed" /\ Committed(t)
    BY <2>1, <2>2, <2>4, <2>5 DEF Committed
  <2>9. \A u \in Tx : Committed(u) <=> Committed(u)'
    BY <2>6, <2>8 DEF Committed
  <2>10. Kept
    BY <2>6, <2>7, <2>9 DEF Kept
  <2>11. ASSUME NEW u \in Tx PROVE Finishes(u)'
    <3>1. Finishes(u)
      BY DEF OrderInv
    <3>2. \A v \in tx'[u].after : tx'[v].status = "committed"
      BY <2>6, <2>7, <2>8, <3>1 DEF Finishes
    <3>3. tx'[u].status = "committed" => tx'[u].sent = Len(tx'[u].own)
      BY <2>1, <2>2, <2>6, <3>1 DEF Finishes
    <3>4. Committed(u)' => \A n \in DOMAIN tx'[u].own : tx'[u].own[n] \in ToSet(log')
      BY <2>5, <2>6, <2>9, <3>1 DEF Finishes
    <3> QED
      BY <3>2, <3>3, <3>4 DEF Finishes
  <2>12. \A s \in Sub : StreamOf(s, subs[s])'
    BY <2>5, <2>10, StreamKept DEF OrderInv
  <2> QED
    BY <2>11, <2>12 DEF OrderInv
<1>8. ASSUME NEW s \in Sub, Subscribe(s) \/ Unsubscribe(s) PROVE OrderInv'
  <2>1. tx' = tx /\ log' = log
    BY <1>8 DEF Subscribe, Unsubscribe
  <2>2. \A r \in Sub : /\ subs'[r].got = subs[r].got \/ subs'[r].got = << >>
                       /\ subs'[r].queue = subs[r].queue \/ subs'[r].queue = << >>
    <3>1. CASE Subscribe(s)
      <4>1. PICK z : z = subs[s]
        OBVIOUS
      <4>2. PICK e : e = {t \in Tx : tx[t].status \in {"new", "open"}}
        OBVIOUS
      <4>3. PICK y : y = [z EXCEPT !.on = TRUE, !.from = e]
        OBVIOUS
      <4>4. y.got = z.got /\ y.queue = z.queue
        BY <4>1, <4>3 DEF TInv, SubState
      <4>5. subs' = [subs EXCEPT ![s] = y]
        BY <3>1, <4>1, <4>2, <4>3 DEF Subscribe, TInv
      <4> QED
        BY <4>1, <4>4, <4>5 DEF TInv
    <3>2. CASE Unsubscribe(s)
      BY <3>2 DEF Unsubscribe, Quiet, TInv
    <3> QED
      BY <1>8, <3>1, <3>2
  <2>3. \A r \in Sub : StreamOf(r, subs'[r])
    BY <2>2 DEF OrderInv, StreamOf
  <2>4. \A r \in Sub : StreamOf(r, subs[r])'
    BY <2>1, <2>3, StreamsHandled
  <2>5. \A t \in Tx : Finishes(t)'
    BY <2>1 DEF OrderInv, Finishes, Committed
  <2> QED
    BY <2>4, <2>5 DEF OrderInv
<1> QED
  BY <1>1, <1>6, <1>7, <1>8, PublishOrder, DeliverOrder DEF Next, vars

\* Nothing has been sent.
LEMMA InitOrder == Init => OrderInv
<1> SUFFICES ASSUME Init PROVE OrderInv
  OBVIOUS
<1>1. \A t \in Tx : Finishes(t)
  BY DEF Init, Fresh, Finishes, Committed
<1>2. \A s \in Sub : StreamOf(s, subs[s])
  BY DEF Init, Quiet, StreamOf
<1> QED
  BY <1>1, <1>2 DEF OrderInv

\* DeliveredInOrder: a handler is called with committed changes it asked for, those
\* of a transaction in order, those of two in the order of their commits (db.go:578).
THEOREM ChangesComeInOrder == Spec => []DeliveredInOrder
<1>1. Spec => [](TInv /\ OrderInv)
  BY InitTypes, NextTypes, InitOrder, NextOrder, PTL DEF Spec
<1> QED
  BY <1>1, OrderShows, PTL

-----------------------------------------------------------------------------
(* The log of changes.                                                       *)

\* What the difference of change r says of the document p that it found.
Faithful(r, p) ==
  /\ \A f \in Field : f \notin DOMAIN r.diff => FieldsOf(r.new)[f] = FieldsOf(p)[f]
  /\ \A f \in DOMAIN r.diff : r.diff[f].before = FieldsOf(p)[f]
  /\ r.action # "update" => ApplyOps(FieldsOf(p), r.diff) = FieldsOf(r.new)
  /\ r.action \in {"set", "update"} /\ p # NoDoc => \A f \in Fixed : r.new[f] = p[f]

\* The change at i continues those before it.
Grounded(l, i) ==
  /\ Faithful(l[i], FoundBy(l, i))
  /\ \A j \in Earlier(l, i) : l[j].time <= l[i].time

\* The change at i was made in view of all that come before it.
Recalls(l, i) == l[i].saw = {Name(l[j]) : j \in Earlier(l, i)}

\* d is the document that the changes in l leave.
Latest(l, c, id, d) ==
  \/ Places(l, c, id) = {} /\ d = NoDoc
  \/ \E k \in Places(l, c, id) : d = l[k].new /\ \A j \in Places(l, c, id) : j <= k

Unique(g) == \A i, j \in DOMAIN g : Name(g[i]) = Name(g[j]) => i = j

\* The log l accounts for the documents d.
Sound(l, d) ==
  /\ Unique(l)
  /\ \A i \in DOMAIN l : Informed(l, i) => Grounded(l, i)
  /\ \A c \in Coll, id \in Id : Latest(l, c, id, d[c][id])

\* The committed changes.
LogInv ==
  /\ \A i \in DOMAIN log : Committed(log[i].tx) /\ log[i].time <= now
  /\ Sound(log, docs)

\* v is the first k changes of l and then those in own, made in view of all
\* before them, at most at time T.
Extends(v, l, k, own, T) ==
  /\ k \in 0 .. Len(l) /\ Len(v) = k + Len(own)
  /\ \A i \in 1 .. k : v[i] = l[i]
  /\ \A n \in 1 .. Len(own) :
       /\ v[k + n] = own[n] /\ own[n].time <= T
       /\ Recalls(v, k + n) /\ (~own[n].blind => Grounded(v, k + n))

\* What an open transaction sees.
ViewInv(x, l, T) ==
  x.status = "open" =>
    /\ \E k : Extends(x.log, l, k, x.own, T)
    /\ \A c \in Coll, id \in Id : Latest(x.log, c, id, x.docs[c][id])

ChangeInv == LogInv /\ \A t \in Tx : ViewInv(tx[t], log, now)

-----------------------------------------------------------------------------
(* What is known of a change depends on the log up to it.                    *)

\* The places before one of a document.
LEMMA EarlierPlaces ==
  ASSUME NEW l \in Seq(Change), NEW i \in DOMAIN l
  PROVE  /\ Earlier(l, i) \subseteq 1 .. Len(l) /\ Len(l) \in Nat
         /\ \A j : j \in Earlier(l, i) <=> j \in DOMAIN l /\ l[j].coll = l[i].coll /\ l[j].id = l[i].id /\ j < i
BY DEF Earlier, Places

\* What a change found is what the last of those before it left.
LEMMA FoundIs ==
  ASSUME NEW l \in Seq(Change), NEW i \in DOMAIN l
  PROVE  /\ Earlier(l, i) = {} => FoundBy(l, i) = NoDoc
         /\ Earlier(l, i) # {} => \E k \in Earlier(l, i) : FoundBy(l, i) = l[k].new /\ \A j \in Earlier(l, i) : j <= k
<1>1. Earlier(l, i) \subseteq 1 .. Len(l) /\ Len(l) \in Nat
  BY EarlierPlaces
<1>2. PICK E : E = Earlier(l, i)
  OBVIOUS
<1>3. E # {} => Max(E) \in E /\ \A j \in E : j <= Max(E)
  BY <1>1, <1>2, MaxPlace
<1>4. FoundBy(l, i) = IF E = {} THEN NoDoc ELSE l[Max(E)].new
  BY <1>2 DEF FoundBy
<1> QED
  BY <1>2, <1>3, <1>4

\* Two logs in which change i, at one place or another, has the same past: up
\* takes the places of the one to those of the other.
Carries(up, l, i, m, h) ==
  /\ i \in DOMAIN l /\ h \in DOMAIN m /\ m[h] = l[i]
  /\ \A j \in Earlier(l, i) : up[j] \in Earlier(m, h) /\ m[up[j]] = l[j]
  /\ \A q \in Earlier(m, h) : \E j \in Earlier(l, i) : q = up[j]
  /\ \A a, b \in Earlier(l, i) : a <= b => up[a] <= up[b]

\* Then the change is as well grounded in the one as in the other.
LEMMA SamePast ==
  ASSUME NEW l \in Seq(Change), NEW i, NEW m \in Seq(Change), NEW h, NEW up, Carries(up, l, i, m, h)
  PROVE  /\ FoundBy(m, h) = FoundBy(l, i)
         /\ Grounded(l, i) => Grounded(m, h)
<1> USE DEF Carries
<1>1. FoundBy(m, h) = FoundBy(l, i)
  <2>1. CASE Earlier(l, i) = {}
    <3>1. Earlier(m, h) = {}
      BY <2>1
    <3> QED
      BY <2>1, <3>1, FoundIs
  <2>2. CASE Earlier(l, i) # {}
    <3>1. PICK k \in Earlier(l, i) : FoundBy(l, i) = l[k].new /\ \A j \in Earlier(l, i) : j <= k
      BY <2>2, FoundIs
    <3>2. up[k] \in Earlier(m, h) /\ m[up[k]] = l[k]
      BY <3>1
    <3>3. PICK q \in Earlier(m, h) : FoundBy(m, h) = m[q].new /\ \A j \in Earlier(m, h) : j <= q
      BY <3>2, FoundIs
    <3>4. up[k] <= q
      BY <3>2, <3>3
    <3>5. PICK j \in Earlier(l, i) : q = up[j]
      BY <3>3
    <3>6. q <= up[k]
      BY <3>1, <3>5
    <3>7. q \in Nat /\ up[k] \in Nat
      <4>1. Earlier(m, h) \subseteq 1 .. Len(m) /\ Len(m) \in Nat
        BY EarlierPlaces
      <4> QED
        BY <3>2, <3>3, <4>1
    <3>8. q = up[k]
      BY <3>4, <3>6, <3>7
    <3> QED
      BY <3>1, <3>2, <3>3, <3>8
  <2> QED
    BY <2>1, <2>2
<1>2. ASSUME Grounded(l, i), NEW q \in Earlier(m, h) PROVE m[q].time <= m[h].time
  <2>1. PICK j \in Earlier(l, i) : q = up[j]
    OBVIOUS
  <2>2. m[q] = l[j]
    BY <2>1
  <2>3. l[j].time <= l[i].time
    BY <1>2, <2>1 DEF Grounded
  <2> QED
    BY <2>2, <2>3
<1>3. Grounded(l, i) => Faithful(m[h], FoundBy(m, h))
  BY <1>1 DEF Grounded
<1> QED
  BY <1>1, <1>2, <1>3 DEF Grounded

\* Logs that agree up to i.
LEMMA SameStart ==
  ASSUME NEW l \in Seq(Change), NEW m \in Seq(Change), NEW i \in DOMAIN l, i \in DOMAIN m,
         \A j \in 1 .. i : m[j] = l[j]
  PROVE  /\ Earlier(m, i) = Earlier(l, i)
         /\ Grounded(l, i) => Grounded(m, i)
         /\ Recalls(m, i) <=> Recalls(l, i)
<1>1. i \in 1 .. Len(l) /\ i \in 1 .. Len(m) /\ Len(l) \in Nat /\ Len(m) \in Nat
      /\ DOMAIN l = 1 .. Len(l) /\ DOMAIN m = 1 .. Len(m)
  OBVIOUS
<1>2. m[i] = l[i] /\ i \in Nat
  BY <1>1
<1>3. \A j : j \in Earlier(m, i) <=> j \in Earlier(l, i)
  <2>1. \A j \in DOMAIN m : j < i => m[j] = l[j] /\ j \in DOMAIN l
    BY <1>1
  <2>2. \A j \in DOMAIN l : j < i => m[j] = l[j] /\ j \in DOMAIN m
    BY <1>1
  <2>3. \A j : j \in Earlier(l, i) <=> j \in DOMAIN l /\ l[j].coll = l[i].coll /\ l[j].id = l[i].id /\ j < i
    BY EarlierPlaces
  <2>4. \A j : j \in Earlier(m, i) <=> j \in DOMAIN m /\ m[j].coll = m[i].coll /\ m[j].id = m[i].id /\ j < i
    BY EarlierPlaces
  <2> QED
    BY <1>2, <2>1, <2>2, <2>3, <2>4
<1>4. Earlier(m, i) = Earlier(l, i)
  BY <1>3
<1>5. \A j \in Earlier(l, i) : m[j] = l[j] /\ j \in Nat
  <2>1. \A j \in Earlier(l, i) : j \in DOMAIN l /\ j < i
    BY EarlierPlaces
  <2> QED
    BY <1>1, <2>1
<1>6. PICK up : up = [j \in Earlier(l, i) |-> j]
  OBVIOUS
<1>7. /\ \A j \in Earlier(l, i) : up[j] \in Earlier(m, i) /\ m[up[j]] = l[j]
      /\ \A q \in Earlier(m, i) : \E j \in Earlier(l, i) : q = up[j]
      /\ \A a, b \in Earlier(l, i) : a <= b => up[a] <= up[b]
  BY <1>4, <1>5, <1>6
<1>8. Grounded(l, i) => Grounded(m, i)
  <2>1. Carries(up, l, i, m, i)
    BY <1>1, <1>2, <1>7 DEF Carries
  <2> QED
    BY <2>1, SamePast
<1>9. {Name(m[j]) : j \in Earlier(m, i)} = {Name(l[j]) : j \in Earlier(l, i)}
  BY <1>4, <1>5
<1> QED
  BY <1>2, <1>4, <1>8, <1>9 DEF Recalls

-----------------------------------------------------------------------------
(* A command.                                                                *)

\* What a command records is true of what it found and of what it stored.
LEMMA WriteFaithful ==
  ASSUME NEW b \in Doc \cup {NoDoc}, NEW action, NEW cmd \in Doc, NEW stored,
         Outcome(b, action, cmd, stored), NEW r,
         r.diff = Diff(cmd, FieldsOf(b)), r.new = stored, r.action = action, stored \in Doc \cup {NoDoc}
  PROVE  Faithful(r, b)
<1>1. PICK e : e = FieldsOf(b)
  OBVIOUS
<1>2. e \in Doc
  BY <1>1, DocTypes
<1>3. DOMAIN r.diff = {g \in Field : cmd[g] # e[g]}
  BY <1>1 DEF Diff
<1>4. \A f \in DOMAIN r.diff : /\ r.diff[f].before = e[f] /\ r.diff[f].value = cmd[f]
                               /\ r.diff[f].op = "remove" <=> cmd[f] = Absent
  BY <1>1 DEF Diff
<1>5. ApplyOps(e, r.diff) = cmd
  <2>1. ApplyOps(e, r.diff) = [f \in Field |-> cmd[f]]
    <3>1. ASSUME NEW f \in Field
          PROVE  (IF f \notin DOMAIN r.diff THEN e[f]
                  ELSE IF r.diff[f].op = "remove" THEN Absent ELSE r.diff[f].value) = cmd[f]
      <4>1. CASE f \notin DOMAIN r.diff
        BY <1>3, <4>1
      <4>2. CASE f \in DOMAIN r.diff
        BY <1>4, <4>2
      <4> QED
        BY <4>1, <4>2
    <3> QED
      BY <3>1 DEF ApplyOps
  <2> QED
    BY <2>1 DEF Doc
<1>6. \A f \in Field : f \notin DOMAIN r.diff => FieldsOf(stored)[f] = e[f]
  BY <1>1, <1>3 DEF Outcome
<1>7. r.action # "update" => ApplyOps(e, r.diff) = FieldsOf(stored)
  BY <1>5 DEF Outcome
<1>8. r.action \in {"set", "update"} /\ b # NoDoc => \A f \in Fixed : r.new[f] = b[f]
  BY DEF Outcome
<1> QED
  BY <1>1, <1>4, <1>6, <1>7, <1>8 DEF Faithful

\* g is the log l with one change more, r.
Longer(g, l, r) ==
  /\ g \in Seq(Change) /\ Len(l) \in Nat /\ Len(g) = Len(l) + 1
  /\ DOMAIN l = 1 .. Len(l) /\ DOMAIN g = 1 .. (Len(l) + 1)
  /\ \A i \in 1 .. Len(l) : g[i] = l[i]
  /\ g[Len(l) + 1] = r

\* That is what Append gives.
LEMMA AppendIsLonger ==
  ASSUME NEW l \in Seq(Change), NEW r \in Change, NEW g, g = Append(l, r)
  PROVE  Longer(g, l, r)
BY DEF Longer

\* The places of a document in a longer log.
LEMMA LongerPlaces ==
  ASSUME NEW l, NEW r, NEW g, Longer(g, l, r), NEW c, NEW id
  PROVE  /\ \A j : j \in Places(g, c, id) <=> j \in Places(l, c, id) \/ (j = Len(l) + 1 /\ r.coll = c /\ r.id = id)
         /\ \A j \in Places(l, c, id) : j \in 1 .. Len(l) /\ j < Len(l) + 1 /\ j \in Nat
<1>1. /\ Len(l) \in Nat /\ DOMAIN l = 1 .. Len(l) /\ DOMAIN g = 1 .. (Len(l) + 1)
      /\ \A i \in 1 .. Len(l) : g[i] = l[i]
      /\ g[Len(l) + 1] = r
  BY DEF Longer
<1>2. \A j : j \in DOMAIN g <=> j \in DOMAIN l \/ j = Len(l) + 1
  BY <1>1
<1>3. \A j : j \in Places(g, c, id) <=> j \in Places(l, c, id) \/ (j = Len(l) + 1 /\ r.coll = c /\ r.id = id)
  BY <1>1, <1>2 DEF Places
<1>4. \A j \in Places(l, c, id) : j \in 1 .. Len(l) /\ j < Len(l) + 1 /\ j \in Nat
  BY <1>1 DEF Places
<1> QED
  BY <1>3, <1>4

\* The last change found what the log before it leaves.
LEMMA AppendFinds ==
  ASSUME NEW l \in Seq(Change), NEW r \in Change, NEW g, g = Append(l, r),
         NEW d, Latest(l, r.coll, r.id, d), NEW i, i = Len(l) + 1
  PROVE  /\ Earlier(g, i) = Places(l, r.coll, r.id)
         /\ FoundBy(g, i) = d
<1>1. /\ g \in Seq(Change) /\ Len(g) = Len(l) + 1 /\ Len(l) \in Nat
      /\ g[i] = r /\ i \in DOMAIN g
      /\ \A j \in 1 .. Len(l) : g[j] = l[j]
  BY AppendIsLonger DEF Longer
<1> Longer(g, l, r)
  BY AppendIsLonger
<1>2. \A j : j \in Places(g, r.coll, r.id) <=> j \in Places(l, r.coll, r.id) \/ j = i
  BY LongerPlaces
<1>3. \A j \in Places(l, r.coll, r.id) : j \in 1 .. Len(l) /\ j < i
  BY LongerPlaces
<1>4. ~(i < i)
  BY <1>1
<1>5. Earlier(g, i) = Places(l, r.coll, r.id)
  BY <1>1, <1>2, <1>3, <1>4 DEF Earlier
<1>6. CASE Places(l, r.coll, r.id) = {}
  <2>1. d = NoDoc
    BY <1>6 DEF Latest
  <2> QED
    BY <1>1, <1>5, <1>6, <2>1, FoundIs
<1>7. CASE Places(l, r.coll, r.id) # {}
  <2>1. PICK k \in Places(l, r.coll, r.id) : d = l[k].new /\ \A j \in Places(l, r.coll, r.id) : j <= k
    BY <1>7 DEF Latest
  <2>2. PICK q \in Earlier(g, i) : FoundBy(g, i) = g[q].new /\ \A j \in Earlier(g, i) : j <= q
    BY <1>1, <1>5, <1>7, FoundIs
  <2>3. q <= k /\ k <= q /\ q \in Nat /\ k \in Nat
    BY <1>1, <1>3, <1>5, <2>1, <2>2
  <2>4. q = k /\ g[k] = l[k]
    BY <1>1, <1>3, <2>1, <2>3
  <2> QED
    BY <1>5, <2>1, <2>2, <2>4
<1> QED
  BY <1>5, <1>6, <1>7

\* What a longer log leaves.
LEMMA AppendLatest ==
  ASSUME NEW l \in Seq(Change), NEW r \in Change, NEW g, g = Append(l, r), NEW c, NEW id, NEW d,
         IF r.coll = c /\ r.id = id THEN d = r.new ELSE Latest(l, c, id, d)
  PROVE  Latest(g, c, id, d)
<1> Longer(g, l, r)
  BY AppendIsLonger
<1>1. /\ \A i \in 1 .. Len(l) : g[i] = l[i]
      /\ g[Len(l) + 1] = r /\ Len(l) \in Nat
      /\ \A j : j \in Places(g, c, id) <=> j \in Places(l, c, id) \/ (j = Len(l) + 1 /\ r.coll = c /\ r.id = id)
      /\ \A j \in Places(l, c, id) : j \in 1 .. Len(l) /\ j < Len(l) + 1
  BY LongerPlaces DEF Longer
<1>2. CASE r.coll = c /\ r.id = id
  <2>1. Len(l) + 1 \in Places(g, c, id) /\ \A j \in Places(g, c, id) : j <= Len(l) + 1
    BY <1>1, <1>2
  <2> QED
    BY <1>1, <1>2, <2>1 DEF Latest
<1>3. CASE ~(r.coll = c /\ r.id = id)
  <2>1. Places(g, c, id) = Places(l, c, id)
    BY <1>1, <1>3
  <2>2. Latest(l, c, id, d)
    BY <1>3
  <2> QED
    BY <1>1, <2>1, <2>2 DEF Latest
<1> QED
  BY <1>2, <1>3

\* A change made in view of the whole log, which its difference continues.
LEMMA ExtendsMore ==
  ASSUME NEW v \in Seq(Change), NEW l \in Seq(Change), NEW own \in Seq(Change), NEW k, NEW T, NEW U \in Nat,
         T \in Nat, T <= U, Extends(v, l, k, own, T), \A i \in DOMAIN l : l[i].time <= T,
         NEW r \in Change, r.time = U, NEW d, Latest(v, r.coll, r.id, d),
         r.saw = {Name(v[i]) : i \in Places(v, r.coll, r.id)},
         ~r.blind => Faithful(r, d)
  PROVE  Extends(Append(v, r), l, k, Append(own, r), U)
<1>1. PICK g : g = Append(v, r)
  OBVIOUS
<1>2. PICK w : w = Append(own, r)
  OBVIOUS
<1>3. PICK N : N = Len(own)
  OBVIOUS
<1>4. /\ N \in Nat /\ k \in Nat /\ Len(v) = k + N /\ Len(l) \in Nat /\ k <= Len(l)
      /\ \A i \in 1 .. k : v[i] = l[i]
      /\ \A n \in 1 .. N : /\ v[k + n] = own[n] /\ own[n].time <= T
                           /\ Recalls(v, k + n) /\ (~own[n].blind => Grounded(v, k + n))
  BY <1>3 DEF Extends
<1>5. /\ g \in Seq(Change) /\ Len(g) = (k + N) + 1
      /\ \A i \in 1 .. (k + N) : g[i] = v[i]
      /\ g[(k + N) + 1] = r
  BY <1>1, <1>4, AppendIsLonger DEF Longer
<1>6. /\ w \in Seq(Change) /\ Len(w) = N + 1
      /\ \A i \in 1 .. N : w[i] = own[i]
      /\ w[N + 1] = r
  BY <1>2, <1>3
<1>7. \A n \in 1 .. N : own[n].time \in Nat
  <2> SUFFICES ASSUME NEW n \in 1 .. N PROVE own[n].time \in Nat
    OBVIOUS
  <2>1. own[n] \in Change
    BY <1>3
  <2> QED
    BY <2>1 DEF Change
<1>8. ASSUME NEW n \in 1 .. N
      PROVE  /\ g[k + n] = w[n] /\ w[n].time <= U
             /\ Recalls(g, k + n) /\ (~w[n].blind => Grounded(g, k + n))
  <2>1. k + n \in 1 .. (k + N)
    BY <1>4
  <2>2. g[k + n] = w[n]
    BY <1>4, <1>5, <1>6, <2>1
  <2>3. w[n].time <= U
    <3>1. w[n] = own[n] /\ own[n].time \in Nat /\ own[n].time <= T
      BY <1>4, <1>6, <1>7
    <3>2. PICK e : e = own[n].time
      OBVIOUS
    <3>3. e <= U
      BY <3>1, <3>2
    <3> QED
      BY <3>1, <3>2, <3>3
  <2>4. k + n \in DOMAIN v /\ k + n \in DOMAIN g /\ \A j \in 1 .. (k + n) : g[j] = v[j]
    BY <1>4, <1>5
  <2>5. /\ Recalls(g, k + n) <=> Recalls(v, k + n)
        /\ Grounded(v, k + n) => Grounded(g, k + n)
    BY <1>5, <2>4, SameStart
  <2> QED
    BY <1>4, <1>6, <2>2, <2>3, <2>5
<1>9. /\ Earlier(g, (k + N) + 1) = Places(v, r.coll, r.id)
      /\ FoundBy(g, (k + N) + 1) = d
  <2>1. PICK q : q = Len(v) + 1
    OBVIOUS
  <2>2. Earlier(g, q) = Places(v, r.coll, r.id) /\ FoundBy(g, q) = d
    BY <1>1, <2>1, AppendFinds
  <2> QED
    BY <1>4, <2>1, <2>2
<1>10. \A j \in Places(v, r.coll, r.id) : j \in 1 .. (k + N)
  <2>1. Longer(g, v, r)
    BY <1>1, AppendIsLonger
  <2>2. \A j \in Places(v, r.coll, r.id) : j \in 1 .. Len(v)
    BY <2>1, LongerPlaces
  <2> QED
    BY <1>4, <2>2
<1>11. Recalls(g, (k + N) + 1)
  <2>1. \A j \in Places(v, r.coll, r.id) : g[j] = v[j]
    BY <1>5, <1>10
  <2>2. {Name(g[j]) : j \in Places(v, r.coll, r.id)} = {Name(v[j]) : j \in Places(v, r.coll, r.id)}
    BY <2>1
  <2> QED
    BY <1>5, <1>9, <2>2 DEF Recalls
<1>12. ASSUME NEW j \in Places(v, r.coll, r.id) PROVE g[j].time <= U
  <2>1. j \in 1 .. (k + N) /\ g[j] = v[j]
    BY <1>5, <1>10
  <2>2. CASE j \in 1 .. k
    <3>1. j \in DOMAIN l /\ v[j] = l[j]
      BY <1>4, <2>2
    <3>2. l[j] \in Change
      BY <3>1
    <3>3. l[j].time \in Nat /\ l[j].time <= T
      BY <3>1, <3>2 DEF Change
    <3> QED
      BY <2>1, <3>1, <3>3
  <2>3. CASE j > k
    <3>1. j - k \in 1 .. N /\ k + (j - k) = j
      BY <1>4, <2>1, <2>3
    <3>2. v[j] = own[j - k] /\ own[j - k].time <= T /\ own[j - k].time \in Nat
      BY <1>4, <1>7, <3>1
    <3> QED
      BY <2>1, <3>2
  <2> QED
    BY <1>4, <2>1, <2>2, <2>3
<1>13. ~r.blind => Grounded(g, (k + N) + 1)
  BY <1>5, <1>9, <1>12 DEF Grounded
<1>14. \A n \in 1 .. (N + 1) :
         /\ g[k + n] = w[n] /\ w[n].time <= U
         /\ Recalls(g, k + n) /\ (~w[n].blind => Grounded(g, k + n))
  <2> SUFFICES ASSUME NEW n \in 1 .. (N + 1)
               PROVE  /\ g[k + n] = w[n] /\ w[n].time <= U
                      /\ Recalls(g, k + n) /\ (~w[n].blind => Grounded(g, k + n))
    OBVIOUS
  <2>1. CASE n \in 1 .. N
    BY <1>8, <2>1
  <2>2. CASE n = N + 1
    <3>1. k + n = (k + N) + 1
      BY <1>4, <2>2
    <3> QED
      BY <1>5, <1>6, <1>11, <1>13, <2>2, <3>1
  <2> QED
    BY <1>4, <2>1, <2>2
<1>15. \A i \in 1 .. k : g[i] = l[i]
  BY <1>4, <1>5
<1>16. Len(g) = k + Len(w) /\ k \in 0 .. Len(l)
  BY <1>4, <1>5, <1>6
<1> QED
  BY <1>1, <1>2, <1>6, <1>14, <1>15, <1>16 DEF Extends

-----------------------------------------------------------------------------
(* A commit puts the changes of one transaction behind those of others.      *)

\* g is the log l and then own.
Joined(g, l, own) ==
  /\ g \in Seq(Change) /\ Len(l) \in Nat /\ Len(own) \in Nat /\ Len(g) = Len(l) + Len(own)
  /\ DOMAIN l = 1 .. Len(l) /\ DOMAIN own = 1 .. Len(own) /\ DOMAIN g = 1 .. (Len(l) + Len(own))
  /\ \A i \in 1 .. Len(l) : g[i] = l[i]
  /\ \A n \in 1 .. Len(own) : g[Len(l) + n] = own[n]

\* That is what a commit makes of the log.
LEMMA JoinIsJoined ==
  ASSUME NEW l \in Seq(Change), NEW own \in Seq(Change), NEW g, g = l \o own
  PROVE  Joined(g, l, own)
<1>1. PICK L : L = Len(l)
  OBVIOUS
<1>2. PICK N : N = Len(own)
  OBVIOUS
<1>3. L \in Nat /\ N \in Nat /\ DOMAIN l = 1 .. L /\ DOMAIN own = 1 .. N
  BY <1>1, <1>2
<1>4. g \in Seq(Change) /\ Len(g) = L + N /\ DOMAIN g = 1 .. (L + N)
  BY <1>1, <1>2
<1>5. \A i \in 1 .. L : g[i] = l[i]
  BY <1>1, <1>2
<1>6. \A n \in 1 .. N : g[L + n] = own[n]
  BY <1>1, <1>2
<1> QED
  BY <1>1, <1>2, <1>3, <1>4, <1>5, <1>6 DEF Joined

\* A longer log takes nothing away.
LEMMA ExtendsLater ==
  ASSUME NEW v, NEW l \in Seq(Change), NEW own \in Seq(Change), NEW k, NEW T \in Nat, NEW U \in Nat, T <= U,
         Extends(v, l, k, own, T), NEW m, Len(m) \in Nat, Len(l) <= Len(m), \A i \in 1 .. Len(l) : m[i] = l[i]
  PROVE  Extends(v, m, k, own, U)
<1>1. Len(l) \in Nat
  OBVIOUS
<1>2. k \in 0 .. Len(m)
  BY <1>1 DEF Extends
<1>3. \A i \in 1 .. k : v[i] = m[i]
  BY <1>1 DEF Extends
<1>4. ASSUME NEW n \in 1 .. Len(own) PROVE own[n].time <= U
  <2>1. own[n] \in Change
    OBVIOUS
  <2>2. PICK e : e = own[n].time
    OBVIOUS
  <2>3. e \in Nat /\ e <= T
    BY <2>1, <2>2 DEF Change, Extends
  <2>4. e <= U
    BY <2>3
  <2> QED
    BY <2>2, <2>4
<1> QED
  BY <1>2, <1>3, <1>4 DEF Extends

\* Where the place j of a transaction's view is in the log after its commit:
\* k committed changes were in view, and there were L when it committed.
Moved(k, L, N) == [j \in 1 .. (k + N) |-> IF j <= k THEN j ELSE (j - k) + L]

\* Those places hold the same changes, in the same order.
LEMMA MovedPlaces ==
  ASSUME NEW v, NEW l, NEW own, NEW g, NEW k, NEW T, Extends(v, l, k, own, T), Joined(g, l, own),
         NEW up, up = Moved(k, Len(l), Len(own))
  PROVE  /\ \A j \in 1 .. (k + Len(own)) : up[j] \in DOMAIN g /\ g[up[j]] = v[j]
         /\ \A a, b \in 1 .. (k + Len(own)) : a <= b => up[a] <= up[b]
         /\ \A a, b \in 1 .. (k + Len(own)) : a < b => up[a] < up[b]
         /\ \A n \in 1 .. Len(own) : k + n \in 1 .. (k + Len(own)) /\ up[k + n] = Len(l) + n
<1>1. PICK L : L = Len(l)
  OBVIOUS
<1>2. PICK N : N = Len(own)
  OBVIOUS
<1>3. /\ k \in Nat /\ L \in Nat /\ N \in Nat /\ k <= L /\ DOMAIN g = 1 .. (L + N)
      /\ \A i \in 1 .. k : v[i] = l[i]
      /\ \A i \in 1 .. L : g[i] = l[i]
      /\ \A n \in 1 .. N : g[L + n] = own[n] /\ v[k + n] = own[n]
  BY <1>1, <1>2 DEF Extends, Joined
<1>4. \A j \in 1 .. (k + N) : up[j] = IF j <= k THEN j ELSE (j - k) + L
  BY <1>1, <1>2 DEF Moved
<1>5. ASSUME NEW j \in 1 .. (k + N) PROVE up[j] \in DOMAIN g /\ g[up[j]] = v[j]
  <2>1. CASE j <= k
    <3>1. up[j] = j /\ j \in 1 .. k /\ j \in 1 .. L
      BY <1>3, <1>4, <2>1
    <3> QED
      BY <1>3, <3>1
  <2>2. CASE ~(j <= k)
    <3>1. j - k \in 1 .. N /\ k + (j - k) = j /\ up[j] = L + (j - k)
      BY <1>3, <1>4, <2>2
    <3>2. up[j] \in 1 .. (L + N)
      BY <1>3, <3>1
    <3> QED
      BY <1>3, <3>1, <3>2
  <2> QED
    BY <2>1, <2>2
<1>6. \A a, b \in 1 .. (k + N) : a < b => up[a] < up[b]
  BY <1>3, <1>4
<1>7. \A a, b \in 1 .. (k + N) : a <= b => up[a] <= up[b]
  BY <1>3, <1>4
<1>8. ASSUME NEW n \in 1 .. N PROVE k + n \in 1 .. (k + N) /\ up[k + n] = L + n
  <2>1. k + n \in 1 .. (k + N) /\ ~(k + n <= k) /\ (k + n) - k = n /\ n \in Nat
    BY <1>3
  <2>2. up[k + n] = n + L
    BY <1>4, <2>1
  <2> QED
    BY <1>3, <2>1, <2>2
<1> QED
  BY <1>1, <1>2, <1>5, <1>6, <1>7, <1>8

\* If a change still recalls all that come before it, nothing has come between.
LEMMA JoinedGrounded ==
  ASSUME NEW v \in Seq(Change), NEW l, NEW own, NEW g, NEW k, NEW T, Extends(v, l, k, own, T), Joined(g, l, own),
         Unique(g), NEW n \in 1 .. Len(own), Informed(g, Len(l) + n)
  PROVE  Grounded(g, Len(l) + n)
<1>1. PICK L : L = Len(l)
  OBVIOUS
<1>2. PICK N : N = Len(own)
  OBVIOUS
<1>3. /\ k \in Nat /\ L \in Nat /\ N \in Nat /\ k <= L /\ Len(v) = k + N /\ n \in 1 .. N
      /\ DOMAIN g = 1 .. (L + N) /\ DOMAIN v = 1 .. (k + N) /\ g \in Seq(Change)
      /\ \A i \in 1 .. L : g[i] = l[i]
      /\ \A i \in 1 .. k : v[i] = l[i]
      /\ \A m \in 1 .. N : g[L + m] = own[m] /\ v[k + m] = own[m]
  BY <1>1, <1>2 DEF Extends, Joined
<1>4. PICK up : up = Moved(k, L, N)
  OBVIOUS
<1>5. /\ \A j \in 1 .. (k + N) : up[j] \in DOMAIN g /\ g[up[j]] = v[j]
      /\ \A a, b \in 1 .. (k + N) : a <= b => up[a] <= up[b]
      /\ \A a, b \in 1 .. (k + N) : a < b => up[a] < up[b]
      /\ \A m \in 1 .. N : k + m \in 1 .. (k + N) /\ up[k + m] = L + m
  BY <1>1, <1>2, <1>4, MovedPlaces
<1>6. PICK i : i = k + n
  OBVIOUS
<1>7. PICK h : h = L + n
  OBVIOUS
<1>8. i \in 1 .. (k + N) /\ i \in DOMAIN v /\ h \in DOMAIN g /\ up[i] = h /\ g[h] = v[i] /\ g[h] = own[n]
  BY <1>3, <1>5, <1>6, <1>7
<1>9. ~own[n].blind /\ Recalls(g, h) /\ Recalls(v, i) /\ Grounded(v, i)
  BY <1>1, <1>2, <1>3, <1>6, <1>7, <1>8 DEF Extends, Informed, Recalls
<1>10. \A j : j \in Earlier(v, i) <=> j \in DOMAIN v /\ v[j].coll = v[i].coll /\ v[j].id = v[i].id /\ j < i
  BY <1>8, EarlierPlaces
<1>11. \A j : j \in Earlier(g, h) <=> j \in DOMAIN g /\ g[j].coll = g[h].coll /\ g[j].id = g[h].id /\ j < h
  BY <1>3, <1>8, EarlierPlaces
<1>12. \A j \in Earlier(v, i) : up[j] \in Earlier(g, h) /\ g[up[j]] = v[j]
  <2> SUFFICES ASSUME NEW j \in Earlier(v, i) PROVE up[j] \in Earlier(g, h) /\ g[up[j]] = v[j]
    OBVIOUS
  <2>1. j \in 1 .. (k + N) /\ v[j].coll = v[i].coll /\ v[j].id = v[i].id /\ j < i
    BY <1>3, <1>10
  <2>2. up[j] \in DOMAIN g /\ g[up[j]] = v[j] /\ up[j] < h
    BY <1>5, <1>8, <2>1
  <2> QED
    BY <1>8, <1>11, <2>1, <2>2
<1>13. ASSUME NEW q \in Earlier(g, h) PROVE \E j \in Earlier(v, i) : q = up[j]
  <2>1. Name(g[q]) \in {Name(v[j]) : j \in Earlier(v, i)}
    BY <1>8, <1>9 DEF Recalls
  <2>2. PICK j \in Earlier(v, i) : Name(v[j]) = Name(g[q])
    BY <2>1
  <2>3. up[j] \in DOMAIN g /\ Name(g[up[j]]) = Name(g[q])
    BY <1>11, <1>12, <2>2
  <2>4. q \in DOMAIN g
    BY <1>11
  <2>5. up[j] = q
    BY <2>3, <2>4 DEF Unique
  <2> QED
    BY <2>5
<1>14. \A a, b \in Earlier(v, i) : a <= b => up[a] <= up[b]
  BY <1>3, <1>5, <1>10
<1>15. Grounded(g, h)
  <2>1. Carries(up, v, i, g, h)
    BY <1>8, <1>12, <1>13, <1>14 DEF Carries
  <2> QED
    BY <1>3, <1>9, <2>1, SamePast
<1> QED
  BY <1>1, <1>7, <1>15

\* What the log leaves of a document that the transaction has changed.
LEMMA JoinedLatest ==
  ASSUME NEW v \in Seq(Change), NEW l, NEW own, NEW g, NEW k, NEW T, Extends(v, l, k, own, T), Joined(g, l, own),
         NEW c, NEW id, NEW d, Latest(v, c, id, d), NEW n \in 1 .. Len(own), own[n].coll = c, own[n].id = id
  PROVE  Latest(g, c, id, d)
<1>1. PICK L : L = Len(l)
  OBVIOUS
<1>2. PICK N : N = Len(own)
  OBVIOUS
<1>3. /\ k \in Nat /\ L \in Nat /\ N \in Nat /\ k <= L /\ Len(v) = k + N /\ n \in 1 .. N
      /\ DOMAIN g = 1 .. (L + N) /\ DOMAIN v = 1 .. (k + N)
      /\ \A m \in 1 .. N : g[L + m] = own[m] /\ v[k + m] = own[m]
  BY <1>1, <1>2 DEF Extends, Joined
<1>4. PICK up : up = Moved(k, L, N)
  OBVIOUS
<1>5. /\ \A j \in 1 .. (k + N) : up[j] \in DOMAIN g /\ g[up[j]] = v[j]
      /\ \A a, b \in 1 .. (k + N) : a <= b => up[a] <= up[b]
      /\ \A m \in 1 .. N : k + m \in 1 .. (k + N) /\ up[k + m] = L + m
  BY <1>1, <1>2, <1>4, MovedPlaces
<1>6. k + n \in Places(v, c, id)
  BY <1>3, <1>5 DEF Places
<1>7. PICK q \in Places(v, c, id) : d = v[q].new /\ \A j \in Places(v, c, id) : j <= q
  BY <1>6 DEF Latest
<1>8. q \in 1 .. (k + N) /\ k + n <= q /\ v[q].coll = c /\ v[q].id = id
  BY <1>3, <1>6, <1>7 DEF Places
<1>9. q - k \in 1 .. N /\ k + (q - k) = q
  BY <1>3, <1>8
<1>10. up[q] = L + (q - k)
  BY <1>5, <1>9
<1>11. up[q] \in Places(g, c, id) /\ g[up[q]].new = d
  BY <1>5, <1>7, <1>8 DEF Places
<1>12. ASSUME NEW j \in Places(g, c, id) PROVE j <= up[q]
  <2>1. j \in 1 .. (L + N) /\ g[j].coll = c /\ g[j].id = id
    BY <1>3 DEF Places
  <2>2. CASE j <= L
    BY <1>3, <1>9, <1>10, <2>1, <2>2
  <2>3. CASE ~(j <= L)
    <3>1. PICK m : m = j - L
      OBVIOUS
    <3>2. m \in 1 .. N /\ L + m = j
      BY <1>3, <2>1, <2>3, <3>1
    <3>3. v[k + m] = g[j] /\ k + m \in DOMAIN v
      BY <1>3, <1>5, <3>2
    <3>4. k + m \in Places(v, c, id)
      BY <2>1, <3>3 DEF Places
    <3>5. k + m <= q
      BY <1>7, <3>4
    <3> QED
      BY <1>3, <1>8, <1>10, <3>2, <3>5
  <2> QED
    BY <2>2, <2>3
<1> QED
  BY <1>11, <1>12 DEF Latest

\* And of one that it has not.
LEMMA JoinedSame ==
  ASSUME NEW l, NEW own, NEW g, Joined(g, l, own), NEW c, NEW id, NEW d, Latest(l, c, id, d),
         \A n \in 1 .. Len(own) : ~(own[n].coll = c /\ own[n].id = id)
  PROVE  Latest(g, c, id, d)
<1>1. PICK L : L = Len(l)
  OBVIOUS
<1>2. PICK N : N = Len(own)
  OBVIOUS
<1>3. /\ L \in Nat /\ N \in Nat /\ DOMAIN g = 1 .. (L + N) /\ DOMAIN l = 1 .. L
      /\ \A i \in 1 .. L : g[i] = l[i]
      /\ \A m \in 1 .. N : g[L + m] = own[m]
  BY <1>1, <1>2 DEF Joined
<1>4. ASSUME NEW j \in 1 .. (L + N), g[j].coll = c, g[j].id = id PROVE j \in 1 .. L
  <2>1. ASSUME ~(j <= L) PROVE FALSE
    <3>1. j - L \in 1 .. N /\ L + (j - L) = j
      BY <1>3, <2>1
    <3>2. g[j] = own[j - L]
      BY <1>3, <3>1
    <3> QED
      BY <1>2, <1>4, <3>1, <3>2
  <2> QED
    BY <1>3, <2>1
<1>5. \A j : j \in Places(g, c, id) <=> j \in Places(l, c, id)
  <2>1. \A j \in 1 .. L : j \in 1 .. (L + N)
    BY <1>3
  <2> QED
    BY <1>3, <1>4, <2>1 DEF Places
<1>6. Places(g, c, id) = Places(l, c, id)
  BY <1>5
<1>7. \A j \in Places(l, c, id) : g[j] = l[j]
  BY <1>3 DEF Places
<1> QED
  BY <1>6, <1>7 DEF Latest

-----------------------------------------------------------------------------
(* Every step keeps the log.                                                 *)

\* A step that leaves the committed changes and documents alone.
LEMMA LogKept ==
  ASSUME TInv, TInv', LogInv, log' = log, docs' = docs, now' \in now .. MaxTime,
         \A u \in Tx : Committed(u) => Committed(u)'
  PROVE  LogInv'
<1>1. ASSUME NEW i \in DOMAIN log PROVE Committed(log[i].tx)' /\ log[i].time <= now'
  <2>1. log[i] \in Change
    BY DEF TInv
  <2>2. log[i].tx \in Tx /\ log[i].time \in Nat
    BY <2>1 DEF Change
  <2>3. Committed(log[i].tx) /\ log[i].time <= now
    BY DEF LogInv
  <2>4. now \in Nat
    BY DEF TInv
  <2>5. PICK e : e = log[i].time
    OBVIOUS
  <2>6. e <= now'
    BY <2>2, <2>3, <2>4, <2>5
  <2>7. PICK u : u = log[i].tx
    OBVIOUS
  <2>8. Committed(u)'
    BY <2>2, <2>3, <2>7
  <2> QED
    BY <2>5, <2>6, <2>7, <2>8 DEF Committed
<1>2. \A i \in DOMAIN log' : Committed(log[i].tx)' /\ (log[i].time <= now)'
  BY <1>1
<1> QED
  BY <1>2 DEF LogInv

\* A view stays what it is when the log grows and time passes.
LEMMA ViewLater ==
  ASSUME NEW x \in TxState, NEW l \in Seq(Change), NEW T \in Nat, NEW U \in Nat, T <= U, ViewInv(x, l, T),
         NEW m, Len(m) \in Nat, Len(l) <= Len(m), \A i \in 1 .. Len(l) : m[i] = l[i],
         NEW y, y.status = x.status, y.docs = x.docs, y.log = x.log, y.own = x.own
  PROVE  ViewInv(y, m, U)
<1> SUFFICES ASSUME y.status = "open"
             PROVE  /\ \E k : Extends(y.log, m, k, y.own, U)
                    /\ \A c \in Coll, id \in Id : Latest(y.log, c, id, y.docs[c][id])
  BY DEF ViewInv
<1>1. PICK k : Extends(x.log, l, k, x.own, T)
  BY DEF ViewInv
<1>2. x.own \in Seq(Change)
  BY DEF TxState
<1>3. Extends(x.log, m, k, x.own, U)
  BY <1>1, <1>2, ExtendsLater
<1> QED
  BY <1>3 DEF ViewInv

\* A step of one transaction that has not committed.
LEMMA LocalChange ==
  ASSUME TInv, TInv', ChangeInv, NEW t \in Tx, NEW y, Becomes(t, y), now' \in now .. MaxTime,
         Committed(t) => y.status \in {"publishing", "committed"},
         ViewInv(y, log, now')
  PROVE  ChangeInv'
<1>1. tx' = [u \in Tx |-> IF u = t THEN y ELSE tx[u]] /\ docs' = docs /\ log' = log
  BY DEF Becomes, TInv
<1>2. \A u \in Tx : Committed(u) => Committed(u)'
  BY <1>1 DEF Committed
<1>3. LogInv'
  BY <1>1, <1>2, LogKept DEF ChangeInv
<1>4. ASSUME NEW u \in Tx PROVE ViewInv(tx'[u], log', now')
  <2>1. CASE u = t
    BY <1>1, <2>1
  <2>2. CASE u # t
    <3>1. PICK x : x = tx[u]
      OBVIOUS
    <3>2. x \in TxState /\ ViewInv(x, log, now)
      BY <3>1 DEF TInv, OfTx, ChangeInv
    <3>3. log \in Seq(Change) /\ now \in Nat /\ now' \in Nat /\ now <= now' /\ Len(log) \in Nat
      BY DEF TInv
    <3>4. ViewInv(x, log, now')
      BY <3>2, <3>3, ViewLater
    <3> QED
      BY <1>1, <2>2, <3>1, <3>4
  <2> QED
    BY <2>1, <2>2
<1> QED
  BY <1>3, <1>4 DEF ChangeInv

\* A command that writes: its change continues what is in view.
LEMMA WriteChange ==
  ASSUME TInv, TInv', ChangeInv, NEW t \in Tx, NEW c \in Coll, NEW id \in Id, NEW action, NEW cmd, NEW stored,
         Writes(t, c, id, action, cmd, stored)
  PROVE  ChangeInv'
<1>1. PICK r \in Change, reads \in SUBSET (Coll \X Id) :
           /\ r = Recorded(t, c, id, action, cmd, stored, now')
           /\ Becomes(t, With(tx[t], c, id, stored, r, reads))
           /\ now' \in now .. MaxTime
  BY WriteStep
<1>2. PICK x : x = tx[t]
  OBVIOUS
<1>3. x.status = "open" /\ stored \in Doc \cup {NoDoc} /\ cmd \in Doc
  BY <1>2 DEF Writes, Working
<1>4. OfTx(t, x) /\ ViewInv(x, log, now)
  BY <1>2 DEF TInv, ChangeInv
<1>5. x \in TxState /\ x.docs \in Docs /\ x.log \in Seq(Change) /\ x.own \in Seq(Change)
  BY <1>3, <1>4 DEF OfTx, TxState
<1>6. PICK y : y = With(x, c, id, stored, r, reads)
  OBVIOUS
<1>7. /\ y.status = x.status /\ y.log = Append(x.log, r) /\ y.own = Append(x.own, r)
      /\ \A e \in Coll, i \in Id : y.docs[e][i] = IF e = c /\ i = id THEN stored ELSE x.docs[e][i]
  <2>1. Wrote(y, x, c, id, stored, r, reads)
    BY <1>3, <1>5, <1>6, WithParts
  <2> QED
    BY <2>1 DEF Wrote
<1>8. PICK b : b = Before(x, c, id)
  OBVIOUS
<1>9. b \in Doc \cup {NoDoc} /\ Outcome(b, action, cmd, stored)
  BY <1>2, <1>3, <1>8, BeforeType DEF Writes
<1>10. /\ r.coll = c /\ r.id = id /\ r.time = now' /\ r.new = stored /\ r.action = action
       /\ r.diff = Diff(cmd, FieldsOf(b))
       /\ r.blind = (b # x.docs[c][id]) /\ r.saw = Known(x, c, id)
  BY <1>1, <1>2, <1>8 DEF Recorded
<1>11. Faithful(r, b)
  BY <1>3, <1>9, <1>10, WriteFaithful
<1>12. PICK d : d = x.docs[c][id]
  OBVIOUS
<1>13. ~r.blind => Faithful(r, d)
  BY <1>10, <1>11, <1>12
<1>14. (\E k : Extends(x.log, log, k, x.own, now)) /\ \A e \in Coll, i \in Id : Latest(x.log, e, i, x.docs[e][i])
  BY <1>3, <1>4 DEF ViewInv
<1>15. PICK k : Extends(x.log, log, k, x.own, now)
  BY <1>14
<1>16. Latest(x.log, r.coll, r.id, d)
  BY <1>10, <1>12, <1>14
<1>17. r.saw = {Name(x.log[i]) : i \in Places(x.log, r.coll, r.id)}
  BY <1>10 DEF Known
<1>18. now \in Nat /\ now' \in Nat /\ now <= now' /\ log \in Seq(Change)
  BY <1>1 DEF TInv
<1>19. \A i \in DOMAIN log : log[i].time <= now
  BY DEF ChangeInv, LogInv
<1>20. Extends(y.log, log, k, y.own, now')
  <2>1. PICK U : U = now'
    OBVIOUS
  <2>2. PICK T : T = now
    OBVIOUS
  <2>3. PICK l : l = log
    OBVIOUS
  <2>4. PICK v : v = x.log
    OBVIOUS
  <2>5. PICK own : own = x.own
    OBVIOUS
  <2>6. /\ v \in Seq(Change) /\ l \in Seq(Change) /\ own \in Seq(Change)
        /\ T \in Nat /\ U \in Nat /\ T <= U
    BY <1>5, <1>18, <2>1, <2>2, <2>3, <2>4, <2>5
  <2>7. Extends(v, l, k, own, T) /\ \A i \in DOMAIN l : l[i].time <= T
    BY <1>15, <1>19, <2>2, <2>3, <2>4, <2>5
  <2>8. r.time = U /\ Latest(v, r.coll, r.id, d)
        /\ r.saw = {Name(v[i]) : i \in Places(v, r.coll, r.id)}
    BY <1>10, <1>16, <1>17, <2>1, <2>4
  <2>9. Extends(Append(v, r), l, k, Append(own, r), U)
    BY <1>13, <2>6, <2>7, <2>8, ExtendsMore
  <2> QED
    BY <1>7, <2>1, <2>3, <2>4, <2>5, <2>9
<1>21. ASSUME NEW e \in Coll, NEW i \in Id PROVE Latest(y.log, e, i, y.docs[e][i])
  <2>1. PICK w : w = y.docs[e][i]
    OBVIOUS
  <2>2. IF r.coll = e /\ r.id = i THEN w = r.new ELSE Latest(x.log, e, i, w)
    BY <1>7, <1>10, <1>14, <2>1
  <2>3. Latest(y.log, e, i, w)
    BY <1>5, <1>7, <2>2, AppendLatest
  <2> QED
    BY <2>1, <2>3
<1>22. ViewInv(y, log, now')
  BY <1>20, <1>21 DEF ViewInv
<1>23. ~Committed(t)
  BY <1>2, <1>3 DEF Committed
<1> QED
  BY <1>1, <1>2, <1>6, <1>22, <1>23, LocalChange

\* A commit: changes that are still informed continue the log.
LEMMA CommitChange ==
  ASSUME TInv, TInv', ChangeInv, NEW t \in Tx, Commit(t)
  PROVE  ChangeInv'
<1>1. PICK x : x = tx[t]
  OBVIOUS
<1>2. x.status = "open"
  BY <1>1 DEF Commit
<1>3. OfTx(t, x) /\ ViewInv(x, log, now)
  BY <1>1 DEF TInv, ChangeInv
<1>4. PICK own : own = x.own
  OBVIOUS
<1>5. PICK v : v = x.log
  OBVIOUS
<1>6. own \in Seq(Change) /\ v \in Seq(Change)
      /\ \A n \in DOMAIN own : own[n].n = n /\ own[n].tx = t
  BY <1>3, <1>4, <1>5 DEF OfTx, TxState
<1>7. PICK k : Extends(v, log, k, own, now)
  BY <1>2, <1>3, <1>4, <1>5 DEF ViewInv
<1>8. PICK g : g = log'
  OBVIOUS
<1>9. log \in Seq(Change) /\ g = log \o own
  BY <1>1, <1>4, <1>8 DEF TInv, Commit
<1>10. Joined(g, log, own)
  BY <1>6, <1>9, JoinIsJoined
<1>11. PICK L : L = Len(log)
  OBVIOUS
<1>12. PICK N : N = Len(own)
  OBVIOUS
<1>13. /\ g \in Seq(Change) /\ L \in Nat /\ N \in Nat /\ Len(g) = L + N
       /\ DOMAIN log = 1 .. L /\ DOMAIN own = 1 .. N /\ DOMAIN g = 1 .. (L + N)
       /\ \A i \in 1 .. L : g[i] = log[i]
       /\ \A n \in 1 .. N : g[L + n] = own[n]
  BY <1>10, <1>11, <1>12 DEF Joined
<1>14. \A i \in 1 .. (L + N) : i \in 1 .. L \/ \E n \in 1 .. N : i = L + n
  <2> SUFFICES ASSUME NEW i \in 1 .. (L + N), ~(i \in 1 .. L) PROVE \E n \in 1 .. N : i = L + n
    OBVIOUS
  <2>1. i - L \in 1 .. N /\ i = L + (i - L)
    BY <1>13
  <2> QED
    BY <2>1
<1>15. /\ tx'[t].status = "publishing"
       /\ \A u \in Tx : u # t => /\ tx'[u].status = tx[u].status /\ tx'[u].own = tx[u].own
                                 /\ tx'[u].docs = tx[u].docs /\ tx'[u].log = tx[u].log
  BY CommitState, CommitOthers
<1>16. \A u \in Tx : Committed(u) => u # t /\ Committed(u)'
  BY <1>1, <1>2, <1>15 DEF Committed
<1>17. Sound(log, docs) /\ \A i \in DOMAIN log : Committed(log[i].tx) /\ log[i].time <= now
  BY DEF ChangeInv, LogInv
<1>18. \A i \in DOMAIN log : log[i].tx \in Tx
  <2> SUFFICES ASSUME NEW i \in DOMAIN log PROVE log[i].tx \in Tx
    OBVIOUS
  <2>1. log[i] \in Change
    BY <1>9
  <2> QED
    BY <2>1 DEF Change
<1>19. ASSUME NEW i \in 1 .. (L + N) PROVE Committed(g[i].tx)' /\ g[i].time <= now
  <2>1. CASE i \in 1 .. L
    <3>1. PICK u : u = log[i].tx
      OBVIOUS
    <3>2. u \in Tx /\ Committed(u)
      BY <1>13, <1>17, <1>18, <2>1, <3>1
    <3>3. Committed(u)'
      BY <1>16, <3>2
    <3>4. g[i].tx = u /\ g[i].time <= now
      BY <1>13, <1>17, <2>1, <3>1
    <3> QED
      BY <3>3, <3>4
  <2>2. CASE \E n \in 1 .. N : i = L + n
    <3>1. PICK n \in 1 .. N : i = L + n
      BY <2>2
    <3>2. g[i].tx = t
      BY <1>6, <1>13, <3>1
    <3>3. g[i].time <= now
      BY <1>7, <1>12, <1>13, <3>1 DEF Extends
    <3>4. Committed(t)'
      BY <1>15 DEF Committed
    <3> QED
      BY <3>2, <3>3, <3>4
  <2> QED
    BY <1>14, <2>1, <2>2
<1>20. Unique(g)
  <2> SUFFICES ASSUME NEW i \in 1 .. (L + N), NEW j \in 1 .. (L + N), Name(g[i]) = Name(g[j]) PROVE i = j
    BY <1>13 DEF Unique
  <2>1. g[i].tx = g[j].tx /\ g[i].n = g[j].n
    BY DEF Name
  <2>2. \A q \in 1 .. L : g[q].tx # t
    BY <1>13, <1>16, <1>17, <1>18
  <2>3. \A n \in 1 .. N : g[L + n].tx = t /\ g[L + n].n = n
    BY <1>6, <1>13
  <2>4. CASE i \in 1 .. L /\ j \in 1 .. L
    <3>1. g[i] = log[i] /\ g[j] = log[j] /\ i \in DOMAIN log /\ j \in DOMAIN log
      BY <1>13, <2>4
    <3>2. Name(log[i]) = Name(log[j])
      BY <3>1
    <3> QED
      BY <1>17, <3>1, <3>2 DEF Sound, Unique
  <2>5. CASE (i \in 1 .. L /\ \E n \in 1 .. N : j = L + n) \/ (j \in 1 .. L /\ \E n \in 1 .. N : i = L + n)
    BY <2>1, <2>2, <2>3, <2>5
  <2>6. CASE (\E n \in 1 .. N : i = L + n) /\ \E n \in 1 .. N : j = L + n
    BY <2>1, <2>3, <2>6
  <2> QED
    BY <1>14, <2>4, <2>5, <2>6
<1>21. ASSUME NEW i \in 1 .. (L + N), Informed(g, i) PROVE Grounded(g, i)
  <2>1. CASE i \in 1 .. L
    <3>1. i \in DOMAIN log /\ i \in DOMAIN g /\ \A j \in 1 .. i : g[j] = log[j]
      BY <1>13, <2>1
    <3>2. /\ Earlier(g, i) = Earlier(log, i)
          /\ Grounded(log, i) => Grounded(g, i)
          /\ Recalls(g, i) <=> Recalls(log, i)
      BY <1>9, <1>13, <3>1, SameStart
    <3>3. g[i] = log[i]
      BY <1>13, <2>1
    <3>4. Informed(log, i)
      BY <1>21, <3>2, <3>3 DEF Informed, Recalls
    <3> QED
      BY <1>17, <3>1, <3>2, <3>4 DEF Sound
  <2>2. CASE \E n \in 1 .. N : i = L + n
    <3>1. PICK n \in 1 .. N : i = L + n
      BY <2>2
    <3> QED
      BY <1>6, <1>7, <1>10, <1>11, <1>12, <1>20, <1>21, <3>1, JoinedGrounded
  <2> QED
    BY <1>14, <2>1, <2>2
<1>22. ASSUME NEW c \in Coll, NEW id \in Id PROVE Latest(g, c, id, docs'[c][id])
  <2>1. PICK d : d = docs'[c][id]
    OBVIOUS
  <2>2. d = IF <<c, id>> \in {<<r.coll, r.id>> : r \in ToSet(own)} THEN x.docs[c][id] ELSE docs[c][id]
    BY <1>1, <1>4, <2>1 DEF Commit
  <2>3. <<c, id>> \in {<<r.coll, r.id>> : r \in ToSet(own)}
          <=> \E n \in 1 .. N : own[n].coll = c /\ own[n].id = id
    BY <1>13 DEF ToSet
  <2>4. CASE \E n \in 1 .. N : own[n].coll = c /\ own[n].id = id
    <3>1. Latest(v, c, id, d)
      BY <1>2, <1>3, <1>5, <2>2, <2>3, <2>4 DEF ViewInv
    <3>2. PICK n \in 1 .. Len(own) : own[n].coll = c /\ own[n].id = id
      BY <1>12, <2>4
    <3>3. Latest(g, c, id, d)
      BY <1>6, <1>7, <1>10, <3>1, <3>2, JoinedLatest
    <3> QED
      BY <2>1, <3>3
  <2>5. CASE ~\E n \in 1 .. N : own[n].coll = c /\ own[n].id = id
    <3>1. Latest(log, c, id, d)
      BY <1>17, <2>2, <2>3, <2>5 DEF Sound
    <3>2. Latest(g, c, id, d)
      BY <1>10, <1>12, <2>5, <3>1, JoinedSame
    <3> QED
      BY <2>1, <3>2
  <2> QED
    BY <2>4, <2>5
<1>23. now' = now /\ now \in Nat
  <2>1. now \in 0 .. MaxTime
    BY DEF TInv
  <2>2. now' = now
    BY DEF Commit
  <2> QED
    BY <2>1, <2>2
<1>24. LogInv'
  <2>1. \A i \in DOMAIN g : Committed(g[i].tx)' /\ g[i].time <= now'
    BY <1>13, <1>19, <1>23
  <2>2. Sound(g, docs')
    BY <1>13, <1>20, <1>21, <1>22 DEF Sound
  <2> QED
    BY <1>8, <2>1, <2>2 DEF LogInv
<1>25. ASSUME NEW u \in Tx PROVE ViewInv(tx'[u], g, now')
  <2>1. PICK y : y = tx'[u]
    OBVIOUS
  <2>2. CASE u = t
    <3>1. y.status = "publishing"
      BY <1>15, <2>1, <2>2
    <3> QED
      BY <2>1, <3>1 DEF ViewInv
  <2>3. CASE u # t
    <3>1. PICK z : z = tx[u]
      OBVIOUS
    <3>2. z \in TxState /\ ViewInv(z, log, now)
      BY <3>1 DEF TInv, OfTx, ChangeInv
    <3>3. y.status = z.status /\ y.docs = z.docs /\ y.log = z.log /\ y.own = z.own
      BY <1>15, <2>1, <2>3, <3>1
    <3>4. Len(g) \in Nat /\ Len(log) <= Len(g) /\ \A i \in 1 .. Len(log) : g[i] = log[i]
      BY <1>11, <1>13
    <3>5. ViewInv(y, g, now)
      <4>1. now <= now
        BY <1>23
      <4> QED
        BY <1>9, <1>23, <3>2, <3>3, <3>4, <4>1, ViewLater
    <3> QED
      BY <1>23, <2>1, <3>5
  <2> QED
    BY <2>2, <2>3
<1> QED
  BY <1>8, <1>24, <1>25 DEF ChangeInv

\* Every step.
LEMMA NextChange == TInv /\ TInv' /\ ChangeInv /\ [Next]_vars => ChangeInv'
<1> SUFFICES ASSUME TInv, TInv', ChangeInv, [Next]_vars PROVE ChangeInv'
  OBVIOUS
<1>1. ASSUME UNCHANGED <<docs, log, now, tx>> PROVE ChangeInv'
  BY <1>1 DEF ChangeInv, LogInv, Committed
<1>2. now \in Nat /\ now \in now .. MaxTime
  BY BoundAssumption DEF TInv
<1>3. ASSUME NEW t \in Tx, NEW a \in Actor, Begin(t, a) PROVE ChangeInv'
  <2>1. PICK y : y = [Fresh EXCEPT !.status = "open", !.actor = a, !.docs = docs, !.log = log]
    OBVIOUS
  <2>2. y.docs = docs /\ y.log = log /\ y.own = << >>
    BY <2>1, FreshType DEF TxState
  <2>3. log \in Seq(Change)
    BY DEF TInv
  <2>4. Extends(log, log, Len(log), << >>, now)
    BY <2>3 DEF Extends
  <2>5. ViewInv(y, log, now)
    BY <2>2, <2>4 DEF ViewInv, ChangeInv, LogInv, Sound
  <2>6. ~Committed(t) /\ Becomes(t, y) /\ now' = now
    BY <1>3, <2>1 DEF Begin, Step, Committed
  <2> QED
    BY <1>2, <2>5, <2>6, LocalChange
<1>4. ASSUME NEW t \in Tx, Rollback(t) PROVE ChangeInv'
  <2>1. PICK y : y = [Fresh EXCEPT !.status = "rolledback"]
    OBVIOUS
  <2>2. y.status = "rolledback"
    BY <2>1, FreshType DEF TxState
  <2>3. ViewInv(y, log, now)
    BY <2>2 DEF ViewInv
  <2>4. ~Committed(t) /\ Becomes(t, y) /\ now' = now
    BY <1>4, <2>1 DEF Rollback, Step, Committed
  <2> QED
    BY <1>2, <2>3, <2>4, LocalChange
<1>5. ASSUME NEW t \in Tx, NEW c \in Coll, NEW id \in Id, Reads(t, c, id) PROVE ChangeInv'
  <2>1. PICK x : x = tx[t]
    OBVIOUS
  <2>2. x \in TxState /\ x.status = "open" /\ ViewInv(x, log, now)
    BY <1>5, <2>1 DEF TInv, OfTx, Reads, Working, ChangeInv
  <2>3. PICK y : y = [x EXCEPT !.reads = @ \cup {<<c, id>>}]
    OBVIOUS
  <2>4. y.status = x.status /\ y.docs = x.docs /\ y.log = x.log /\ y.own = x.own
    BY <2>2, <2>3 DEF TxState
  <2>5. ViewInv(y, log, now)
    BY <2>2, <2>4 DEF ViewInv
  <2>6. ~Committed(t) /\ Becomes(t, y) /\ now' = now
    BY <1>5, <2>1, <2>2, <2>3 DEF Reads, Step, Committed
  <2> QED
    BY <1>2, <2>5, <2>6, LocalChange
<1>6. ASSUME NEW t \in Tx, Work(t) PROVE ChangeInv'
  <2>1. CASE \E a \in Actor : Begin(t, a)
    BY <1>3, <2>1
  <2>2. CASE Rollback(t)
    BY <1>4, <2>2
  <2>3. CASE Commit(t)
    BY <2>3, CommitChange
  <2>4. CASE \E c \in Coll, id \in Id : \E action, cmd, stored : Writes(t, c, id, action, cmd, stored)
    BY <2>4, WriteChange
  <2>5. CASE \E c \in Coll, id \in Id : Reads(t, c, id)
    BY <1>5, <2>5
  <2> QED
    BY <1>6, <2>1, <2>2, <2>3, <2>4, <2>5, WorkCases
<1>7. ASSUME NEW t \in Tx, Publish(t) \/ CommitReturns(t) PROVE ChangeInv'
  <2>1. PICK x : x = tx[t]
    OBVIOUS
  <2>2. x \in TxState /\ Committed(t) /\ x.status \in {"publishing", "committed"}
    BY <1>7, <2>1 DEF TInv, OfTx, Publish, CommitReturns, Committed
  <2>3. PICK y : /\ y = [x EXCEPT !.sent = @ + 1] \/ y = [x EXCEPT !.status = "committed"]
                 /\ tx' = [tx EXCEPT ![t] = y]
    BY <1>7, <2>1 DEF Publish, CommitReturns, Step, Becomes
  <2>4. y.status \in {"publishing", "committed"}
    BY <2>2, <2>3 DEF TxState
  <2>5. docs' = docs /\ log' = log /\ now' = now
    BY <1>7 DEF Publish, CommitReturns, Step, Becomes
  <2>6. tx' = [u \in Tx |-> IF u = t THEN y ELSE tx[u]]
    BY <2>3 DEF TInv
  <2>7. \A u \in Tx : Committed(u) => Committed(u)'
    BY <2>4, <2>6 DEF Committed
  <2>8. LogInv'
    BY <1>2, <2>5, <2>7, LogKept DEF ChangeInv
  <2>9. \A u \in Tx : ViewInv(tx'[u], log, now)
    BY <2>4, <2>6 DEF ChangeInv, ViewInv
  <2> QED
    BY <2>5, <2>8, <2>9 DEF ChangeInv
<1>8. ASSUME NEW s \in Sub, Subscribe(s) \/ Deliver(s) \/ Unsubscribe(s) PROVE ChangeInv'
  BY <1>1, <1>8 DEF Subscribe, Deliver, Unsubscribe
<1> QED
  BY <1>1, <1>6, <1>7, <1>8 DEF Next, vars

\* No changes and no documents.
LEMMA InitChange == Init => ChangeInv
<1> SUFFICES ASSUME Init PROVE ChangeInv
  OBVIOUS
<1>1. log = << >> /\ docs = [c \in Coll |-> [id \in Id |-> NoDoc]]
  BY DEF Init
<1>2. LogInv
  BY <1>1 DEF LogInv, Sound, Unique, Latest, Places
<1>3. \A t \in Tx : ViewInv(tx[t], log, now)
  <2>1. \A t \in Tx : tx[t].status = "new"
    BY FreshType DEF Init
  <2> QED
    BY <2>1 DEF ViewInv
<1> QED
  BY <1>2, <1>3 DEF ChangeInv

\* Both invariants.
LEMMA ChangesHold == Spec => [](TInv /\ ChangeInv)
BY InitTypes, NextTypes, InitChange, NextChange, PTL DEF Spec

\* ReplayRebuilds: the difference that a create, a set or a delete has recorded takes
\* the document from what it was to what it became (document.go:512, 563).
THEOREM DifferencesReplay == Spec => []ReplayRebuilds
<1>1. TInv /\ ChangeInv => ReplayRebuilds
  BY DEF ChangeInv, LogInv, Sound, Grounded, Faithful, ReplayRebuilds
<1> QED
  BY <1>1, ChangesHold, PTL

\* FixedFieldsStay: set, update and revert leave fixed fields as they were, whoever
\* changed the document before (tx_util.go:42, 143).
THEOREM FixedFieldsAreKept == Spec => []FixedFieldsStay
<1>1. TInv /\ ChangeInv => FixedFieldsStay
  BY DEF ChangeInv, LogInv, Sound, Grounded, Faithful, FixedFieldsStay
<1> QED
  BY <1>1, ChangesHold, PTL

-----------------------------------------------------------------------------
(* Time travel.                                                              *)

\* e is the first of w[n], w[n-1], ..., w[0] that is there, for field f.
FirstThere(e, w, n, f) ==
  \/ e = Absent /\ \A q \in 0 .. n : w[q][f] = Absent
  \/ \E q \in 0 .. n : /\ w[q][f] = e /\ e # Absent
                       /\ \A r \in 0 .. n : r > q => w[r][f] = Absent

\* u[n] is u[n-1] with a difference undone, which took a document from w[n] to
\* w[n-1].
Unwinds(u, w, m, diff) ==
  /\ u[0] = w[0]
  /\ \A n \in Nat : n < m =>
       /\ u[n + 1] = RevertOps(u[n], diff[n + 1])
       /\ \A f \in Field : f \notin DOMAIN diff[n + 1] => w[n][f] = w[n + 1][f]
       /\ \A f \in Field : f \in DOMAIN diff[n + 1] => diff[n + 1][f].before = w[n + 1][f]

\* One difference undone.
LEMMA UnwindsStep ==
  ASSUME NEW u, NEW w, NEW m \in Nat, NEW diff, Unwinds(u, w, m, diff),
         NEW n \in Nat, n < m, NEW f \in Field, FirstThere(u[n][f], w, n, f)
  PROVE  FirstThere(u[n + 1][f], w, n + 1, f)
<1>1. /\ u[n + 1] = RevertOps(u[n], diff[n + 1])
      /\ f \notin DOMAIN diff[n + 1] => w[n][f] = w[n + 1][f]
      /\ f \in DOMAIN diff[n + 1] => diff[n + 1][f].before = w[n + 1][f]
  BY DEF Unwinds
<1>2. u[n + 1][f] = IF f \in DOMAIN diff[n + 1] /\ w[n + 1][f] # Absent THEN w[n + 1][f] ELSE u[n][f]
  BY <1>1 DEF RevertOps
<1>3. \A q : q \in 0 .. (n + 1) <=> q \in 0 .. n \/ q = n + 1
  OBVIOUS
<1>4. CASE w[n + 1][f] = Absent
  <2>1. u[n + 1][f] = u[n][f]
    BY <1>2, <1>4
  <2> QED
    BY <1>3, <1>4, <2>1 DEF FirstThere
<1>5. CASE w[n + 1][f] # Absent
  <2>1. u[n + 1][f] = w[n + 1][f]
    <3>1. CASE f \in DOMAIN diff[n + 1]
      BY <1>2, <1>5, <3>1
    <3>2. CASE f \notin DOMAIN diff[n + 1]
      <4>1. u[n + 1][f] = u[n][f] /\ w[n][f] = w[n + 1][f]
        BY <1>1, <1>2, <3>2
      <4>2. n \in 0 .. n /\ \A r \in 0 .. n : ~(r > n)
        OBVIOUS
      <4>3. u[n][f] = w[n][f]
        <5>1. CASE u[n][f] = Absent /\ \A q \in 0 .. n : w[q][f] = Absent
          BY <1>5, <4>1, <4>2, <5>1
        <5>2. CASE \E q \in 0 .. n : /\ w[q][f] = u[n][f] /\ u[n][f] # Absent
                                     /\ \A r \in 0 .. n : r > q => w[r][f] = Absent
          <6>1. PICK q \in 0 .. n : /\ w[q][f] = u[n][f]
                                    /\ \A r \in 0 .. n : r > q => w[r][f] = Absent
            BY <5>2
          <6>2. ~(n > q)
            BY <1>5, <4>1, <4>2, <6>1
          <6>3. q = n
            BY <6>2
          <6> QED
            BY <6>1, <6>3
        <5> QED
          BY <5>1, <5>2 DEF FirstThere
      <4> QED
        BY <4>1, <4>3
    <3> QED
      BY <3>1, <3>2
  <2>2. \A r \in 0 .. (n + 1) : ~(r > n + 1)
    OBVIOUS
  <2> QED
    BY <1>3, <1>5, <2>1, <2>2 DEF FirstThere
<1> QED
  BY <1>4, <1>5

\* All of them, by induction.
LEMMA UnwindsAll ==
  ASSUME NEW u, NEW w, NEW m \in Nat, NEW diff, Unwinds(u, w, m, diff), NEW f \in Field
  PROVE  FirstThere(u[m][f], w, m, f)
<1> DEFINE T == {n \in Nat : n <= m => FirstThere(u[n][f], w, n, f)}
<1>1. 0 \in T
  <2>1. u[0][f] = w[0][f]
    BY DEF Unwinds
  <2>2. \A q : q \in 0 .. 0 <=> q = 0
    OBVIOUS
  <2>3. FirstThere(u[0][f], w, 0, f)
    BY <2>1, <2>2 DEF FirstThere
  <2> QED
    BY <2>3
<1>2. \A n \in Nat : n \in T => n + 1 \in T
  <2> SUFFICES ASSUME NEW n \in Nat, n \in T, n + 1 <= m PROVE FirstThere(u[n + 1][f], w, n + 1, f)
    OBVIOUS
  <2>1. n < m /\ n <= m
    OBVIOUS
  <2>2. FirstThere(u[n][f], w, n, f)
    BY <2>1
  <2> QED
    BY <2>1, <2>2, UnwindsStep
<1> HIDE DEF T
<1>3. Nat \subseteq T
  BY <1>1, <1>2, SetInduction
<1>4. m \in T /\ m <= m
  BY <1>3
<1> QED
  BY <1>4 DEF T

\* What TimeTravel is asked about: the changes of a document since some time,
\* all of them well grounded, and no two at one time.
Clear(l, c, id, S) ==
  /\ \A i \in Places(l, c, id) : Grounded(l, i)
  /\ \A i, j \in S : l[i].time = l[j].time => i = j

\* Undone from the last place on to the first.
Descends(o, S) ==
  /\ Len(o) \in Nat /\ o \in [1 .. Len(o) -> S]
  /\ \A i \in S : \E n \in 1 .. Len(o) : o[n] = i
  /\ \A a, b \in 1 .. Len(o) : a < b => o[b] < o[a]

\* The order of times is the order of places, from the last on.
LEMMA TravelDescends ==
  ASSUME NEW l \in Seq(Change), NEW c, NEW id, NEW time \in Nat, NEW S, S = Since(l, c, id, time),
         Clear(l, c, id, S), NEW o \in NewestFirst(l, S)
  PROVE  Descends(o, S)
<1>1. /\ Len(o) \in Nat /\ S \subseteq DOMAIN l /\ o \in [1 .. Len(o) -> S]
      /\ \A a, b \in 1 .. Len(o) : o[a] = o[b] => a = b
      /\ \A i \in S : \E n \in 1 .. Len(o) : o[n] = i
      /\ \A a, b \in 1 .. Len(o) : a < b => l[o[a]].time >= l[o[b]].time
  BY OrderOf
<1>2. ASSUME NEW a \in 1 .. Len(o), NEW b \in 1 .. Len(o), a < b PROVE o[b] < o[a]
  <2>1. PICK i : i = o[a]
    OBVIOUS
  <2>2. PICK j : j = o[b]
    OBVIOUS
  <2>3. i \in S /\ j \in S /\ i \in DOMAIN l /\ j \in DOMAIN l /\ l[i].time >= l[j].time
    BY <1>1, <1>2, <2>1, <2>2
  <2>4. i # j
    BY <1>1, <1>2, <2>1, <2>2
  <2>5. i \in Nat /\ j \in Nat
    BY <2>3
  <2>6. l[i].time \in Nat /\ l[j].time \in Nat
    <3>1. l[i] \in Change /\ l[j] \in Change
      BY <2>3
    <3> QED
      BY <3>1 DEF Change
  <2>7. ASSUME i < j PROVE FALSE
    <3>1. i \in Places(l, c, id) /\ j \in Places(l, c, id)
      BY <2>3 DEF Since
    <3>2. i \in Earlier(l, j)
      BY <2>7, <3>1 DEF Earlier, Places
    <3>3. l[i].time <= l[j].time
      BY <3>1, <3>2 DEF Clear, Grounded
    <3>4. l[i].time = l[j].time
      BY <2>3, <2>6, <3>3
    <3> QED
      BY <2>3, <2>4, <3>4 DEF Clear
  <2> QED
    BY <2>1, <2>2, <2>4, <2>5, <2>7
<1> QED
  BY <1>1, <1>2 DEF Descends

\* Once in S, always in S.
LEMMA SinceOn ==
  ASSUME NEW l \in Seq(Change), NEW c, NEW id, NEW time \in Nat, NEW S, S = Since(l, c, id, time),
         Clear(l, c, id, S), NEW i \in S, NEW j \in Places(l, c, id), i < j
  PROVE  j \in S
<1>1. i \in Places(l, c, id) /\ l[i].time >= time
  BY DEF Since
<1>2. i \in Earlier(l, j)
  BY <1>1 DEF Earlier, Places
<1>3. l[i].time <= l[j].time
  BY <1>2 DEF Clear, Grounded
<1>4. l[i] \in Change /\ l[j] \in Change
  BY <1>1 DEF Places
<1>5. l[i].time \in Nat /\ l[j].time \in Nat
  BY <1>4 DEF Change
<1>6. l[j].time >= time
  BY <1>1, <1>3, <1>5
<1> QED
  BY <1>6 DEF Since

\* What the n-th undone change found is what the next one undone left.
LEMMA TravelFinds ==
  ASSUME NEW l \in Seq(Change), NEW c, NEW id, NEW time \in Nat, NEW S, S = Since(l, c, id, time),
         Clear(l, c, id, S), NEW o, Descends(o, S), NEW n \in 1 .. Len(o), n < Len(o)
  PROVE  FoundBy(l, o[n]) = l[o[n + 1]].new
<1>1. /\ Len(o) \in Nat /\ o \in [1 .. Len(o) -> S]
      /\ \A i \in S : \E q \in 1 .. Len(o) : o[q] = i
      /\ \A a, b \in 1 .. Len(o) : a < b => o[b] < o[a]
  BY DEF Descends
<1>2. n + 1 \in 1 .. Len(o) /\ n < n + 1
  BY <1>1
<1>3. PICK i : i = o[n]
  OBVIOUS
<1>4. PICK k : k = o[n + 1]
  OBVIOUS
<1>5. i \in S /\ k \in S /\ k < i
  BY <1>1, <1>2, <1>3, <1>4
<1>6. \A j \in S : j \in Places(l, c, id)
  BY DEF Since
<1>7. S \subseteq DOMAIN l /\ \A j \in S : l[j].coll = c /\ l[j].id = id /\ j \in Nat
  BY <1>6 DEF Places
<1>8. \A j : j \in Earlier(l, i) <=> j \in Places(l, c, id) /\ j < i
  BY <1>5, <1>7 DEF Earlier
<1>9. k \in Earlier(l, i)
  BY <1>5, <1>6, <1>8
<1>10. ASSUME NEW j \in Earlier(l, i) PROVE j <= k
  <2>1. j \in Places(l, c, id) /\ j < i
    BY <1>8
  <2>2. j \in Nat /\ k \in Nat /\ i \in Nat
    BY <1>5, <1>7, <2>1 DEF Places
  <2>3. ASSUME k < j PROVE FALSE
    <3>1. j \in S
      BY <1>5, <2>1, <2>3, SinceOn
    <3>2. PICK q \in 1 .. Len(o) : o[q] = j
      BY <1>1, <3>1
    <3>3. ~(q < n + 1) \/ q = n \/ q < n
      BY <1>1, <1>2
    <3>4. n < q
      <4>1. ~(q < n)
        <5>1. ASSUME q < n PROVE FALSE
          <6>1. o[n] < o[q]
            BY <1>1, <5>1
          <6> QED
            BY <1>3, <2>1, <2>2, <3>2, <6>1
        <5> QED
          BY <5>1
      <4>2. q # n
        BY <1>3, <2>1, <2>2, <3>2
      <4> QED
        BY <1>1, <4>1, <4>2
    <3>5. q = n + 1 \/ n + 1 < q
      BY <1>1, <3>4
    <3>6. CASE q = n + 1
      BY <1>4, <2>2, <2>3, <3>2, <3>6
    <3>7. CASE n + 1 < q
      <4>1. o[q] < o[n + 1]
        BY <1>1, <1>2, <3>7
      <4> QED
        BY <1>4, <2>2, <2>3, <3>2, <4>1
    <3> QED
      BY <3>5, <3>6, <3>7
  <2> QED
    BY <2>2, <2>3
<1>11. i \in DOMAIN l
  BY <1>5, <1>7
<1>12. PICK q \in Earlier(l, i) : FoundBy(l, i) = l[q].new /\ \A j \in Earlier(l, i) : j <= q
  BY <1>9, <1>11, FoundIs
<1>13. q = k
  <2>1. q <= k /\ k <= q
    BY <1>9, <1>10, <1>12
  <2>2. q \in Nat /\ k \in Nat
    <3>1. Earlier(l, i) \subseteq 1 .. Len(l) /\ Len(l) \in Nat
      BY <1>11, EarlierPlaces
    <3> QED
      BY <1>9, <1>12, <3>1
  <2> QED
    BY <2>1, <2>2
<1> QED
  BY <1>3, <1>4, <1>12, <1>13

\* The first place undone is the last of the document; the last undone, the
\* first since then.
LEMMA TravelEnds ==
  ASSUME NEW l \in Seq(Change), NEW c, NEW id, NEW time \in Nat, NEW S, S = Since(l, c, id, time),
         Clear(l, c, id, S), S # {}, NEW o, Descends(o, S), NEW d, Latest(l, c, id, d)
  PROVE  /\ Len(o) > 0 /\ l[o[1]].new = d /\ o[Len(o)] = Min(S)
<1>1. /\ Len(o) \in Nat /\ o \in [1 .. Len(o) -> S]
      /\ \A i \in S : \E q \in 1 .. Len(o) : o[q] = i
      /\ \A a, b \in 1 .. Len(o) : a < b => o[b] < o[a]
  BY DEF Descends
<1>2. Len(o) > 0
  BY <1>1
<1>3. S \subseteq Places(l, c, id) /\ Places(l, c, id) \subseteq DOMAIN l /\ DOMAIN l \subseteq Nat
  BY DEF Since, Places
<1>4. 1 \in 1 .. Len(o) /\ Len(o) \in 1 .. Len(o)
  BY <1>1, <1>2
<1>5. o[Len(o)] = Min(S)
  <2>1. S \subseteq Nat
    BY <1>3
  <2>2. Min(S) \in S /\ \A j \in S : Min(S) <= j
    BY <2>1, MinPlace
  <2>3. PICK q \in 1 .. Len(o) : o[q] = Min(S)
    BY <1>1, <2>2
  <2>4. o[Len(o)] \in S /\ Min(S) <= o[Len(o)]
    BY <1>1, <1>4, <2>2
  <2>5. CASE q = Len(o)
    BY <2>3, <2>5
  <2>6. CASE q < Len(o)
    <3>1. o[Len(o)] < o[q]
      BY <1>1, <1>4, <2>6
    <3> QED
      BY <2>1, <2>2, <2>3, <2>4, <3>1
  <2>7. Len(o) \in Nat
    BY <1>1
  <2>8. q = Len(o) \/ q < Len(o)
    BY <2>7
  <2> QED
    BY <2>5, <2>6, <2>8
<1>6. PICK k \in Places(l, c, id) : d = l[k].new /\ \A j \in Places(l, c, id) : j <= k
  BY <1>3 DEF Latest
<1>7. o[1] \in S
  BY <1>1, <1>4
<1>8. k \in S
  <2>1. o[1] <= k
    BY <1>3, <1>6, <1>7
  <2>2. CASE o[1] = k
    BY <1>7, <2>2
  <2>3. CASE o[1] < k
    BY <1>6, <1>7, <2>3, SinceOn
  <2>4. o[1] \in Nat /\ k \in Nat
    BY <1>3, <1>6, <1>7
  <2> QED
    BY <2>1, <2>2, <2>3, <2>4
<1>9. o[1] = k
  <2>1. PICK q \in 1 .. Len(o) : o[q] = k
    BY <1>1, <1>8
  <2>2. CASE q = 1
    BY <2>1, <2>2
  <2>3. CASE 1 < q
    <3>1. o[q] < o[1]
      BY <1>1, <1>4, <2>3
    <3>2. o[1] \in Nat /\ k \in Nat
      BY <1>3, <1>7, <1>8
    <3>3. o[1] <= k
      BY <1>3, <1>6, <1>7
    <3> QED
      BY <2>1, <3>1, <3>2, <3>3
  <2> QED
    BY <1>1, <2>1, <2>2, <2>3
<1> QED
  BY <1>2, <1>5, <1>6, <1>9

\* The documents that undoing goes back through.
Back(l, o, p) == [n \in 0 .. Len(o) |-> FieldsOf(IF n = Len(o) THEN p ELSE l[o[n + 1]].new)]

\* Each change undone was made to what the next one undone left.
LEMMA TravelUnwinds ==
  ASSUME NEW l \in Seq(Change), NEW c, NEW id, NEW time \in Nat, NEW S, S = Since(l, c, id, time),
         Clear(l, c, id, S), S # {}, NEW o, Descends(o, S), NEW d \in Doc, Latest(l, c, id, d),
         NEW u, HasUndone(u, d, l, o),
         NEW w, w = Back(l, o, FoundBy(l, Min(S)))
  PROVE  \E diff : Unwinds(u, w, Len(o), diff)
<1>1. Len(o) \in Nat /\ o \in [1 .. Len(o) -> S]
  BY DEF Descends
<1> Len(o) \in Nat
  BY <1>1
<1>2. Len(o) > 0 /\ l[o[1]].new = d /\ o[Len(o)] = Min(S)
  BY TravelEnds
<1>3. \A n \in 0 .. Len(o) : w[n] = FieldsOf(IF n = Len(o) THEN FoundBy(l, Min(S)) ELSE l[o[n + 1]].new)
  BY DEF Back
<1>4. FieldsOf(d) = d
  BY NamesAssumption DEF FieldsOf
<1>5. u[0] = w[0]
  <2>1. 0 \in 0 .. Len(o) /\ 0 # Len(o) /\ 0 + 1 = 1
    BY <1>1, <1>2
  <2>2. w[0] = FieldsOf(l[o[1]].new)
    BY <1>3, <2>1
  <2> QED
    BY <1>2, <1>4, <2>2 DEF HasUndone
<1>6. \A n \in 1 .. Len(o) : w[n] = FieldsOf(FoundBy(l, o[n]))
  <2> SUFFICES ASSUME NEW n \in 1 .. Len(o) PROVE w[n] = FieldsOf(FoundBy(l, o[n]))
    OBVIOUS
  <2>1. n \in 0 .. Len(o)
    BY <1>1
  <2>2. CASE n = Len(o)
    BY <1>2, <1>3, <2>1, <2>2
  <2>3. CASE n # Len(o)
    <3>1. n < Len(o)
      BY <2>3
    <3>2. FoundBy(l, o[n]) = l[o[n + 1]].new
      BY <3>1, TravelFinds
    <3> QED
      BY <1>3, <2>1, <2>3, <3>2
  <2> QED
    BY <2>2, <2>3
<1>7. PICK diff : diff = [n \in 1 .. Len(o) |-> l[o[n]].diff]
  OBVIOUS
<1>8. ASSUME NEW n \in Nat, n < Len(o)
      PROVE  /\ u[n + 1] = RevertOps(u[n], diff[n + 1])
             /\ \A f \in Field : f \notin DOMAIN diff[n + 1] => w[n][f] = w[n + 1][f]
             /\ \A f \in Field : f \in DOMAIN diff[n + 1] => diff[n + 1][f].before = w[n + 1][f]
  <2>1. n + 1 \in 1 .. Len(o) /\ n \in 0 .. Len(o) /\ n # Len(o)
    BY <1>8
  <2>2. PICK i : i = o[n + 1]
    OBVIOUS
  <2>3. diff[n + 1] = l[i].diff /\ w[n + 1] = FieldsOf(FoundBy(l, i)) /\ w[n] = FieldsOf(l[i].new)
    BY <1>3, <1>6, <1>7, <2>1, <2>2
  <2>4. i \in S
    BY <1>1, <2>1, <2>2
  <2>5. i \in Places(l, c, id)
    BY <2>4 DEF Since
  <2>6. Faithful(l[i], FoundBy(l, i))
    BY <2>5 DEF Clear, Grounded
  <2>7. u[n + 1] = RevertOps(u[n], l[i].diff)
    BY <1>8, <2>2 DEF HasUndone
  <2> QED
    BY <2>3, <2>6, <2>7 DEF Faithful
<1>9. Unwinds(u, w, Len(o), diff)
  BY <1>5, <1>8 DEF Unwinds
<1> QED
  BY <1>9

\* e is the first in v, from place 0 on, that is there.
FirstOf(e, v, P) ==
  \/ e = Absent /\ \A k \in P : v[k] = Absent
  \/ \E k \in P : v[k] = e /\ e # Absent /\ \A j \in P : j < k => v[j] = Absent

\* The values of field f: at place 0 the one before all places in S.
Values(l, S, f) ==
  [k \in {0} \cup S |-> FieldsOf(IF k = 0 THEN FoundBy(l, Min(S)) ELSE l[k].new)[f]]

\* Undoing the changes of a document since some time.
LEMMA TravelRestores ==
  ASSUME NEW l \in Seq(Change), NEW c, NEW id, NEW time \in Nat, NEW S, S = Since(l, c, id, time),
         Clear(l, c, id, S), S # {}, NEW o \in NewestFirst(l, S), NEW d \in Doc, Latest(l, c, id, d),
         NEW f \in Field
  PROVE  FirstOf(Undone(d, l, o)[f], Values(l, S, f), {0} \cup S)
<1> PICK e : e = Undone(d, l, o)[f]
  OBVIOUS
<1> PICK v : v = Values(l, S, f)
  OBVIOUS
<1>0. \A k \in {0} \cup S : v[k] = FieldsOf(IF k = 0 THEN FoundBy(l, Min(S)) ELSE l[k].new)[f]
  BY DEF Values
<1>1. Descends(o, S)
  BY TravelDescends
<1>2. /\ Len(o) \in Nat /\ o \in [1 .. Len(o) -> S]
      /\ \A i \in S : \E n \in 1 .. Len(o) : o[n] = i
      /\ \A a, b \in 1 .. Len(o) : a < b => o[b] < o[a]
  BY <1>1 DEF Descends
<1>3. PICK u : HasUndone(u, d, l, o) /\ Undone(d, l, o) = u[Len(o)]
  BY <1>2, UndoneRows
<1>4. PICK w : w = Back(l, o, FoundBy(l, Min(S)))
  OBVIOUS
<1>5. PICK diff : Unwinds(u, w, Len(o), diff)
  BY <1>1, <1>3, <1>4, TravelUnwinds
<1>6. PICK m : /\ m = Len(o) /\ m \in Nat
               /\ \A n \in 1 .. m : o[n] \in S
               /\ \A i \in S : \E n \in 1 .. m : o[n] = i
               /\ \A a, b \in 1 .. m : a < b => o[b] < o[a]
  BY <1>2
<1> m \in Nat
  BY <1>6
<1>7. FirstThere(e, w, m, f)
  BY <1>2, <1>3, <1>5, <1>6, UnwindsAll
<1>8. S \subseteq Nat \ {0}
  BY DEF Since, Places
<1>9. w[m][f] = v[0]
  <2>1. m \in 0 .. m
    OBVIOUS
  <2> QED
    BY <1>0, <1>4, <1>6, <2>1 DEF Back
<1>10. ASSUME NEW n \in 0 .. m, n # m PROVE o[n + 1] \in S /\ w[n][f] = v[o[n + 1]] /\ n + 1 \in 1 .. m
  <2>1. n + 1 \in 1 .. m
    BY <1>10
  <2>2. o[n + 1] \in S /\ o[n + 1] # 0
    BY <1>6, <1>8, <2>1
  <2>3. w[n] = FieldsOf(l[o[n + 1]].new)
    BY <1>4, <1>6, <1>10 DEF Back
  <2> QED
    BY <1>0, <2>1, <2>2, <2>3
\* The places, as steps back.
<1>11. ASSUME NEW k \in {0} \cup S
       PROVE  \E n \in 0 .. m : IF k = 0 THEN n = m ELSE n # m /\ k = o[n + 1]
  <2>1. CASE k = 0
    BY <2>1
  <2>2. CASE k \in S
    <3>1. PICK q \in 1 .. m : o[q] = k
      BY <1>6, <2>2
    <3>2. q - 1 \in 0 .. m /\ q - 1 # m /\ (q - 1) + 1 = q
      OBVIOUS
    <3> QED
      BY <1>8, <2>2, <3>1, <3>2
  <2> QED
    BY <2>1, <2>2
<1>12. ASSUME NEW k \in {0} \cup S, NEW n \in 0 .. m, IF k = 0 THEN n = m ELSE n # m /\ k = o[n + 1]
       PROVE  v[k] = w[n][f]
  <2>1. CASE k = 0
    BY <1>9, <1>12, <2>1
  <2>2. CASE k # 0
    BY <1>10, <1>12, <2>2
  <2> QED
    BY <2>1, <2>2
<1>13. CASE e = Absent /\ \A q \in 0 .. m : w[q][f] = Absent
  <2>1. ASSUME NEW k \in {0} \cup S PROVE v[k] = Absent
    <3>1. PICK n \in 0 .. m : IF k = 0 THEN n = m ELSE n # m /\ k = o[n + 1]
      BY <1>11
    <3> QED
      BY <1>12, <1>13, <3>1
  <2> QED
    BY <1>13, <2>1 DEF FirstOf
<1>14. CASE \E q \in 0 .. m : /\ w[q][f] = e /\ e # Absent
                              /\ \A r \in 0 .. m : r > q => w[r][f] = Absent
  <2>1. PICK q \in 0 .. m : /\ w[q][f] = e /\ e # Absent
                            /\ \A r \in 0 .. m : r > q => w[r][f] = Absent
    BY <1>14
  <2>2. PICK k : k = IF q = m THEN 0 ELSE o[q + 1]
    OBVIOUS
  <2>3. k \in {0} \cup S /\ v[k] = e
    BY <1>9, <1>10, <2>1, <2>2
  <2>4. ASSUME NEW j \in {0} \cup S, j < k PROVE v[j] = Absent
    <3>1. PICK n \in 0 .. m : IF j = 0 THEN n = m ELSE n # m /\ j = o[n + 1]
      BY <1>11
    <3>2. q # m /\ k = o[q + 1] /\ q + 1 \in 1 .. m
      <4>1. j \in Nat /\ ~(j < 0)
        BY <1>8
      <4>2. q # m
        BY <2>2, <2>4, <4>1
      <4> QED
        BY <1>10, <2>2, <4>2
    <3>3. n > q
      <4>1. CASE n = m
        BY <3>2, <4>1
      <4>2. CASE n # m
        <5>1. j = o[n + 1] /\ n + 1 \in 1 .. m
          BY <1>10, <3>1, <4>2
        <5>2. k \in Nat /\ j \in Nat
          BY <1>8, <2>3
        <5>3. ~(n + 1 < q + 1)
          <6>1. ASSUME n + 1 < q + 1 PROVE FALSE
            <7>1. o[q + 1] < o[n + 1]
              BY <1>6, <3>2, <5>1, <6>1
            <7> QED
              BY <2>4, <3>2, <5>1, <5>2, <7>1
          <6> QED
            BY <6>1
        <5>4. n # q
          BY <2>4, <3>2, <5>1, <5>2
        <5> QED
          BY <5>3, <5>4
      <4> QED
        BY <4>1, <4>2
    <3> QED
      BY <1>12, <2>1, <3>1, <3>3
  <2> QED
    BY <2>1, <2>3, <2>4 DEF FirstOf
<1> QED
  BY <1>7, <1>13, <1>14 DEF FirstThere

\* Of the log, what TimeTravelRestores says.
LEMMA ChangesRestore == TInv /\ ChangeInv => TimeTravelRestores
<1> SUFFICES ASSUME TInv, ChangeInv, NEW c \in Coll, NEW id \in Id, NEW time \in 0 .. now,
                    NEW S, S = Since(log, c, id, time), Traceable(c, id, S),
                    NEW d \in Travelled(docs[c][id], log, S), NEW f \in Field,
                    VersionBefore(S)[f] # Absent
             PROVE  d[f] = VersionBefore(S)[f]
  BY DEF TimeTravelRestores
<1>1. PICK l : l = log
  OBVIOUS
<1>2. l \in Seq(Change) /\ time \in Nat
  BY <1>1 DEF TInv
<1>3. PICK b : b = docs[c][id]
  OBVIOUS
<1>4. b \in Doc \cup {NoDoc}
  BY <1>3 DEF TInv, Docs
<1>5. Latest(l, c, id, b) /\ \A i \in Places(l, c, id) : Grounded(l, i)
  BY <1>1, <1>3 DEF ChangeInv, LogInv, Sound, Places, Traceable
<1>6. Clear(l, c, id, S)
  BY <1>1, <1>5 DEF Clear, Traceable
<1>7. S # {} /\ b # NoDoc /\ \E o \in NewestFirst(l, S) : d = Undone(b, l, o)
  BY <1>1, <1>3 DEF Travelled
<1>8. PICK o \in NewestFirst(l, S) : d = Undone(b, l, o)
  BY <1>7
<1>9. PICK v : v = Values(l, S, f)
  OBVIOUS
<1>10. PICK e : e = d[f]
  OBVIOUS
<1>11. FirstOf(e, v, {0} \cup S)
  <2>1. e = Undone(b, l, o)[f] /\ S = Since(l, c, id, time) /\ b \in Doc
    BY <1>1, <1>4, <1>7, <1>8, <1>10
  <2> QED
    BY <1>2, <1>5, <1>6, <1>7, <1>8, <1>9, <2>1, TravelRestores
<1>12. /\ v[0] = FieldsOf(FoundBy(log, Min(S)))[f]
       /\ \A k \in S : v[k] = IF k = 0 THEN v[0] ELSE FieldsOf(log[k].new)[f]
  BY <1>1, <1>9 DEF Values
<1>13. Min(S) \in S /\ S \subseteq Nat \ {0} /\ \A k \in S : Min(S) <= k
  <2>1. S \subseteq DOMAIN l /\ DOMAIN l \subseteq Nat \ {0}
    BY <1>1, <1>2 DEF Since, Places
  <2> QED
    BY <1>7, <2>1, MinPlace
<1>14. PICK m : m = Min(S)
  OBVIOUS
<1>15. PICK w : w = VersionBefore(S)[f]
  OBVIOUS
<1>16. /\ w = v[0] \/ (v[0] = Absent /\ w = v[m])
       /\ w # Absent /\ m \in S /\ m # 0
  BY <1>12, <1>13, <1>14, <1>15 DEF VersionBefore, FieldsOf, Bare
<1>17. CASE e = Absent
  BY <1>11, <1>16, <1>17 DEF FirstOf
<1>18. CASE e # Absent
  <2>1. PICK k \in {0} \cup S : v[k] = e /\ \A i \in {0} \cup S : i < k => v[i] = Absent
    BY <1>11, <1>18 DEF FirstOf
  <2>2. k \in Nat /\ m \in Nat /\ (k = 0 \/ (k # 0 /\ m <= k)) /\ m > 0
    BY <1>13, <1>14, <1>16
  <2>3. CASE w = v[0]
    <3>1. ~(0 < k)
      BY <1>16, <2>1, <2>3
    <3>2. k = 0
      BY <2>2, <3>1
    <3> QED
      BY <1>10, <1>15, <2>1, <2>3, <3>2
  <2>4. CASE v[0] = Absent /\ w = v[m]
    <3>1. ~(m < k) /\ k # 0
      BY <1>16, <1>18, <2>1, <2>4
    <3>2. k = m
      BY <2>2, <3>1
    <3> QED
      BY <1>10, <1>15, <2>1, <2>4, <3>2
  <2> QED
    BY <1>16, <2>3, <2>4
<1> QED
  BY <1>17, <1>18

\* TimeTravelRestores: every field of the version the document had at that
\* time, or of its first version, has its value again (tx_util.go:601,
\* document.go:582).
THEOREM TravelRestoresValues == Spec => []TimeTravelRestores
BY ChangesHold, ChangesRestore, PTL
=============================================================================
