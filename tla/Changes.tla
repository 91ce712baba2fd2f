------------------------------ MODULE Changes ------------------------------
(***************************************************************************)
(* Change data capture.  persistCommand (tx_util.go) writes, in the        *)
(* transaction of every change, a document of the collection system_cdc    *)
(* with the difference the change made.  TimeTravel and Revert undo those  *)
(* differences; ChangeStream (db.go) hands them to subscribers once their  *)
(* transaction has committed.                                              *)
(*                                                                         *)
(* A document is the values of its fields, its primary key apart; null is  *)
(* as good as no value.  Indexes, foreign keys and cascades are those of   *)
(* DocTx; here no field is indexed.                                        *)
(* Of authorization, the decision is kept and the scripts are sets of      *)
(* actors.  Times are those float64 can tell apart, and may be equal.      *)
(***************************************************************************)
EXTENDS Integers, Sequences, SequencesExt

CONSTANTS Coll, Id, Field, Val, Absent, NoDoc,
          Default,        \* [Field -> default of the property, or Absent]
          Fixed,          \* properties that are x-immutable
          Input, Partial, \* [Coll -> documents written, and updated with]
          Actor, Rules,   \* who, and the authz rules of the collections
          Users,          \* [Tx -> who may run the transaction]
          Tx, Sub,        \* transactions, and subscribers of the change stream
          Wanted,         \* [Sub -> what it subscribes to, and as who]
          Ticks,          \* what the clock may advance by between two changes
          MaxOps, MaxTime \* bounds

Doc == [Field -> Val \cup {Absent}]
Bare == [f \in Field |-> Absent]
Action == {"create", "set", "update", "delete"}
Access == Action \cup {"query", "changeStream"}

ASSUME NamesAssumption == Absent \notin Val /\ NoDoc \notin Doc
ASSUME SchemaAssumption ==
  /\ Default \in Doc /\ Fixed \subseteq Field
  /\ \A c \in Coll : Input[c] \cup Partial[c] \subseteq Doc
ASSUME RulesAssumption ==
  /\ Rules \subseteq [coll : Coll, allow : BOOLEAN, actions : SUBSET Access, who : SUBSET Actor]
  /\ Wanted \in [Sub -> [coll : Coll, actions : SUBSET Action, actor : Actor]]
  /\ Users \in [Tx -> SUBSET Actor] /\ Actor # {}
ASSUME BoundAssumption == MaxOps \in [Tx -> Nat] /\ MaxTime \in Nat /\ Ticks \subseteq Nat

VARIABLES docs,  \* committed documents
          log,   \* committed documents of system_cdc, in the order of commits
          now,   \* time.Now().UnixNano()
          tx,    \* transactions, each used once
          subs   \* subscriptions

vars == <<docs, log, now, tx, subs>>

\* A change has a name: a message says which one it is about.
Message == [tx : Tx, n : Nat]
Name(r) == [tx |-> r.tx, n |-> r.n]

\* A CDC.  new, blind and saw are history: the document stored, whether the
\* actor was not allowed to see the one it replaced, and the changes of the
\* document that were in view.
Op == [op : {"add", "replace", "remove"}, value : Val \cup {Absent}, before : Val \cup {Absent}]
Diffs == UNION {[F -> Op] : F \in SUBSET Field}
Change == [tx : Tx, n : Nat, coll : Coll, id : Id, action : Action, time : 0..MaxTime,
           diff : Diffs, new : Doc \cup {NoDoc}, blind : BOOLEAN, saw : SUBSET Message]

\* docs, log: the transaction's view; own: the changes it has made; reads:
\* documents it has visited; dirty: documents others have committed since it
\* began; after: transactions whose Commit had returned before its own (history).
Fresh == [status |-> "new", actor |-> CHOOSE a \in Actor : TRUE, docs |-> << >>, log |-> << >>,
          own |-> << >>, reads |-> {}, dirty |-> {}, after |-> {}, sent |-> 0]

\* queue: messages machine holds for the subscriber; got: what its handler was
\* called with; from: transactions not yet committed when it subscribed (history).
Quiet == [on |-> FALSE, queue |-> << >>, got |-> << >>, from |-> {}]

Status == {"new", "open", "publishing", "committed", "rolledback"}
TypeOK ==
  /\ docs \in [Coll -> [Id -> Doc \cup {NoDoc}]]
  /\ \A i \in DOMAIN log : log[i] \in Change
  /\ now \in 0..MaxTime
  /\ \A t \in Tx :
       /\ tx[t].status \in Status /\ tx[t].actor \in Actor
       /\ tx[t].reads \cup tx[t].dirty \subseteq Coll \X Id
       /\ tx[t].after \subseteq Tx
       /\ tx[t].sent \in 0..Len(tx[t].own)
       /\ \A n \in DOMAIN tx[t].own : tx[t].own[n] \in Change /\ tx[t].own[n].n = n
       /\ tx[t].status \in {"new", "rolledback"} => tx[t].own = << >>
  /\ \A s \in Sub :
       /\ subs[s].on \in BOOLEAN /\ subs[s].from \subseteq Tx
       /\ \A m \in ToSet(subs[s].queue \o subs[s].got) : m \in Message

Init ==
  /\ docs = [c \in Coll |-> [id \in Id |-> NoDoc]]
  /\ log = << >> /\ now = 0
  /\ tx = [t \in Tx |-> Fresh]
  /\ subs = [s \in Sub |-> Quiet]

-----------------------------------------------------------------------------
\* authorizeCommand, authorizeQuery and authorizeChangeStream: a rule that
\* denies decides; rules that allow matter only where there are any.
Allowed(a, c, action) ==
  LET on(allow) == {r \in Rules : r.coll = c /\ r.allow = allow /\ action \in r.actions}
  IN  /\ \A r \in on(FALSE) : a \notin r.who
      /\ on(TRUE) = {} \/ \E r \in on(TRUE) : a \in r.who

FieldsOf(d) == IF d = NoDoc THEN Bare ELSE d

\* Mutation: fields that are gone are not noticed.
DiffAdded(after, before) ==
  [f \in {g \in Field : after[g] # before[g] /\ after[g] # Absent} |->
     [op |-> IF before[f] = Absent THEN "add" ELSE "replace",
      value |-> after[f], before |-> before[f]]]

\* Document.Diff.
Diff(after, before) ==
  [f \in {g \in Field : after[g] # before[g]} |->
     [op |-> IF after[f] = Absent THEN "remove" ELSE IF before[f] = Absent THEN "add" ELSE "replace",
      value |-> after[f], before |-> before[f]]]

ApplyOps(d, diff) ==
  [f \in Field |-> IF f \notin DOMAIN diff THEN d[f]
                   ELSE IF diff[f].op = "remove" THEN Absent ELSE diff[f].value]

\* RevertOps assigns former values; a field that had none keeps the later one.
RevertOps(d, diff) ==
  [f \in Field |-> IF f \in DOMAIN diff /\ diff[f].before # Absent THEN diff[f].before ELSE d[f]]

-----------------------------------------------------------------------------
\* The changes of a document, by their places in the log.
Places(l, c, id) == {i \in DOMAIN l : l[i].coll = c /\ l[i].id = id}

\* The query of TimeTravel, but for its order.
Since(l, c, id, time) == {i \in Places(l, c, id) : l[i].time >= time}

\* Mutation: the oldest change is undone first.
OldestFirst(l, S) ==
  {o \in Bijection(1..Cardinality(S), S) :
     \A m, n \in DOMAIN o : m < n => l[o[m]].time <= l[o[n]].time}

\* Ordered by timestamp, the latest first; equal times come in any order.
NewestFirst(l, S) ==
  {o \in Bijection(1..Cardinality(S), S) :
     \A m, n \in DOMAIN o : m < n => l[o[m]].time >= l[o[n]].time}

\* The changes undone one after the other.
Undone(d, l, o) ==
  LET after[n \in 0..Len(o)] ==
        IF n = 0 THEN d ELSE RevertOps(after[n - 1], l[o[n]].diff)
  IN  after[Len(o)]

\* What TimeTravel may return for a document that is d now; nothing if the
\* document or a change since then is missing.
Travelled(d, l, S) ==
  IF d = NoDoc \/ S = {} THEN {} ELSE {Undone(d, l, o) : o \in NewestFirst(l, S)}

-----------------------------------------------------------------------------
Working(t) == tx[t].status = "open" /\ Len(tx[t].own) < MaxOps[t]
Becomes(t, x) == tx' = [tx EXCEPT ![t] = x] /\ UNCHANGED <<docs, log, subs>>
Step(t, x) == Becomes(t, x) /\ UNCHANGED now

\* before, _ := t.Get: a document that may not be queried counts as missing.
Before(x, c, id) == IF Allowed(x.actor, c, "query") THEN x.docs[c][id] ELSE NoDoc
Looked(x, c, id) == IF Before(x, c, id) = NoDoc THEN {} ELSE {<<c, id>>}
Known(x, c, id) == {Name(x.log[i]) : i \in Places(x.log, c, id)}

\* persistCommand: cmd is the command's document, stored what it leaves.  The
\* clock does not move visibly where Ticks has 0.
Persist(t, c, id, action, cmd, stored) ==
  LET x == tx[t]
      cdc == [tx |-> t, n |-> Len(x.own) + 1, coll |-> c, id |-> id, action |-> action,
              time |-> now', diff |-> Diff(cmd, FieldsOf(Before(x, c, id))),
              new |-> stored, blind |-> Before(x, c, id) # x.docs[c][id], saw |-> Known(x, c, id)]
  IN  /\ Allowed(x.actor, c, action)
      /\ \E d \in Ticks : now + d <= MaxTime /\ now' = now + d
      /\ Becomes(t, [x EXCEPT !.docs[c][id] = stored,
                              !.log = Append(@, cdc), !.own = Append(@, cdc),
                              !.reads = @ \cup Looked(x, c, id)])

WithDefaults(d) == [f \in Field |-> IF d[f] = Absent THEN Default[f] ELSE d[f]]

\* Mutation: values given by the command win.
KeepingGiven(before, d) ==
  [f \in Field |-> IF f \in Fixed /\ before # NoDoc /\ d[f] = Absent THEN before[f]
                   ELSE WithDefaults(d)[f]]

\* setDocument and updateDocument, for the properties of the command's document.
Keeping(before, d) ==
  [f \in Field |-> IF f \in Fixed /\ before # NoDoc THEN before[f] ELSE WithDefaults(d)[f]]

Merge(before, cmd) == [f \in Field |-> IF cmd[f] = Absent THEN before[f] ELSE cmd[f]]

Begin(t, a) ==
  /\ tx[t].status = "new"
  /\ Step(t, [Fresh EXCEPT !.status = "open", !.actor = a, !.docs = docs, !.log = log])

Create(t, c, id, d) ==
  Working(t) /\ Persist(t, c, id, "create", WithDefaults(d), WithDefaults(d))

Set(t, c, id, d) ==
  LET cmd == Keeping(Before(tx[t], c, id), d)
  IN  Working(t) /\ Persist(t, c, id, "set", cmd, cmd)

\* Defaults are filled in before the merge, and the partial document is diffed.
Update(t, c, id, part) ==
  LET before == Before(tx[t], c, id)
      cmd == Keeping(before, part)
  IN  /\ Working(t) /\ before # NoDoc
      /\ Persist(t, c, id, "update", cmd, Merge(before, cmd))

Delete(t, c, id) == Working(t) /\ Persist(t, c, id, "delete", Bare, NoDoc)

TravelledBy(t, c, id, time) ==
  Travelled(Before(tx[t], c, id), tx[t].log, Since(tx[t].log, c, id, time))

TimeTravel(t, c, id, time) ==
  /\ Working(t) /\ TravelledBy(t, c, id, time) # {}
  /\ Step(t, [tx[t] EXCEPT !.reads = @ \cup {<<c, id>>}])

Revert(t, c, id, time) ==
  Working(t) /\ \E d \in TravelledBy(t, c, id, time) : Set(t, c, id, d)

\* Mutation: the changes outlive the transaction.
RollbackKeeping(t) ==
  tx[t].status = "open" /\ Step(t, [tx[t] EXCEPT !.status = "rolledback"])

Rollback(t) == tx[t].status = "open" /\ Step(t, [Fresh EXCEPT !.status = "rolledback"])

\* The commit of the key-value transaction (BadgerTx, DocTx): refused if a
\* document it has visited was committed by others since it began.
Commit(t) ==
  LET x == tx[t]
      written == {<<r.coll, r.id>> : r \in ToSet(x.own)}
  IN  /\ x.status = "open" /\ (x.own # << >> => x.reads \cap x.dirty = {})
      /\ docs' = [c \in Coll |-> [id \in Id |->
                    IF <<c, id>> \in written THEN x.docs[c][id] ELSE docs[c][id]]]
      /\ log' = log \o x.own
      /\ tx' = [u \in Tx |->
                  IF u = t THEN [Fresh EXCEPT !.status = "publishing", !.own = x.own, !.actor = x.actor,
                                   !.after = {v \in Tx : tx[v].status = "committed"}]
                  ELSE IF tx[u].status = "open" THEN [tx[u] EXCEPT !.dirty = @ \cup written]
                  ELSE tx[u]]
      /\ UNCHANGED <<now, subs>>

-----------------------------------------------------------------------------
Committed(t) == tx[t].status \in {"publishing", "committed"}

\* Mutation: a subscriber that is busy misses the message.
PublishIfIdle(t) ==
  LET m == [tx |-> t, n |-> tx[t].sent + 1]
  IN  /\ Committed(t) /\ tx[t].sent < Len(tx[t].own)
      /\ tx' = [tx EXCEPT ![t].sent = @ + 1]
      /\ subs' = [s \in Sub |-> IF subs[s].on /\ subs[s].queue = << >>
                               THEN [subs[s] EXCEPT !.queue = <<m>>] ELSE subs[s]]
      /\ UNCHANGED <<docs, log, now>>

\* machine hands a message to every subscriber there is (external).
Publish(t) ==
  LET m == [tx |-> t, n |-> tx[t].sent + 1]
  IN  /\ Committed(t) /\ tx[t].sent < Len(tx[t].own)
      /\ tx' = [tx EXCEPT ![t].sent = @ + 1]
      /\ subs' = [s \in Sub |-> IF subs[s].on THEN [subs[s] EXCEPT !.queue = Append(@, m)] ELSE subs[s]]
      /\ UNCHANGED <<docs, log, now>>

\* Mutation: the messages are sent by another goroutine.
CommitReturnsEarly(t) ==
  /\ tx[t].status = "publishing"
  /\ Step(t, [tx[t] EXCEPT !.status = "committed"])

CommitReturns(t) ==
  /\ tx[t].status = "publishing" /\ tx[t].sent = Len(tx[t].own)
  /\ Step(t, [tx[t] EXCEPT !.status = "committed"])

\* ChangeStream.
Subscribe(s) ==
  /\ ~subs[s].on /\ Allowed(Wanted[s].actor, Wanted[s].coll, "changeStream")
  /\ subs' = [subs EXCEPT ![s].on = TRUE,
                          ![s].from = {t \in Tx : tx[t].status \in {"new", "open"}}]
  /\ UNCHANGED <<docs, log, now, tx>>

\* The change passes the filter and is of the collection.
Matches(s, m) ==
  LET r == tx[m.tx].own[m.n] IN r.action \in Wanted[s].actions /\ r.coll = Wanted[s].coll

Deliver(s) ==
  /\ subs[s].on /\ subs[s].queue # << >>
  /\ LET m == Head(subs[s].queue)
     IN subs' = [subs EXCEPT ![s].queue = Tail(@),
                             ![s].got = IF Matches(s, m) THEN Append(@, m) ELSE @]
  /\ UNCHANGED <<docs, log, now, tx>>

\* The handler returns false or an error, or its context ends.
Unsubscribe(s) ==
  /\ subs[s].on
  /\ subs' = [subs EXCEPT ![s] = Quiet]
  /\ UNCHANGED <<docs, log, now, tx>>

Work(t) ==
  \/ Rollback(t) \/ Commit(t)
  \/ \E a \in Users[t] : Begin(t, a)
  \/ \E c \in Coll, id \in Id :
       \/ Delete(t, c, id)
       \/ \E d \in Input[c] : Create(t, c, id, d) \/ Set(t, c, id, d)
       \/ \E p \in Partial[c] : Update(t, c, id, p)
       \/ \E time \in 0..now : TimeTravel(t, c, id, time) \/ Revert(t, c, id, time)

Next ==
  \/ \E t \in Tx : Work(t) \/ Publish(t) \/ CommitReturns(t)
  \/ \E s \in Sub : Subscribe(s) \/ Deliver(s) \/ Unsubscribe(s)

\* Commit publishes in its own goroutine, and a subscriber's loop runs in that
\* of the caller of ChangeStream.
Fairness == (\A t \in Tx : WF_vars(Publish(t))) /\ (\A s \in Sub : WF_vars(Deliver(s)))

Spec == Init /\ [][Next]_vars /\ Fairness

-----------------------------------------------------------------------------
\* The document that the change at i found, or would have found.
Earlier(l, i) == {j \in Places(l, l[i].coll, l[i].id) : j < i}
FoundBy(l, i) == IF Earlier(l, i) = {} THEN NoDoc ELSE l[Max(Earlier(l, i))].new

\* The change was made knowing all earlier ones of the document.  It was not
\* when two transactions create the document at once (neither visits anything),
\* or when someone changes a document without the right to query it (the error
\* of t.Get is dropped, tx_util.go:180).
Informed(l, i) == ~l[i].blind /\ l[i].saw = {Name(l[j]) : j \in Earlier(l, i)}

\* Nothing stands in the way of travelling back over the changes S: they have
\* times of their own, and all changes of the document were informed.
Traceable(c, id, S) ==
  /\ \A i \in Places(log, c, id) : Informed(log, i)
  /\ \A i, j \in S : log[i].time = log[j].time => i = j

\* The version the document had before the changes S, or the first it had.
VersionBefore(S) ==
  FieldsOf(IF FoundBy(log, Min(S)) = NoDoc THEN log[Min(S)].new ELSE FoundBy(log, Min(S)))

\* What holds of api.go:146-147, "TimeTravel sets the document to the value it
\* was at the given timestamp.  If the document did not exist at the given
\* timestamp, it will return the first version of the document": every field
\* that version had has its value again, whatever updates, deletions, reverts
\* and other transactions came in between (TimeTravel, tx_util.go:601).  What
\* the version had not is TimeTravelIsExact's business.
TimeTravelRestores ==
  \A c \in Coll, id \in Id : \A time \in 0..now :
    LET S == Since(log, c, id, time) IN
    Traceable(c, id, S) =>
      \A d \in Travelled(docs[c][id], log, S) : \A f \in Field :
        VersionBefore(S)[f] # Absent => d[f] = VersionBefore(S)[f]

\* All that api.go:146 says, of a document that did exist at that time (and was
\* not being changed at that very time): it is the document of that time that
\* is returned.
TimeTravelIsExact ==
  \A c \in Coll, id \in Id : \A time \in 0..now :
    LET S == Since(log, c, id, time) IN
    Traceable(c, id, S) =>
      \A d \in Travelled(docs[c][id], log, S) :
        /\ FoundBy(log, Min(S)) # NoDoc
        /\ \A i \in S : log[i].time # time
        => d = FoundBy(log, Min(S))

\* The recorded difference of a create, a set or a delete takes the document
\* from what it was to what it became (Diff and ApplyOps, document.go:512, 563).
\* That of an update does not: it says of the fields the update left out that
\* they were removed (tx_util.go:243).
ReplayRebuilds ==
  \A i \in DOMAIN log : Informed(log, i) /\ log[i].action # "update" =>
    ApplyOps(FieldsOf(FoundBy(log, i)), log[i].diff) = FieldsOf(log[i].new)

\* README.md:162: "the field is immutable and all edits will be replaced with
\* it's original value".  True of set, update and revert by those who may query
\* the document, whoever changed it before; create replaces the value
\* (setDocument, tx_util.go:143; updateDocument, tx_util.go:42).
FixedFieldsStay ==
  \A i \in DOMAIN log :
    Informed(log, i) /\ log[i].action \in {"set", "update"} /\ FoundBy(log, i) # NoDoc =>
      \A f \in Fixed : log[i].new[f] = FoundBy(log, i)[f]

\* A handler is called with committed changes it asked for, those of one
\* transaction once each and in order, and those of two transactions in the
\* order of their commits - unless the second commit began before the first
\* had returned (db.go:578; badger tx.go:119-124).
DeliveredInOrder ==
  \A s \in Sub : \A j \in DOMAIN subs[s].got :
    LET b == subs[s].got[j]
    IN  /\ Committed(b.tx) /\ Matches(s, b) /\ tx[b.tx].own[b.n] \in ToSet(log)
        /\ \A i \in 1..j-1 :
             LET a == subs[s].got[i]
             IN  /\ a.tx = b.tx => a.n < b.n
                 /\ b.tx \notin tx[a.tx].after

\* Every change committed after it subscribed reaches the subscriber, unless
\* its subscription ends first.
ChangesArrive ==
  \A s \in Sub, t \in Tx :
    (subs[s].on /\ t \in subs[s].from /\ Committed(t)) ~>
      (~subs[s].on \/ \A n \in DOMAIN tx[t].own :
                        Matches(s, [tx |-> t, n |-> n]) => [tx |-> t, n |-> n] \in ToSet(subs[s].got))
=============================================================================
