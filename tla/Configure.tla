----------------------------- MODULE Configure -----------------------------
(***************************************************************************)
(* Changing the collections of a database: Plan and ConfigurePlan (db.go)  *)
(* with the collection configurations they keep in three places, the       *)
(* key-value store, the cache d.collections that all operations read, and  *)
(* the graph d.collectionDag that plans are made from.  Several calls can  *)
(* run at once, under one lock per collection; a ticker copies what is     *)
(* stored into the cache and the graph (db.go:79-112); the process may     *)
(* stop anywhere and open the store again.                                 *)
(*                                                                         *)
(* Templates, authorization and the documents of the collections are left  *)
(* out.  So are indexes: configureCollection stores the new configuration  *)
(* before it reads the one to compare with (db.go:431-435), finds no index *)
(* to add or remove, and stores it again.                                  *)
(***************************************************************************)
EXTENDS Naturals

CONSTANTS Coll, Cdc,      \* collections, and the one named system_cdc
          Text,           \* what a schema says
          NoSchema, NoOne,
          Wants,          \* the sets of schemas Configure is called with
          CdcSchema,      \* the schema Open configures, as it is stored
          Caller,         \* goroutines that call Configure
          Blocked,        \* the lock of a process that has died
          MaxCalls,       \* bound on the number of calls
          MaxCrashes      \* bound on the number of crashes

\* empty: it has empty objects, such as an index without settings.
Schema == [refs : SUBSET Coll, text : Text, empty : BOOLEAN]
Configs == [Coll -> Schema \cup {NoSchema}]

ASSUME WantsAssumption == Wants \subseteq UNION {[S -> Schema] : S \in SUBSET Coll}
ASSUME CdcAssumption == Cdc \in Coll /\ CdcSchema \in Schema /\ ~CdcSchema.empty
ASSUME NamesAssumption == /\ NoSchema \notin Schema
                          /\ {NoOne, Blocked} \cap Caller = {} /\ NoOne # Blocked
ASSUME BoundAssumption == MaxCalls \in Nat /\ MaxCrashes \in Nat

VARIABLES config,    \* collection configurations in the key-value store
          cache,     \* d.collections
          dag,       \* the schemas of d.collectionDag
          lock,      \* who holds the lock of each collection
          caller,    \* the calls of Configure
          ticker,    \* the goroutine that refreshes cache and graph
          up,        \* the process runs
          suspect,   \* collections the cache may be wrong about (history)
          calls, crashes

vars == <<config, cache, dag, lock, caller, ticker, up, suspect, calls, crashes>>

Known(m) == {c \in Coll : m[c] # NoSchema}
None == [c \in Coll |-> NoSchema]

\* collectionDag.SetSchemas accepts: every foreign key leads to a collection.
Closed(m) == \A c \in Known(m) : m[c].refs \subseteq Known(m)

\* A call.  want, old: what its plan is made of; new, drop: what is left to
\* store and to drop; coll: what it is working on; back: what it has read back.
Call == [at : {"idle", "planned", "working", "locked", "stored", "read", "done", "failed"},
         want : Wants \cup {<< >>}, old : Configs, new : Configs, drop : Configs,
         coll : Coll, back : Configs, undisturbed : BOOLEAN]
Idle == [at |-> "idle", want |-> << >>, old |-> None, new |-> None, drop |-> None,
         coll |-> Cdc, back |-> None, undisturbed |-> FALSE]

\* One turn of the ticker.  todo: still to read; seen: read; late: collections
\* stored or dropped since they were read (history).
Turn == [on : BOOLEAN, todo : SUBSET Coll, seen : Configs, failed : BOOLEAN, late : SUBSET Coll]
Resting == [on |-> FALSE, todo |-> {}, seen |-> None, failed |-> FALSE, late |-> {}]

TypeOK ==
  /\ config \in Configs /\ cache \in Configs /\ dag \in Configs
  /\ \A c \in Known(config) : ~config[c].empty
  /\ lock \in [Coll -> Caller \cup {NoOne, Blocked}]
  /\ caller \in [Caller -> Call] /\ ticker \in Turn
  /\ up \in BOOLEAN /\ suspect \subseteq Coll
  /\ calls \in 0..MaxCalls /\ crashes \in 0..MaxCrashes

\* Open has configured system_cdc in an empty store.
OnlyCdc == [None EXCEPT ![Cdc] = CdcSchema]
Init ==
  /\ config = OnlyCdc /\ cache = OnlyCdc /\ dag = OnlyCdc
  /\ lock = [c \in Coll |-> NoOne]
  /\ caller = [p \in Caller |-> Idle] /\ ticker = Resting
  /\ up = TRUE /\ suspect = {} /\ calls = 0 /\ crashes = 0

-----------------------------------------------------------------------------
Running(p) == caller[p].at \notin {"idle", "done", "failed"}

\* History: a call that starts when everything agrees, and runs alone.
Quiet(p) == /\ dag = config /\ cache = config /\ suspect = {} /\ ticker.late = {}
            /\ \A q \in Caller \ {p} : ~Running(q)

\* Plan: the wanted schemas must be closed, and are compared with the graph.
Plan(p, want) ==
  /\ up /\ ~Running(p)
  /\ calls < MaxCalls /\ calls' = calls + 1
  /\ \A c \in DOMAIN want : want[c].refs \subseteq DOMAIN want
  /\ caller' = [q \in Caller |->
                  IF q # p THEN [caller[q] EXCEPT !.undisturbed = FALSE]
                  ELSE [Idle EXCEPT !.at = "planned", !.want = want, !.old = dag,
                                    !.undisturbed = Quiet(p)]]
  /\ UNCHANGED <<config, cache, dag, lock, ticker, up, suspect, crashes>>

\* calcConfigPlan.
\* Mutation: system_cdc is a collection like any other.
DeletesAll(x) == Known(x.old) \ DOMAIN x.want

Deletes(x) == Known(x.old) \ (DOMAIN x.want \cup {Cdc})
Creates(x) == DOMAIN x.want \ Known(x.old)

\* Mutation: an edited schema is not compared.
ReplacesNothing(x) == {c \in Known(x.old) \cap DOMAIN x.want : FALSE}

Replaces(x) == {c \in Known(x.old) \cap DOMAIN x.want : x.old[c] # x.want[c]}
NothingToDo(x) == \/ Known(x.old) = DOMAIN x.want
                  \/ Deletes(x) \cup Creates(x) \cup Replaces(x) = {}

\* Mutation: a new schema is stored as it was given.
CreatedWhole(s) == s

\* Document.Diff lists the fields that differ, and knows no empty objects; a
\* schema to create is its difference from nothing, applied to nothing.
Created(s) == [s EXCEPT !.empty = FALSE]
Edited(base, from, to) ==
  [base EXCEPT !.refs = IF to.refs = from.refs THEN @ ELSE to.refs,
               !.text = IF to.text = from.text THEN @ ELSE to.text]

\* The schemas to configure, as ConfigurePlan puts them together.
Planned(x) == [c \in Coll |-> IF c \in Creates(x) THEN Created(x.want[c])
                              ELSE IF c \in Replaces(x) THEN Edited(cache[c], x.old[c], x.want[c])
                              ELSE NoSchema]
Acceptable(x) == /\ Replaces(x) \subseteq Known(cache)
                 /\ Creates(x) \cup Replaces(x) # {}
                 /\ Closed(Planned(x))

\* The first half of ConfigurePlan, up to the order of the drops.
Resolve(p) ==
  LET x == caller[p]
  IN  /\ x.at = "planned"
      /\ caller' = [caller EXCEPT ![p] =
           IF NothingToDo(x) THEN [@ EXCEPT !.at = "done"]
           ELSE IF ~Acceptable(x) THEN [@ EXCEPT !.at = "failed"]
           ELSE [@ EXCEPT !.at = "working", !.new = Planned(x),
                          !.drop = [c \in Coll |-> IF c \in Deletes(x) THEN dag[c] ELSE NoSchema]]]
      /\ UNCHANGED <<config, cache, dag, lock, ticker, up, suspect, calls, crashes>>

-----------------------------------------------------------------------------
\* The graph sorted: collections are dropped before those they refer to, and
\* configured after them.
NextDrop(x) == {c \in Known(x.drop) : \A d \in Known(x.drop) \ {c} : c \notin x.drop[d].refs}
NextPut(x) == {c \in Known(x.new) : /\ Known(x.drop) = {}
                                    /\ x.new[c].refs \cap Known(x.new) \subseteq {c}}

\* What is cached already is not configured.
Skip(p) ==
  /\ caller[p].at = "working"
  /\ \E c \in NextPut(caller[p]) :
       /\ cache[c] = caller[p].new[c]
       /\ caller' = [caller EXCEPT ![p].new[c] = NoSchema]
  /\ UNCHANGED <<config, cache, dag, lock, ticker, up, suspect, calls, crashes>>

\* Mutation: lockCollection does not look at what TryLock returned.
LockAnyway(p) ==
  /\ caller[p].at = "working"
  /\ \E c \in NextDrop(caller[p]) \cup NextPut(caller[p]) :
       /\ c \in NextPut(caller[p]) => cache[c] # caller[p].new[c]
       /\ lock' = [lock EXCEPT ![c] = p]
       /\ caller' = [caller EXCEPT ![p].at = "locked", ![p].coll = c]
  /\ UNCHANGED <<config, cache, dag, ticker, up, suspect, calls, crashes>>

\* lockCollection.
Lock(p) ==
  /\ caller[p].at = "working"
  /\ \E c \in NextDrop(caller[p]) \cup NextPut(caller[p]) :
       /\ c \in NextPut(caller[p]) => cache[c] # caller[p].new[c]
       /\ lock[c] = NoOne
       /\ lock' = [lock EXCEPT ![c] = p]
       /\ caller' = [caller EXCEPT ![p].at = "locked", ![p].coll = c]
  /\ UNCHANGED <<config, cache, dag, ticker, up, suspect, calls, crashes>>

\* The configuration in the key-value store is written, or deleted once the
\* documents are: a collection that is not cached cannot be read for that.
Persist(p) ==
  LET c == caller[p].coll
  IN  /\ caller[p].at = "locked"
      /\ c \in Known(caller[p].drop) => c \in Known(cache)
      /\ config' = [config EXCEPT ![c] = caller[p].new[c]]
      /\ caller' = [caller EXCEPT ![p].at = "stored"]
      /\ ticker' = [ticker EXCEPT !.late = @ \cup ({c} \cap Known(ticker.seen))]
      /\ UNCHANGED <<cache, dag, lock, up, suspect, calls, crashes>>

\* The cache follows, and the lock is released.
Store(p) ==
  LET c == caller[p].coll
  IN  /\ caller[p].at = "stored"
      /\ cache' = [cache EXCEPT ![c] = caller[p].new[c]]
      /\ lock' = [lock EXCEPT ![c] = NoOne]
      /\ caller' = [caller EXCEPT ![p].at = "working", ![p].new[c] = NoSchema, ![p].drop[c] = NoSchema]
      /\ suspect' = suspect \ {c}
      /\ UNCHANGED <<config, dag, ticker, up, calls, crashes>>

\* Nothing is left to do; the graph is made anew from what is stored.
ReadBack(p) ==
  /\ caller[p].at = "working" /\ Known(caller[p].drop) \cup Known(caller[p].new) = {}
  /\ caller' = [caller EXCEPT ![p].at = "read", ![p].back = config]
  /\ UNCHANGED <<config, cache, dag, lock, ticker, up, suspect, calls, crashes>>

SetDag(p) ==
  /\ caller[p].at = "read"
  /\ dag' = IF Closed(caller[p].back) THEN caller[p].back ELSE dag
  /\ caller' = [caller EXCEPT ![p].at = IF Closed(caller[p].back) THEN "done" ELSE "failed"]
  /\ UNCHANGED <<config, cache, lock, ticker, up, suspect, calls, crashes>>

\* The store or the lock refuses; what has been done stays.
Fail(p) ==
  /\ caller[p].at \in {"working", "locked"}
  /\ caller' = [caller EXCEPT ![p].at = "failed"]
  /\ lock' = [c \in Coll |-> IF lock[c] = p THEN NoOne ELSE lock[c]]
  /\ UNCHANGED <<config, cache, dag, ticker, up, suspect, calls, crashes>>

-----------------------------------------------------------------------------
\* The ticker looks at the cached collections, one after the other.
Tick ==
  /\ up /\ ~ticker.on
  /\ ticker' = [Resting EXCEPT !.on = TRUE, !.todo = Known(cache)]
  /\ UNCHANGED <<config, cache, dag, lock, caller, up, suspect, calls, crashes>>

TickReads ==
  /\ \E c \in ticker.todo :
       ticker' = [ticker EXCEPT !.todo = @ \ {c}, !.seen[c] = config[c],
                                !.failed = @ \/ config[c] = NoSchema]
  /\ UNCHANGED <<config, cache, dag, lock, caller, up, suspect, calls, crashes>>

\* Unless one could not be read, what was read replaces what is cached, and
\* the whole graph.
TickEnds ==
  /\ ticker.on /\ ticker.todo = {}
  /\ IF ticker.failed THEN UNCHANGED <<cache, dag, suspect, caller>>
     ELSE /\ cache' = [c \in Coll |-> IF c \in Known(ticker.seen) THEN ticker.seen[c] ELSE cache[c]]
          /\ dag' = IF Closed(ticker.seen) THEN ticker.seen ELSE dag
          /\ suspect' = (suspect \ Known(ticker.seen)) \cup ticker.late
          /\ caller' = [p \in Caller |-> [caller[p] EXCEPT !.undisturbed = FALSE]]
  /\ ticker' = Resting
  /\ UNCHANGED <<config, lock, up, calls, crashes>>

-----------------------------------------------------------------------------
\* The process stops; locks are stored and outlive it.
Crash ==
  /\ up /\ crashes < MaxCrashes
  /\ up' = FALSE /\ crashes' = crashes + 1
  /\ cache' = None /\ dag' = None /\ suspect' = {}
  /\ caller' = [p \in Caller |-> Idle] /\ ticker' = Resting
  /\ lock' = [c \in Coll |-> IF lock[c] \in Caller THEN Blocked ELSE lock[c]]
  /\ UNCHANGED <<config, calls>>

\* Open makes the graph from what is stored, and leaves the cache empty.
Open ==
  /\ ~up /\ Closed(config)
  /\ up' = TRUE /\ dag' = config
  /\ UNCHANGED <<config, cache, lock, caller, ticker, suspect, calls, crashes>>

\* The lease of a dead process ends.
Expire ==
  /\ \E c \in Coll : lock[c] = Blocked /\ lock' = [lock EXCEPT ![c] = NoOne]
  /\ UNCHANGED <<config, cache, dag, caller, ticker, up, suspect, calls, crashes>>

CallerStep(p) ==
  \/ \E want \in Wants : Plan(p, want)
  \/ Resolve(p) \/ Skip(p) \/ Lock(p) \/ Persist(p) \/ Store(p)
  \/ ReadBack(p) \/ SetDag(p) \/ Fail(p)

Next == \/ \E p \in Caller : CallerStep(p)
        \/ Tick \/ TickReads \/ TickEnds
        \/ Crash \/ Open \/ Expire

Spec == Init /\ [][Next]_vars

-----------------------------------------------------------------------------
\* Whatever is planned, interrupted, raced or restarted, the collection of
\* changes (calcConfigPlan, db.go:491-493) stays configured.
CdcStays == config[Cdc] # NoSchema

\* A cached schema (db.go:123, 137) is the stored one once the call that
\* changed it is through, unless it changed between the ticker's reading and
\* its storing (db.go:92-99): nothing else makes the cache stale.
CacheFollowsStore ==
  \A c \in Known(cache) \ suspect :
    \/ \E p \in Caller : caller[p].at = "stored" /\ caller[p].coll = c
    \/ cache[c] = config[c]

\* A call that starts when store, cache and graph agree, runs alone and returns
\* no error has configured what was asked for and system_cdc, and nothing else.
Target(x) == [c \in Coll |-> IF c \in DOMAIN x.want THEN Created(x.want[c])
                             ELSE IF c = Cdc THEN config[c] ELSE NoSchema]
AppliedWhenUndisturbed ==
  \A p \in Caller : caller[p].at = "done" /\ caller[p].undisturbed =>
    config = Target(caller[p]) /\ cache = config /\ dag = config

\* api.go:61: "Collections returns a list of collection names that are
\* registered in the database".  What is configured is served.
ConfiguredIsServed ==
  up => \A c \in Known(config) :
    c \in Known(cache) \/ \E p \in Caller : caller[p].at = "stored" /\ caller[p].coll = c
=============================================================================
