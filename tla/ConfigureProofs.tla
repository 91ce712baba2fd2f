-------------------------- MODULE ConfigureProofs --------------------------
(***************************************************************************)
(* Proofs about Configure, for any collections, schemas, calls, crashes    *)
(* and bounds: types, that system_cdc stays configured, when the cache is  *)
(* the store, what an undisturbed call has done, and that each collection  *)
(* is locked the way the lock promises.                                    *)
(***************************************************************************)
EXTENDS Configure, Sequences, TLAPS

\* Schemas without empty objects.
Whole(m) == \A c \in Coll : m[c] # NoSchema => ~m[c].empty

\* Nothing that can get into the store has empty objects.
AllWhole == /\ Whole(config) /\ Whole(cache) /\ Whole(ticker.seen)
            /\ \A p \in Caller : Whole(caller[p].new)

TInv == TypeOK /\ AllWhole

-----------------------------------------------------------------------------
\* The constants that variables start from are well typed.
LEMMA ConstantTypes ==
  /\ None \in Configs /\ Whole(None) /\ OnlyCdc \in Configs /\ Whole(OnlyCdc)
  /\ Idle \in Call /\ Idle.new = None /\ Resting \in Turn /\ Resting.seen = None
<1>1. None \in Configs /\ Whole(None)
  BY DEF None, Configs, Whole
<1>2. OnlyCdc \in Configs /\ Whole(OnlyCdc)
  BY <1>1, CdcAssumption DEF OnlyCdc, Configs, Whole, None
<1>3. Idle \in Call /\ Idle.new = None
  BY <1>1, CdcAssumption DEF Idle, Call
<1>4. Resting \in Turn /\ Resting.seen = None
  BY <1>1 DEF Resting, Turn
<1> QED
  BY <1>1, <1>2, <1>3, <1>4

\* What is planned consists of schemas without empty objects.
LEMMA PlannedType ==
  ASSUME TInv, NEW x \in Call, Acceptable(x)
  PROVE  Planned(x) \in Configs /\ Whole(Planned(x))
<1>1. ASSUME NEW c \in Creates(x)
      PROVE  Created(x.want[c]) \in Schema /\ ~Created(x.want[c]).empty
  <2>1. x.want \in Wants
    BY <1>1 DEF Call, Creates
  <2>2. x.want[c] \in Schema
    BY <1>1, <2>1, WantsAssumption DEF Creates
  <2> QED
    BY <2>2 DEF Created, Schema
<1>2. ASSUME NEW c \in Replaces(x)
      PROVE  /\ Edited(cache[c], x.old[c], x.want[c]) \in Schema
             /\ ~Edited(cache[c], x.old[c], x.want[c]).empty
  <2>1. c \in Coll /\ cache[c] \in Schema /\ ~cache[c].empty
    BY <1>2 DEF Acceptable, Known, TInv, TypeOK, AllWhole, Whole, Configs
  <2>2. x.want \in Wants
    BY <1>2 DEF Call, Replaces
  <2>3. x.want[c] \in Schema
    BY <1>2, <2>2, WantsAssumption DEF Replaces
  <2> QED
    BY <2>1, <2>3 DEF Edited, Schema
<1>3. Planned(x) \in Configs
  BY <1>1, <1>2 DEF Planned, Configs
<1>4. Whole(Planned(x))
  BY <1>1, <1>2 DEF Planned, Whole
<1> QED
  BY <1>3, <1>4

\* A step that changes only calls, and those to well typed ones.
LEMMA CallerChanges ==
  ASSUME TInv, UNCHANGED <<config, cache, dag, lock, ticker, up, suspect, crashes>>,
         calls' \in 0..MaxCalls,
         caller' \in [Caller -> Call], \A p \in Caller : Whole(caller'[p].new)
  PROVE  TInv'
BY DEF TInv, TypeOK, AllWhole, Whole, Known

\* A step of one call that changes only that call.
LEMMA OneCallChanges ==
  ASSUME TInv, NEW p \in Caller, NEW x \in Call, Whole(x.new),
         caller' = [caller EXCEPT ![p] = x],
         UNCHANGED <<config, cache, dag, lock, ticker, up, suspect, calls, crashes>>
  PROVE  TInv'
<1>1. caller' \in [Caller -> Call] /\ \A q \in Caller : Whole(caller'[q].new)
  BY DEF TInv, TypeOK, AllWhole
<1> QED
  BY <1>1, CallerChanges DEF TInv, TypeOK

\* A step of a call keeps types.
LEMMA CallerStepTypes == ASSUME TInv, NEW p \in Caller, CallerStep(p) PROVE TInv'
<1> DEFINE x == caller[p]
<1>1. /\ x \in Call /\ Whole(x.new) /\ caller \in [Caller -> Call]
      /\ \A q \in Caller : Whole(caller[q].new)
  BY DEF TInv, TypeOK, AllWhole
<1>2. ASSUME NEW want \in Wants, Plan(p, want) PROVE TInv'
  <2>1. \A q \in Caller : [caller[q] EXCEPT !.undisturbed = FALSE] \in Call
    BY <1>1 DEF Call
  <2>2. [Idle EXCEPT !.at = "planned", !.want = want, !.old = dag, !.undisturbed = Quiet(p)] \in Call
    BY ConstantTypes DEF Call, TInv, TypeOK, Quiet
  <2>3. \A q \in Caller : caller'[q].new = IF q # p THEN caller[q].new ELSE None
    BY <1>1, <1>2, ConstantTypes DEF Plan, Call
  <2>4. caller' \in [Caller -> Call] /\ \A q \in Caller : Whole(caller'[q].new)
    BY <1>1, <1>2, <2>1, <2>2, <2>3, ConstantTypes DEF Plan
  <2>5. /\ UNCHANGED <<config, cache, dag, lock, ticker, up, suspect, crashes>>
        /\ calls' \in 0..MaxCalls
    BY <1>2, BoundAssumption DEF Plan, TInv, TypeOK
  <2> QED
    BY <2>4, <2>5, CallerChanges
<1>3. CASE Resolve(p)
  <2>1. [x EXCEPT !.at = "done"] \in Call /\ [x EXCEPT !.at = "done"].new = x.new
    BY <1>1 DEF Call
  <2>2. [x EXCEPT !.at = "failed"] \in Call /\ [x EXCEPT !.at = "failed"].new = x.new
    BY <1>1 DEF Call
  <2> DEFINE drop == [c \in Coll |-> IF c \in Deletes(x) THEN dag[c] ELSE NoSchema]
             y == [x EXCEPT !.at = "working", !.new = Planned(x), !.drop = drop]
  <2>3. ASSUME Acceptable(x) PROVE y \in Call /\ Whole(y.new)
    <3>1. Planned(x) \in Configs /\ Whole(Planned(x))
      BY <1>1, <2>3, PlannedType
    <3>2. drop \in Configs
      BY DEF TInv, TypeOK, Configs
    <3> HIDE DEF drop
    <3> QED
      BY <1>1, <3>1, <3>2 DEF Call
  <2>4. UNCHANGED <<config, cache, dag, lock, ticker, up, suspect, calls, crashes>>
    BY <1>3 DEF Resolve
  <2>5. \/ caller' = [caller EXCEPT ![p] = [x EXCEPT !.at = "done"]]
        \/ caller' = [caller EXCEPT ![p] = [x EXCEPT !.at = "failed"]]
        \/ Acceptable(x) /\ caller' = [caller EXCEPT ![p] = y]
    BY <1>3 DEF Resolve
  <2> HIDE DEF x, y
  <2> QED
    BY <1>1, <2>1, <2>2, <2>3, <2>4, <2>5, OneCallChanges
<1>4. CASE Skip(p)
  <2>1. PICK c \in Coll : caller' = [caller EXCEPT ![p] = [x EXCEPT !.new = [x.new EXCEPT ![c] = NoSchema]]]
    BY <1>4 DEF Skip, NextPut, Known
  <2> DEFINE y == [x EXCEPT !.new = [x.new EXCEPT ![c] = NoSchema]]
  <2>2. y \in Call /\ Whole(y.new)
    BY <1>1 DEF Call, Configs, Whole
  <2>3. UNCHANGED <<config, cache, dag, lock, ticker, up, suspect, calls, crashes>>
    BY <1>4 DEF Skip
  <2> HIDE DEF y
  <2> QED
    BY <2>1, <2>2, <2>3, OneCallChanges DEF y
<1>5. CASE Lock(p)
  <2>0. NextDrop(x) \cup NextPut(x) \subseteq Coll
    BY DEF NextPut, NextDrop, Known
  <2>1. PICK c \in NextDrop(x) \cup NextPut(x) :
          /\ caller' = [caller EXCEPT ![p] = [x EXCEPT !.at = "locked", !.coll = c]]
          /\ lock' = [lock EXCEPT ![c] = p]
    BY <1>5 DEF Lock
  <2>2. /\ [x EXCEPT !.at = "locked", !.coll = c] \in Call
        /\ [x EXCEPT !.at = "locked", !.coll = c].new = x.new
    BY <1>1, <2>0 DEF Call
  <2>3. caller' \in [Caller -> Call] /\ \A q \in Caller : Whole(caller'[q].new)
    BY <1>1, <2>1, <2>2
  <2>4. lock' \in [Coll -> Caller \cup {NoOne, Blocked}]
    BY <2>0, <2>1 DEF TInv, TypeOK
  <2> QED
    BY <1>5, <2>3, <2>4 DEF Lock, TInv, TypeOK, AllWhole, Whole, Known
<1>6. CASE Persist(p)
  <2>1. [x EXCEPT !.at = "stored"] \in Call /\ [x EXCEPT !.at = "stored"].new = x.new
    BY <1>1 DEF Call
  <2>2. caller' \in [Caller -> Call] /\ \A q \in Caller : Whole(caller'[q].new)
    BY <1>1, <1>6, <2>1 DEF Persist
  <2>3. config' \in Configs /\ Whole(config')
    BY <1>1, <1>6 DEF Persist, Configs, Whole, Call, TInv, TypeOK, AllWhole
  <2>4. ticker' \in Turn /\ ticker'.seen = ticker.seen
    BY <1>6 DEF Persist, Turn, Known, TInv, TypeOK
  <2> QED
    BY <1>6, <2>2, <2>3, <2>4 DEF Persist, TInv, TypeOK, AllWhole, Whole, Known
<1>7. CASE Store(p)
  <2> DEFINE c == x.coll
             y == [x EXCEPT !.at = "working", !.new = [x.new EXCEPT ![c] = NoSchema],
                            !.drop = [x.drop EXCEPT ![c] = NoSchema]]
  <2>1. y \in Call /\ Whole(y.new)
    BY <1>1 DEF Call, Configs, Whole
  <2>2. caller' = [caller EXCEPT ![p] = y]
    BY <1>7 DEF Store
  <2>3. caller' \in [Caller -> Call] /\ \A q \in Caller : Whole(caller'[q].new)
    <3> HIDE DEF y
    <3> QED
      BY <1>1, <2>1, <2>2
  <2>4. cache' \in Configs /\ Whole(cache')
    BY <1>1, <1>7 DEF Store, Configs, Whole, Call, TInv, TypeOK, AllWhole
  <2>5. lock' \in [Coll -> Caller \cup {NoOne, Blocked}] /\ suspect' \subseteq Coll
    BY <1>7 DEF Store, TInv, TypeOK
  <2> QED
    BY <1>7, <2>3, <2>4, <2>5 DEF Store, TInv, TypeOK, AllWhole, Whole, Known
<1>8. CASE ReadBack(p)
  <2>1. /\ [x EXCEPT !.at = "read", !.back = config] \in Call
        /\ [x EXCEPT !.at = "read", !.back = config].new = x.new
    BY <1>1 DEF Call, TInv, TypeOK
  <2> QED
    BY <1>1, <1>8, <2>1, OneCallChanges DEF ReadBack
<1>9. CASE SetDag(p)
  <2>1. \A at \in {"done", "failed"} : [x EXCEPT !.at = at] \in Call /\ [x EXCEPT !.at = at].new = x.new
    BY <1>1 DEF Call
  <2>2. PICK at \in {"done", "failed"} : caller' = [caller EXCEPT ![p] = [x EXCEPT !.at = at]]
    BY <1>9 DEF SetDag
  <2>3. caller' \in [Caller -> Call] /\ \A q \in Caller : Whole(caller'[q].new)
    BY <1>1, <2>1, <2>2
  <2>4. dag' \in Configs
    BY <1>1, <1>9 DEF SetDag, Call, TInv, TypeOK
  <2> QED
    BY <1>9, <2>3, <2>4 DEF SetDag, TInv, TypeOK, AllWhole, Whole, Known
<1>10. CASE Fail(p)
  <2>1. [x EXCEPT !.at = "failed"] \in Call /\ [x EXCEPT !.at = "failed"].new = x.new
    BY <1>1 DEF Call
  <2>2. caller' \in [Caller -> Call] /\ \A q \in Caller : Whole(caller'[q].new)
    BY <1>1, <1>10, <2>1 DEF Fail
  <2>3. lock' \in [Coll -> Caller \cup {NoOne, Blocked}]
    BY <1>10 DEF Fail, TInv, TypeOK
  <2> QED
    BY <1>10, <2>2, <2>3 DEF Fail, TInv, TypeOK, AllWhole, Whole, Known
<1> QED
  BY <1>2, <1>3, <1>4, <1>5, <1>6, <1>7, <1>8, <1>9, <1>10 DEF CallerStep

\* A turn of the ticker keeps types.
LEMMA TickerTypes == ASSUME TInv, Tick \/ TickReads \/ TickEnds PROVE TInv'
<1>1. CASE Tick
  <2>1. ticker' = [Resting EXCEPT !.on = TRUE, !.todo = Known(cache)]
    BY <1>1 DEF Tick
  <2>2. ticker' \in Turn /\ ticker'.seen = None
    BY <2>1, ConstantTypes DEF Turn, Known
  <2> QED
    BY <1>1, <2>2, ConstantTypes DEF Tick, TInv, TypeOK, AllWhole, Whole, Known
<1>2. CASE TickReads
  <2>1. PICK c \in ticker.todo :
          ticker' = [ticker EXCEPT !.todo = @ \ {c}, !.seen = [ticker.seen EXCEPT ![c] = config[c]],
                                   !.failed = @ \/ config[c] = NoSchema]
    BY <1>2 DEF TickReads
  <2>2. ticker' \in Turn /\ Whole(ticker'.seen)
    BY <2>1 DEF TInv, TypeOK, AllWhole, Whole, Turn, Configs
  <2> QED
    BY <1>2, <2>2 DEF TickReads, TInv, TypeOK, AllWhole, Whole, Known
<1>3. CASE TickEnds
  <2>1. ticker' = Resting
    BY <1>3 DEF TickEnds
  <2>2. cache' \in Configs /\ Whole(cache') /\ dag' \in Configs /\ suspect' \subseteq Coll
    BY <1>3 DEF TickEnds, TInv, TypeOK, AllWhole, Whole, Turn, Configs, Known
  <2>3. \A p \in Caller : /\ [caller[p] EXCEPT !.undisturbed = FALSE] \in Call
                          /\ [caller[p] EXCEPT !.undisturbed = FALSE].new = caller[p].new
    BY DEF Call, TInv, TypeOK
  <2>4. caller' \in [Caller -> Call] /\ \A p \in Caller : Whole(caller'[p].new)
    BY <1>3, <2>3 DEF TickEnds, TInv, TypeOK, AllWhole
  <2> QED
    BY <1>3, <2>1, <2>2, <2>4, ConstantTypes DEF TickEnds, TInv, TypeOK, AllWhole, Whole, Known
<1> QED
  BY <1>1, <1>2, <1>3

\* So do crashes, restarts and leases that end.
LEMMA ProcessTypes == ASSUME TInv, Crash \/ Open \/ Expire PROVE TInv'
<1>1. CASE Crash
  <2>1. /\ cache' = None /\ dag' = None /\ ticker' = Resting
        /\ caller' \in [Caller -> Call] /\ \A p \in Caller : Whole(caller'[p].new)
    BY <1>1, ConstantTypes DEF Crash
  <2>2. crashes' \in 0..MaxCrashes
    BY <1>1, BoundAssumption DEF Crash, TInv, TypeOK
  <2>3. lock' \in [Coll -> Caller \cup {NoOne, Blocked}]
    BY <1>1 DEF Crash, TInv, TypeOK
  <2> QED
    BY <1>1, <2>1, <2>2, <2>3, ConstantTypes DEF Crash, TInv, TypeOK, AllWhole, Whole, Known
<1>2. CASE Open
  BY <1>2 DEF Open, TInv, TypeOK, AllWhole, Whole, Known
<1>3. CASE Expire
  <2>1. lock' \in [Coll -> Caller \cup {NoOne, Blocked}]
    BY <1>3 DEF Expire, TInv, TypeOK
  <2> QED
    BY <1>3, <2>1 DEF Expire, TInv, TypeOK, AllWhole, Whole, Known
<1> QED
  BY <1>1, <1>2, <1>3

LEMMA InitTypes == Init => TInv
BY ConstantTypes, BoundAssumption DEF Init, TInv, TypeOK, AllWhole, Whole, Known

LEMMA NextTypes == TInv /\ [Next]_vars => TInv'
<1> SUFFICES ASSUME TInv, [Next]_vars PROVE TInv'
  OBVIOUS
<1>1. CASE UNCHANGED vars
  BY <1>1 DEF vars, TInv, TypeOK, AllWhole, Whole, Known
<1> QED
  BY <1>1, CallerStepTypes, TickerTypes, ProcessTypes DEF Next

\* Every variable keeps its type, and no schema with empty objects gets into
\* the store, in which they would be lost (document.go:602-612).
THEOREM TypeCorrect == Spec => []TypeOK
<1>1. TInv => TypeOK
  BY DEF TInv
<1> QED
  BY <1>1, InitTypes, NextTypes, PTL DEF Spec

-----------------------------------------------------------------------------
\* system_cdc is configured; no call drops it or stores nothing in its place.
CdcKept ==
  /\ CdcStays
  /\ \A p \in Caller :
       /\ caller[p].drop[Cdc] = NoSchema
       /\ caller[p].at = "locked" /\ caller[p].coll = Cdc => caller[p].new[Cdc] # NoSchema

\* A call works on the collection whose lock it has; what it has stored there
\* is what it was to store.
LockedByCaller ==
  \A p \in Caller :
    /\ caller[p].at \in {"locked", "stored"} => lock[caller[p].coll] = p
    /\ caller[p].at = "stored" => config[caller[p].coll] = caller[p].new[caller[p].coll]

\* What the ticker has read is what is stored, unless it was stored later.
SeenIsCurrent ==
  \A c \in Known(ticker.seen) \ ticker.late : ticker.seen[c] = config[c]

\* The inductive invariant.
IInv == TInv /\ CdcKept /\ LockedByCaller /\ SeenIsCurrent /\ CacheFollowsStore

LEMMA InitIInv == Init => IInv
<1> SUFFICES ASSUME Init PROVE IInv
  OBVIOUS
<1>1. TInv
  BY InitTypes
<1>2. Idle.at = "idle" /\ Idle.drop = None /\ None[Cdc] = NoSchema
  BY CdcAssumption DEF Idle, None
<1>3. OnlyCdc[Cdc] # NoSchema
  BY CdcAssumption, NamesAssumption DEF OnlyCdc, None
<1>4. CdcKept /\ LockedByCaller
  BY <1>2, <1>3 DEF Init, CdcKept, CdcStays, LockedByCaller
<1>5. SeenIsCurrent
  BY ConstantTypes DEF Init, SeenIsCurrent, Known, None
<1>6. CacheFollowsStore
  BY DEF Init, CacheFollowsStore
<1> QED
  BY <1>1, <1>4, <1>5, <1>6 DEF IInv

\* The fields of a call that say what it is working on.
SameWork(p) == /\ caller'[p].at = caller[p].at /\ caller'[p].coll = caller[p].coll
               /\ caller'[p].new = caller[p].new /\ caller'[p].drop = caller[p].drop

\* A step of one call leaves the work of the others alone.
LEMMA OthersWork ==
  ASSUME TInv, NEW p \in Caller, CallerStep(p), NEW q \in Caller, q # p
  PROVE  SameWork(q)
<1>1. caller \in [Caller -> Call]
  BY DEF TInv, TypeOK
<1>2. ASSUME NEW want \in Wants, Plan(p, want) PROVE SameWork(q)
  <2>1. caller'[q] = [caller[q] EXCEPT !.undisturbed = FALSE]
    BY <1>2 DEF Plan
  <2> QED
    BY <1>1, <2>1 DEF SameWork, Call
<1>3. CASE caller'[q] = caller[q]
  BY <1>3 DEF SameWork
<1> QED
  BY <1>1, <1>2, <1>3 DEF CallerStep, Resolve, Skip, Lock, Persist, Store, ReadBack, SetDag, Fail

\* What a step of a call does to its own work, and to what is shared.
LEMMA WorkOfCall ==
  ASSUME TInv, NEW p \in Caller, CallerStep(p)
  PROVE
    LET x == caller[p]
        y == caller'[p]
    IN \/ /\ UNCHANGED <<config, cache, lock, ticker, suspect>>
          /\ x.at \notin {"locked", "stored"} /\ y.at \notin {"locked", "stored"}
          /\ y.drop[Cdc] = x.drop[Cdc] \/ y.drop[Cdc] = NoSchema
       \/ /\ UNCHANGED <<config, cache, ticker, suspect>>
          /\ x.at = "working" /\ y.at = "locked"
          /\ y.new = x.new /\ y.drop = x.drop
          /\ y.coll \in NextDrop(x) \cup NextPut(x)
          /\ lock[y.coll] = NoOne /\ lock' = [lock EXCEPT ![y.coll] = p]
       \/ /\ UNCHANGED <<cache, lock, suspect>>
          /\ x.at = "locked" /\ y.at = "stored"
          /\ y.new = x.new /\ y.drop = x.drop /\ y.coll = x.coll
          /\ config' = [config EXCEPT ![x.coll] = x.new[x.coll]]
          /\ ticker'.seen = ticker.seen
          /\ ticker'.late = ticker.late \cup ({x.coll} \cap Known(ticker.seen))
       \/ /\ UNCHANGED <<config, ticker>>
          /\ x.at = "stored" /\ y.at = "working"
          /\ y.drop[Cdc] = x.drop[Cdc] \/ y.drop[Cdc] = NoSchema
          /\ cache' = [cache EXCEPT ![x.coll] = x.new[x.coll]]
          /\ lock' = [lock EXCEPT ![x.coll] = NoOne]
          /\ suspect' = suspect \ {x.coll}
       \/ /\ UNCHANGED <<config, cache, ticker, suspect>>
          /\ x.at \in {"working", "locked"} /\ y.at = "failed" /\ y.drop = x.drop
          /\ lock' = [c \in Coll |-> IF lock[c] = p THEN NoOne ELSE lock[c]]
<1> DEFINE x == caller[p]
           y == caller'[p]
<1>1. caller \in [Caller -> Call] /\ x \in Call
  BY DEF TInv, TypeOK
<1>2. ASSUME NEW want \in Wants, Plan(p, want)
      PROVE  /\ UNCHANGED <<config, cache, lock, ticker, suspect>>
             /\ x.at \notin {"locked", "stored"} /\ y.at = "planned" /\ y.drop[Cdc] = NoSchema
  <2>1. y = [Idle EXCEPT !.at = "planned", !.want = want, !.old = dag, !.undisturbed = Quiet(p)]
    BY <1>1, <1>2 DEF Plan
  <2>2. y.at = "planned" /\ y.drop[Cdc] = NoSchema
    BY <2>1, CdcAssumption DEF Idle, None
  <2> QED
    BY <1>2, <2>2 DEF Plan, Running
<1>3. ASSUME Resolve(p)
      PROVE  /\ UNCHANGED <<config, cache, lock, ticker, suspect>>
             /\ x.at \notin {"locked", "stored"} /\ y.at \notin {"locked", "stored"}
             /\ y.drop[Cdc] = x.drop[Cdc] \/ y.drop[Cdc] = NoSchema
  <2>1. Cdc \notin Deletes(x)
    BY DEF Deletes
  <2> QED
    BY <1>1, <1>3, <2>1, CdcAssumption DEF Resolve, Call
<1>4. ASSUME Skip(p) \/ ReadBack(p) \/ SetDag(p)
      PROVE  /\ UNCHANGED <<config, cache, lock, ticker, suspect>>
             /\ x.at \notin {"locked", "stored"} /\ y.at \notin {"locked", "stored"} /\ y.drop = x.drop
  BY <1>1, <1>4 DEF Skip, ReadBack, SetDag, Call
<1>5. ASSUME Lock(p)
      PROVE  /\ UNCHANGED <<config, cache, ticker, suspect>>
             /\ x.at = "working" /\ y.at = "locked"
             /\ y.new = x.new /\ y.drop = x.drop
             /\ y.coll \in NextDrop(x) \cup NextPut(x)
             /\ lock[y.coll] = NoOne /\ lock' = [lock EXCEPT ![y.coll] = p]
  <2>1. PICK c \in NextDrop(x) \cup NextPut(x) :
          /\ caller' = [caller EXCEPT ![p] = [x EXCEPT !.at = "locked", !.coll = c]]
          /\ lock[c] = NoOne /\ lock' = [lock EXCEPT ![c] = p]
    BY <1>5 DEF Lock
  <2>2. /\ y.at = "locked" /\ y.new = x.new /\ y.drop = x.drop /\ y.coll = c
    BY <1>1, <2>1 DEF Call
  <2> QED
    BY <1>5, <2>1, <2>2 DEF Lock
<1>6. ASSUME Persist(p)
      PROVE  /\ UNCHANGED <<cache, lock, suspect>>
             /\ x.at = "locked" /\ y.at = "stored"
             /\ y.new = x.new /\ y.drop = x.drop /\ y.coll = x.coll
             /\ config' = [config EXCEPT ![x.coll] = x.new[x.coll]]
             /\ ticker'.seen = ticker.seen
             /\ ticker'.late = ticker.late \cup ({x.coll} \cap Known(ticker.seen))
  BY <1>1, <1>6 DEF Persist, Call, TInv, TypeOK, Turn
<1>7. ASSUME Store(p)
      PROVE  /\ UNCHANGED <<config, ticker>>
             /\ x.at = "stored" /\ y.at = "working"
             /\ y.drop[Cdc] = x.drop[Cdc] \/ y.drop[Cdc] = NoSchema
             /\ cache' = [cache EXCEPT ![x.coll] = x.new[x.coll]]
             /\ lock' = [lock EXCEPT ![x.coll] = NoOne]
             /\ suspect' = suspect \ {x.coll}
  <2>1. y = [x EXCEPT !.at = "working", !.new = [x.new EXCEPT ![x.coll] = NoSchema],
                      !.drop = [x.drop EXCEPT ![x.coll] = NoSchema]]
    BY <1>1, <1>7 DEF Store
  <2>2. y.at = "working" /\ (y.drop[Cdc] = x.drop[Cdc] \/ y.drop[Cdc] = NoSchema)
    BY <1>1, <2>1, CdcAssumption DEF Call, Configs
  <2> QED
    BY <1>7, <2>2 DEF Store
<1>8. ASSUME Fail(p)
      PROVE  /\ UNCHANGED <<config, cache, ticker, suspect>>
             /\ x.at \in {"working", "locked"} /\ y.at = "failed" /\ y.drop = x.drop
             /\ lock' = [c \in Coll |-> IF lock[c] = p THEN NoOne ELSE lock[c]]
  BY <1>1, <1>8 DEF Fail, Call
<1> QED
  BY <1>2, <1>3, <1>4, <1>5, <1>6, <1>7, <1>8 DEF CallerStep

\* A step of a call keeps system_cdc.
LEMMA CallerKeepsCdc == ASSUME IInv, NEW p \in Caller, CallerStep(p) PROVE CdcKept'
<1> USE DEF IInv, CdcKept, CdcStays
<1>1. \A q \in Caller \ {p} : SameWork(q)
  BY OthersWork
<1>2. config \in Configs
  BY DEF TInv, TypeOK
<1>3. config'[Cdc] # NoSchema
  BY <1>2, WorkOfCall, CdcAssumption DEF Configs
<1>4. caller'[p].drop[Cdc] = NoSchema
  BY WorkOfCall
<1>5. caller'[p].at = "locked" /\ caller'[p].coll = Cdc => caller'[p].new[Cdc] # NoSchema
  BY WorkOfCall DEF NextDrop, NextPut, Known
<1> QED
  BY <1>1, <1>3, <1>4, <1>5 DEF SameWork

\* A step of a call respects the locks, and stores what it was to store.
LEMMA CallerLocks == ASSUME IInv, NEW p \in Caller, CallerStep(p) PROVE LockedByCaller'
<1> USE DEF IInv, LockedByCaller
<1>1. \A q \in Caller \ {p} : SameWork(q)
  BY OthersWork
<1>2. /\ config \in Configs /\ lock \in [Coll -> Caller \cup {NoOne, Blocked}]
      /\ \A q \in Caller : caller[q].coll \in Coll
  BY DEF TInv, TypeOK, Call
<1>3. NextDrop(caller[p]) \cup NextPut(caller[p]) \subseteq Coll /\ NoOne \notin Caller
  BY NamesAssumption DEF NextDrop, NextPut, Known
<1>4. /\ caller'[p].at \in {"locked", "stored"} => lock'[caller'[p].coll] = p
      /\ caller'[p].at = "stored" => config'[caller'[p].coll] = caller'[p].new[caller'[p].coll]
  BY <1>2, <1>3, WorkOfCall DEF Configs
<1>5. ASSUME NEW q \in Caller \ {p}, caller[q].at \in {"locked", "stored"}
      PROVE  lock'[caller[q].coll] = q
  <2>1. lock[caller[q].coll] = q
    BY <1>5
  <2> QED
    BY <1>2, <1>3, <2>1, WorkOfCall
<1>6. ASSUME NEW q \in Caller \ {p}, caller[q].at = "stored"
      PROVE  config'[caller[q].coll] = caller[q].new[caller[q].coll]
  <2>1. lock[caller[q].coll] = q /\ config[caller[q].coll] = caller[q].new[caller[q].coll]
    BY <1>6
  <2>2. caller[p].at = "locked" => caller[p].coll # caller[q].coll
    BY <2>1
  <2> QED
    BY <1>2, <2>1, <2>2, WorkOfCall DEF Configs
<1> QED
  BY <1>1, <1>4, <1>5, <1>6 DEF SameWork

\* What is stored after the ticker read it is noted as late.
LEMMA CallerSeen == ASSUME IInv, NEW p \in Caller, CallerStep(p) PROVE SeenIsCurrent'
<1>1. config \in Configs
  BY DEF IInv, TInv, TypeOK
<1> QED
  BY <1>1, WorkOfCall DEF IInv, SeenIsCurrent, Known, Configs

\* A step of a call leaves the cache behind the store at most where it has
\* stored and not cached yet.
LEMMA CallerCache == ASSUME IInv, NEW p \in Caller, CallerStep(p) PROVE CacheFollowsStore'
<1>0. TInv
  BY DEF IInv
<1>1. \A q \in Caller \ {p} : SameWork(q)
  BY <1>0, OthersWork
<1>2. /\ config \in Configs /\ cache \in Configs /\ caller[p].coll \in Coll
      /\ caller[p].at = "stored" => config[caller[p].coll] = caller[p].new[caller[p].coll]
  BY DEF IInv, TInv, TypeOK, Call, LockedByCaller
<1> DEFINE c == caller[p].coll
           StoredBy(q, d) == caller[q].at = "stored" /\ caller[q].coll = d
<1>3. ASSUME NEW d \in Known(cache') \ suspect', d = c,
             caller[p].at \in {"locked", "stored"}, caller'[p].at \in {"stored", "working"}
      PROVE  (\E q \in Caller : StoredBy(q, d)') \/ cache'[d] = config'[d]
  <2>1. CASE caller[p].at = "locked"
    <3>1. caller'[p].at = "stored" /\ caller'[p].coll = caller[p].coll
      BY <1>0, <1>3, <2>1, WorkOfCall
    <3> QED
      BY <1>3, <3>1
  <2>2. CASE caller[p].at = "stored"
    <3>1. config' = config /\ cache' = [cache EXCEPT ![c] = caller[p].new[c]]
      BY <1>0, <2>2, WorkOfCall
    <3> QED
      BY <1>2, <1>3, <2>2, <3>1 DEF Configs
  <2> QED
    BY <1>3, <2>1, <2>2
<1>4. ASSUME NEW d \in Known(cache') \ suspect',
             (UNCHANGED <<config, cache, suspect>> /\ caller[p].at # "stored") \/ d # c
      PROVE  (\E q \in Caller : StoredBy(q, d)') \/ cache'[d] = config'[d]
  <2>1. d \in Known(cache) \ suspect /\ cache'[d] = cache[d] /\ config'[d] = config[d]
    BY <1>0, <1>2, <1>4, WorkOfCall DEF Known, Configs
  <2>2. CASE cache[d] = config[d]
    BY <2>1, <2>2
  <2>3. ASSUME NEW q \in Caller, StoredBy(q, d) PROVE \E r \in Caller : StoredBy(r, d)'
    <3>1. q # p
      BY <1>4, <2>3
    <3> QED
      BY <1>1, <2>3, <3>1 DEF SameWork
  <2> QED
    BY <2>1, <2>2, <2>3 DEF IInv, CacheFollowsStore
<1>5. \/ UNCHANGED <<config, cache, suspect>> /\ caller[p].at # "stored"
      \/ caller[p].at \in {"locked", "stored"} /\ caller'[p].at \in {"stored", "working"}
  BY <1>0, WorkOfCall
<1> HIDE DEF c
<1> QED
  BY <1>3, <1>4, <1>5 DEF CacheFollowsStore

\* The ticker keeps the invariant: what it caches is what is stored, or late.
LEMMA TickerIInv == ASSUME IInv, Tick \/ TickReads \/ TickEnds
                    PROVE  (CdcKept /\ LockedByCaller /\ SeenIsCurrent /\ CacheFollowsStore)'
<1>1. caller \in [Caller -> Call] /\ config \in Configs /\ cache \in Configs /\ ticker \in Turn
  BY DEF IInv, TInv, TypeOK
<1>2. \A p \in Caller : SameWork(p)
  <2>1. CASE TickEnds
    <3>1. \A p \in Caller : caller'[p] \in {caller[p], [caller[p] EXCEPT !.undisturbed = FALSE]}
      BY <2>1 DEF TickEnds
    <3> QED
      BY <1>1, <3>1 DEF SameWork, Call
  <2>2. CASE caller' = caller
    BY <2>2 DEF SameWork
  <2> QED
    BY <2>1, <2>2 DEF Tick, TickReads
<1>3. UNCHANGED <<config, lock>>
  BY DEF Tick, TickReads, TickEnds
<1>4. CdcKept' /\ LockedByCaller'
  BY <1>2, <1>3 DEF IInv, CdcKept, CdcStays, LockedByCaller, SameWork
<1>5. CASE Tick
  <2>1. ticker'.seen = None
    BY <1>5, ConstantTypes DEF Tick, Turn
  <2> QED
    BY <1>3, <1>4, <1>5, <2>1 DEF Tick, SeenIsCurrent, CacheFollowsStore, Known, None, IInv
<1>6. CASE TickReads
  <2>1. PICK c \in ticker.todo :
          ticker' = [ticker EXCEPT !.todo = @ \ {c}, !.seen = [ticker.seen EXCEPT ![c] = config[c]],
                                   !.failed = @ \/ config[c] = NoSchema]
    BY <1>6 DEF TickReads
  <2>2. ticker'.seen = [ticker.seen EXCEPT ![c] = config[c]] /\ ticker'.late = ticker.late
    BY <1>1, <2>1 DEF Turn
  <2>3. SeenIsCurrent'
    BY <1>1, <1>3, <2>2 DEF IInv, SeenIsCurrent, Known, Turn, Configs
  <2>4. CacheFollowsStore'
    BY <1>6 DEF TickReads, IInv, CacheFollowsStore, Known
  <2> QED
    BY <1>4, <2>3, <2>4
<1>7. CASE TickEnds
  <2>1. SeenIsCurrent'
    BY <1>7, ConstantTypes DEF TickEnds, SeenIsCurrent, Known, None
  <2>2. ASSUME NEW c \in Known(cache') \ suspect'
        PROVE  (\E p \in Caller : caller'[p].at = "stored" /\ caller'[p].coll = c) \/ cache'[c] = config'[c]
    <3>1. CASE ~ticker.failed /\ c \in Known(ticker.seen)
      BY <1>3, <1>7, <2>2, <3>1 DEF TickEnds, IInv, SeenIsCurrent, Known
    <3>2. CASE ticker.failed \/ c \notin Known(ticker.seen)
      <4>1. c \in Known(cache) \ suspect /\ cache'[c] = cache[c]
        BY <1>1, <1>7, <2>2, <3>2 DEF TickEnds, Known, Configs
      <4> QED
        BY <1>2, <1>3, <4>1 DEF SameWork, IInv, CacheFollowsStore
    <3> QED
      BY <3>1, <3>2
  <2>3. CacheFollowsStore'
    BY <2>2 DEF CacheFollowsStore
  <2> QED
    BY <1>4, <2>1, <2>3
<1> QED
  BY <1>5, <1>6, <1>7

\* A crash forgets all work and the cache; the store and system_cdc outlive it.
LEMMA ProcessIInv == ASSUME IInv, Crash \/ Open \/ Expire
                     PROVE  (CdcKept /\ LockedByCaller /\ SeenIsCurrent /\ CacheFollowsStore)'
<1>1. CASE Crash
  <2>1. Idle.at = "idle" /\ Idle.drop[Cdc] = NoSchema
    BY CdcAssumption DEF Idle, None
  <2>2. CdcKept' /\ LockedByCaller'
    BY <1>1, <2>1 DEF Crash, IInv, CdcKept, CdcStays, LockedByCaller
  <2>3. SeenIsCurrent' /\ CacheFollowsStore'
    BY <1>1, ConstantTypes DEF Crash, SeenIsCurrent, CacheFollowsStore, Known, None
  <2> QED
    BY <2>2, <2>3
<1>2. CASE Open
  BY <1>2 DEF Open, IInv, CdcKept, CdcStays, LockedByCaller, SeenIsCurrent, CacheFollowsStore, Known
<1>3. CASE Expire
  <2>1. PICK c \in Coll : lock[c] = Blocked /\ lock' = [lock EXCEPT ![c] = NoOne]
    BY <1>3 DEF Expire
  <2>2. /\ \A p \in Caller : caller[p].coll \in Coll /\ p # Blocked
        /\ lock \in [Coll -> Caller \cup {NoOne, Blocked}]
    BY NamesAssumption DEF IInv, TInv, TypeOK, Call
  <2>3. LockedByCaller'
    BY <1>3, <2>1, <2>2 DEF Expire, IInv, LockedByCaller
  <2> QED
    BY <1>3, <2>3 DEF Expire, IInv, CdcKept, CdcStays, SeenIsCurrent, CacheFollowsStore, Known
<1> QED
  BY <1>1, <1>2, <1>3

\* Every step preserves the invariant.
LEMMA NextIInv == IInv /\ [Next]_vars => IInv'
<1> SUFFICES ASSUME IInv, [Next]_vars PROVE IInv'
  OBVIOUS
<1>1. TInv'
  BY NextTypes DEF IInv
<1>2. CASE UNCHANGED vars
  BY <1>1, <1>2 DEF vars, IInv, CdcKept, CdcStays, LockedByCaller, SeenIsCurrent,
                    CacheFollowsStore, Known
<1>3. CASE \E p \in Caller : CallerStep(p)
  BY <1>1, <1>3, CallerKeepsCdc, CallerLocks, CallerSeen, CallerCache DEF IInv
<1>4. CASE Tick \/ TickReads \/ TickEnds \/ Crash \/ Open \/ Expire
  BY <1>1, <1>4, TickerIInv, ProcessIInv DEF IInv
<1> QED
  BY <1>2, <1>3, <1>4 DEF Next

\* The collection of changes stays configured, whatever is planned, raced,
\* interrupted or restarted (calcConfigPlan, db.go:491-493).
THEOREM CdcRemains == Spec => []CdcStays
<1>1. IInv => CdcStays
  BY DEF IInv, CdcKept
<1> QED
  BY <1>1, InitIInv, NextIInv, PTL DEF Spec

\* Outside the window between db.go:92 and db.go:99, and outside a call that
\* has stored and not cached yet, what is cached is what is stored.
THEOREM CacheIsStored == Spec => []CacheFollowsStore
<1>1. IInv => CacheFollowsStore
  BY DEF IInv
<1> QED
  BY <1>1, InitIInv, NextIInv, PTL DEF Spec

-----------------------------------------------------------------------------
(***************************************************************************)
(* What an undisturbed call does.  For every collection it keeps that      *)
(* either nothing is left to do and the store is as wanted, or what is     *)
(* left is to store what is wanted, or to drop what is not.                *)
(***************************************************************************)

\* Schemas are given for collections other than system_cdc, which only Open
\* configures: naming exactly the collections there are, system_cdc included,
\* is the early return of calcConfigPlan, whatever their schemas say.
NoneWantsCdc == \A want \in Wants : Cdc \notin DOMAIN want

\* What the store says of c is what call x wants.
Met(x, c) == IF c \in DOMAIN x.want THEN config[c] = Created(x.want[c])
             ELSE c = Cdc \/ config[c] = NoSchema

\* What call x has left to do for c.
Nothing(x, c) == x.new[c] = NoSchema /\ x.drop[c] = NoSchema
ToPut(x, c) == c \in DOMAIN x.want /\ x.new[c] = Created(x.want[c]) /\ x.drop[c] = NoSchema
ToDrop(x, c) == c \notin DOMAIN x.want \cup {Cdc} /\ x.new[c] = NoSchema /\ x.drop[c] # NoSchema
Due(x, c) == (Nothing(x, c) /\ Met(x, c)) \/ ToPut(x, c) \/ ToDrop(x, c)

AllMet(x) == \A c \in Coll : Met(x, c)
AllDue(x) == \A c \in Coll : Due(x, c)

\* While call x works on a collection that it has stored and not cached.
HalfDone(x) == \A c \in Coll : IF c = x.coll THEN config[c] = x.new[c] /\ Met(x, c)
                               ELSE cache[c] = config[c] /\ Due(x, c)

\* Where a call stands, by how far it is.
Planning(x) == config = x.old /\ cache = config /\ dag = config
Stage(x) ==
  /\ x.at = "planned" => Planning(x)
  /\ x.at \in {"working", "locked"} => AllDue(x) /\ cache = config
  /\ x.at = "locked" => ~Nothing(x, x.coll)
  /\ x.at = "stored" => HalfDone(x)
  /\ x.at = "read" => x.back = config /\ AllMet(x) /\ cache = config
  /\ x.at = "done" => AllMet(x) /\ cache = config /\ dag = config

OnItsOwn(p) == up /\ \A q \in Caller \ {p} : ~Running(q)
CourseInv == \A p \in Caller : caller[p].undisturbed => OnItsOwn(p) /\ Stage(caller[p])

\* When everything wanted is met, the store is the target of the call.
LEMMA MetIsTarget == ASSUME TInv, NEW x \in Call, AllMet(x) PROVE config = Target(x)
BY DEF TInv, TypeOK, AllMet, Met, Target, Configs

\* A schema that is as wanted, in the store, is as it would be created.
LEMMA StoredAsWanted ==
  ASSUME TInv, NEW x \in Call, NEW c \in DOMAIN x.want, c \in Coll,
         config[c] # NoSchema, config[c] = x.want[c]
  PROVE  config[c] = Created(x.want[c])
<1>1. config[c] \in Schema /\ ~config[c].empty
  BY DEF TInv, TypeOK, AllWhole, Whole, Configs
<1> QED
  BY <1>1 DEF Created, Schema

\* A schema changed by how the wanted one differs from it is the wanted one.
LEMMA EditedAsWanted ==
  ASSUME NEW s \in Schema, ~s.empty, NEW w \in Schema
  PROVE  Edited(s, s, w) = Created(w)
<1>1. PICK e : e = Edited(s, s, w)
  OBVIOUS
<1>2. PICK d : d = Created(w)
  OBVIOUS
<1>3. e \in Schema /\ e.refs = w.refs /\ e.text = w.text /\ ~e.empty
  BY <1>1 DEF Edited, Schema
<1>4. d \in Schema /\ d.refs = w.refs /\ d.text = w.text /\ ~d.empty
  BY <1>2 DEF Created, Schema
<1>5. e = d
  BY <1>3, <1>4 DEF Schema
<1> QED
  BY <1>1, <1>2, <1>5

\* What is wanted are schemas of collections other than system_cdc.
LEMMA WantTypes ==
  ASSUME NoneWantsCdc, NEW x \in Call
  PROVE  Cdc \notin DOMAIN x.want /\ \A c \in DOMAIN x.want : c \in Coll /\ x.want[c] \in Schema
<1>1. CASE x.want = << >>
  <2>0. << >> \in Seq(Coll) /\ Len(<< >>) = 0
    OBVIOUS
  <2>1. DOMAIN << >> = 1..Len(<< >>)
    BY <2>0
  <2> QED
    BY <1>1, <2>0, <2>1
<1>2. CASE x.want \in Wants
  BY <1>2, WantsAssumption DEF NoneWantsCdc
<1> QED
  BY <1>1, <1>2 DEF Call

\* A call that resolves its plan knows what is left to do.
LEMMA ResolveStage ==
  ASSUME IInv, NoneWantsCdc, NEW p \in Caller, Resolve(p), Stage(caller[p])
  PROVE  Stage(caller[p])'
<1>0. TInv
  BY DEF IInv
<1>1. PICK x : x = caller[p]
  OBVIOUS
<1>2. x \in Call /\ x.at = "planned" /\ caller \in [Caller -> Call]
  BY <1>0, <1>1 DEF Resolve, TInv, TypeOK
<1>3. config = x.old /\ cache = config /\ dag = config
  BY <1>1, <1>2 DEF Stage, Planning
<1>4. UNCHANGED <<config, cache, dag>> /\ config \in Configs
  BY <1>0 DEF Resolve, TInv, TypeOK
<1>5. Cdc \notin DOMAIN x.want /\ \A c \in DOMAIN x.want : c \in Coll /\ x.want[c] \in Schema
  BY <1>2, WantTypes
<1>6. Cdc \in Known(x.old) /\ NoSchema \notin Schema
  BY <1>3, CdcAssumption, NamesAssumption DEF IInv, CdcKept, CdcStays, Known
<1>7. ASSUME NEW c \in Coll, c \notin Deletes(x) \cup Creates(x) \cup Replaces(x)
      PROVE  Met(x, c)
  <2>1. CASE c \in DOMAIN x.want
    <3>1. config[c] # NoSchema /\ config[c] = x.want[c]
      BY <1>3, <1>7, <2>1 DEF Creates, Replaces, Known
    <3> QED
      BY <1>0, <1>2, <2>1, <3>1, StoredAsWanted DEF Met
  <2>2. CASE c \notin DOMAIN x.want
    BY <1>3, <1>7, <2>2 DEF Deletes, Known, Met
  <2> QED
    BY <2>1, <2>2
<1>8. CASE NothingToDo(x)
  <2>1. AllMet(x)
    BY <1>5, <1>6, <1>7, <1>8 DEF NothingToDo, AllMet
  <2>2. PICK y : y = caller'[p]
    OBVIOUS
  <2>3. y = [x EXCEPT !.at = "done"]
    BY <1>1, <1>2, <1>8, <2>2 DEF Resolve
  <2>4. y.at = "done" /\ y.want = x.want
    BY <1>2, <2>3 DEF Call
  <2> QED
    BY <1>3, <1>4, <2>1, <2>2, <2>4 DEF Stage, AllMet, Met
<1>9. CASE ~NothingToDo(x) /\ ~Acceptable(x)
  <2>1. caller'[p] = [x EXCEPT !.at = "failed"]
    BY <1>1, <1>2, <1>9 DEF Resolve
  <2>2. caller'[p].at = "failed"
    BY <1>2, <2>1 DEF Call
  <2> QED
    BY <2>2 DEF Stage
<1>10. CASE ~NothingToDo(x) /\ Acceptable(x)
  <2> DEFINE drop == [c \in Coll |-> IF c \in Deletes(x) THEN dag[c] ELSE NoSchema]
  <2>1. PICK y : y = caller'[p]
    OBVIOUS
  <2>2. y = [x EXCEPT !.at = "working", !.new = Planned(x), !.drop = drop]
    BY <1>1, <1>2, <1>10, <2>1 DEF Resolve
  <2>3. y.at = "working" /\ y.want = x.want /\ y.new = Planned(x) /\ y.drop = drop
    BY <1>2, <2>2 DEF Call
  <2>4. ASSUME NEW c \in Coll PROVE Due(y, c)
    <3>1. CASE c \in Creates(x)
      <4>1. c \in DOMAIN x.want /\ y.new[c] = Created(x.want[c]) /\ y.drop[c] = NoSchema
        BY <2>3, <3>1 DEF Creates, Deletes, Planned
      <4> QED
        BY <2>3, <4>1 DEF Due, ToPut
    <3>2. CASE c \in Replaces(x)
      <4>1. /\ c \in DOMAIN x.want /\ y.drop[c] = NoSchema
            /\ y.new[c] = Edited(config[c], config[c], x.want[c]) /\ config[c] # NoSchema
        BY <1>3, <2>3, <3>2 DEF Creates, Replaces, Deletes, Planned, Known
      <4>2. config[c] \in Schema /\ ~config[c].empty /\ x.want[c] \in Schema
        BY <1>0, <1>4, <1>5, <4>1 DEF Configs, TInv, AllWhole, Whole
      <4> QED
        BY <2>3, <4>1, <4>2, EditedAsWanted DEF Due, ToPut
    <3>3. CASE c \in Deletes(x)
      <4>1. c \notin DOMAIN x.want \cup {Cdc} /\ y.new[c] = NoSchema /\ y.drop[c] # NoSchema
        BY <1>3, <2>3, <3>3 DEF Creates, Replaces, Deletes, Planned, Known
      <4> QED
        BY <2>3, <4>1 DEF Due, ToDrop
    <3>4. CASE c \notin Deletes(x) \cup Creates(x) \cup Replaces(x)
      <4>1. y.new[c] = NoSchema /\ y.drop[c] = NoSchema /\ Met(x, c)
        BY <1>7, <2>3, <3>4 DEF Planned
      <4> QED
        BY <2>3, <4>1 DEF Due, Nothing, Met
    <3> QED
      BY <3>1, <3>2, <3>3, <3>4
  <2>5. AllDue(y) /\ y.at = "working"
    BY <2>3, <2>4 DEF AllDue
  <2> QED
    BY <1>3, <1>4, <2>1, <2>5 DEF Stage, AllDue, Due, Met, Nothing, ToPut, ToDrop
<1> QED
  BY <1>8, <1>9, <1>10

\* A collection that is taken up is one that something is left to do for.
LEMMA NextHasWork ==
  ASSUME NEW x \in Call, NEW c \in NextDrop(x) \cup NextPut(x)
  PROVE  c \in Coll /\ ~Nothing(x, c)
BY DEF NextDrop, NextPut, Known, Nothing

\* A collection that is cached as it is to be stored is as wanted.
LEMMA SkipStage ==
  ASSUME IInv, NEW p \in Caller, Skip(p), Stage(caller[p])
  PROVE  Stage(caller[p])'
<1>1. PICK x : x = caller[p]
  OBVIOUS
<1>2. x \in Call /\ x.at = "working" /\ caller \in [Caller -> Call] /\ cache \in Configs
  BY <1>1 DEF Skip, IInv, TInv, TypeOK
<1>3. AllDue(x) /\ cache = config
  BY <1>1, <1>2 DEF Stage
<1>4. PICK c \in NextPut(x) :
        /\ cache[c] = x.new[c]
        /\ caller' = [caller EXCEPT ![p] = [x EXCEPT !.new = [x.new EXCEPT ![c] = NoSchema]]]
  BY <1>1 DEF Skip
<1>5. PICK y : y = caller'[p]
  OBVIOUS
<1>6. y = [x EXCEPT !.new = [x.new EXCEPT ![c] = NoSchema]]
  BY <1>2, <1>4, <1>5
<1>7. /\ y.at = "working" /\ y.want = x.want /\ y.drop = x.drop
      /\ y.new = [x.new EXCEPT ![c] = NoSchema] /\ x.new \in Configs
  BY <1>2, <1>6 DEF Call
<1>8. UNCHANGED <<config, cache, dag>>
  BY DEF Skip
<1>9. ASSUME NEW d \in Coll PROVE Due(y, d)
  <2>1. Due(x, d)
    BY <1>3 DEF AllDue
  <2>2. CASE d # c
    <3>1. y.new[d] = x.new[d]
      BY <1>7, <2>2 DEF Configs
    <3> QED
      BY <1>7, <2>1, <3>1 DEF Due, Nothing, Met, ToPut, ToDrop
  <2>3. CASE d = c
    <3>1. y.new[c] = NoSchema /\ x.new[c] # NoSchema
      BY <1>4, <1>7, <2>3 DEF Configs, NextPut, Known
    <3>2. c \in DOMAIN x.want /\ x.new[c] = Created(x.want[c]) /\ x.drop[c] = NoSchema
      BY <2>1, <2>3, <3>1 DEF Due, Nothing, ToPut, ToDrop
    <3> QED
      BY <1>3, <1>4, <1>7, <2>3, <3>1, <3>2 DEF Due, Nothing, Met
  <2> QED
    BY <2>2, <2>3
<1>10. AllDue(y)
  BY <1>9 DEF AllDue
<1> QED
  BY <1>3, <1>5, <1>7, <1>8, <1>10 DEF Stage, AllDue, Due, Nothing, Met, ToPut, ToDrop

\* To lock a collection changes nothing of what is left to do.
LEMMA LockStage ==
  ASSUME IInv, NEW p \in Caller, Lock(p), Stage(caller[p])
  PROVE  Stage(caller[p])'
<1>1. PICK x : x = caller[p]
  OBVIOUS
<1>2. x \in Call /\ x.at = "working" /\ caller \in [Caller -> Call]
  BY <1>1 DEF Lock, IInv, TInv, TypeOK
<1>3. AllDue(x) /\ cache = config
  BY <1>1, <1>2 DEF Stage
<1>4. PICK c \in NextDrop(x) \cup NextPut(x) :
        caller' = [caller EXCEPT ![p] = [x EXCEPT !.at = "locked", !.coll = c]]
  BY <1>1 DEF Lock
<1>5. PICK y : y = caller'[p]
  OBVIOUS
<1>6. y = [x EXCEPT !.at = "locked", !.coll = c]
  BY <1>2, <1>4, <1>5
<1>7. /\ y.at = "locked" /\ y.want = x.want /\ y.drop = x.drop /\ y.new = x.new
      /\ y.coll = c
  BY <1>2, <1>6 DEF Call
<1>8. UNCHANGED <<config, cache, dag>>
  BY DEF Lock
<1>9. ~Nothing(y, y.coll)
  BY <1>2, <1>4, <1>7, NextHasWork DEF Nothing
<1>10. AllDue(y)
  BY <1>3, <1>7 DEF AllDue, Due, Nothing, Met, ToPut, ToDrop
<1> QED
  BY <1>3, <1>5, <1>7, <1>8, <1>9, <1>10 DEF Stage, AllDue, Due, Nothing, Met, ToPut, ToDrop

\* What is stored, or dropped from the store, is what was wanted.
LEMMA PersistStage ==
  ASSUME IInv, NEW p \in Caller, Persist(p), Stage(caller[p])
  PROVE  Stage(caller[p])'
<1>1. PICK x : x = caller[p]
  OBVIOUS
<1>2. x \in Call /\ x.at = "locked" /\ caller \in [Caller -> Call] /\ config \in Configs
  BY <1>1 DEF Persist, IInv, TInv, TypeOK
<1>3. AllDue(x) /\ cache = config /\ ~Nothing(x, x.coll) /\ x.coll \in Coll
  BY <1>1, <1>2 DEF Stage, Call
<1>4. PICK y : y = caller'[p]
  OBVIOUS
<1>5. y = [x EXCEPT !.at = "stored"]
  BY <1>1, <1>2, <1>4 DEF Persist
<1>6. /\ y.at = "stored" /\ y.want = x.want /\ y.drop = x.drop /\ y.new = x.new
      /\ y.coll = x.coll
  BY <1>2, <1>5 DEF Call
<1>7. UNCHANGED <<cache, dag>> /\ config' = [config EXCEPT ![x.coll] = x.new[x.coll]]
  BY <1>1 DEF Persist
<1>8. ASSUME NEW c \in Coll, c = x.coll PROVE config'[c] = x.new[c] /\ Met(x, c)'
  <2>1. config'[c] = x.new[c]
    BY <1>2, <1>3, <1>7, <1>8 DEF Configs
  <2>2. ToPut(x, c) \/ ToDrop(x, c)
    BY <1>3, <1>8 DEF AllDue, Due
  <2> QED
    BY <2>1, <2>2 DEF ToPut, ToDrop, Met
<1>9. ASSUME NEW c \in Coll, c # x.coll PROVE cache'[c] = config'[c] /\ Due(x, c)'
  <2>1. config'[c] = config[c]
    BY <1>2, <1>7, <1>9 DEF Configs
  <2>2. Due(x, c)
    BY <1>3, <1>9 DEF AllDue
  <2> QED
    BY <1>3, <1>7, <2>1, <2>2 DEF Due, Nothing, Met, ToPut, ToDrop
<1>10. HalfDone(x)'
  BY <1>8, <1>9 DEF HalfDone
<1> QED
  BY <1>4, <1>6, <1>10 DEF Stage, HalfDone, Due, Nothing, Met, ToPut, ToDrop

\* Once it is cached, nothing is left to do for a collection.
LEMMA StoreStage ==
  ASSUME IInv, NEW p \in Caller, Store(p), Stage(caller[p])
  PROVE  Stage(caller[p])'
<1>1. PICK x : x = caller[p]
  OBVIOUS
<1>2. /\ x \in Call /\ x.at = "stored" /\ caller \in [Caller -> Call]
      /\ config \in Configs /\ cache \in Configs
  BY <1>1 DEF Store, IInv, TInv, TypeOK
<1>3. HalfDone(x) /\ x.coll \in Coll
  BY <1>1, <1>2 DEF Stage, Call
<1>4. PICK y : y = caller'[p]
  OBVIOUS
<1>5. y = [x EXCEPT !.at = "working", !.new = [x.new EXCEPT ![x.coll] = NoSchema],
                    !.drop = [x.drop EXCEPT ![x.coll] = NoSchema]]
  BY <1>1, <1>2, <1>4 DEF Store
<1>6. /\ y.at = "working" /\ y.want = x.want /\ x.new \in Configs /\ x.drop \in Configs
      /\ y.new = [x.new EXCEPT ![x.coll] = NoSchema]
      /\ y.drop = [x.drop EXCEPT ![x.coll] = NoSchema]
  BY <1>2, <1>5 DEF Call
<1>7. UNCHANGED <<config, dag>> /\ cache' = [cache EXCEPT ![x.coll] = x.new[x.coll]]
  BY <1>1 DEF Store
<1>8. ASSUME NEW c \in Coll PROVE Due(y, c) /\ cache'[c] = config[c]
  <2>1. CASE c = x.coll
    <3>1. config[c] = x.new[c] /\ Met(x, c)
      BY <1>3, <2>1 DEF HalfDone
    <3>2. y.new[c] = NoSchema /\ y.drop[c] = NoSchema /\ cache'[c] = x.new[c]
      BY <1>2, <1>6, <1>7, <2>1 DEF Configs
    <3> QED
      BY <1>6, <3>1, <3>2 DEF Due, Nothing, Met
  <2>2. CASE c # x.coll
    <3>1. cache[c] = config[c] /\ Due(x, c)
      BY <1>3, <2>2 DEF HalfDone
    <3>2. y.new[c] = x.new[c] /\ y.drop[c] = x.drop[c] /\ cache'[c] = cache[c]
      BY <1>2, <1>6, <1>7, <2>2 DEF Configs
    <3> QED
      BY <1>6, <3>1, <3>2 DEF Due, Nothing, Met, ToPut, ToDrop
  <2> QED
    BY <2>1, <2>2
<1>9. AllDue(y) /\ cache' = config
  <2>1. cache' \in [Coll -> Schema \cup {NoSchema}] /\ config \in [Coll -> Schema \cup {NoSchema}]
    BY <1>2, <1>6, <1>7 DEF Configs, Call
  <2> QED
    BY <1>8, <2>1 DEF AllDue
<1> QED
  BY <1>4, <1>6, <1>7, <1>9 DEF Stage, AllDue, Due, Nothing, Met, ToPut, ToDrop

\* With nothing left to do, everything is met; what is read back is the store,
\* and becomes the graph.
LEMMA LastStage ==
  ASSUME IInv, NoneWantsCdc, NEW p \in Caller, ReadBack(p) \/ SetDag(p), Stage(caller[p])
  PROVE  Stage(caller[p])'
<1>1. PICK x : x = caller[p]
  OBVIOUS
<1>2. x \in Call /\ caller \in [Caller -> Call] /\ UNCHANGED <<config, cache>>
  BY <1>1 DEF ReadBack, SetDag, IInv, TInv, TypeOK
<1>3. PICK y : y = caller'[p]
  OBVIOUS
<1>4. CASE ReadBack(p)
  <2>1. x.at = "working" /\ Known(x.drop) \cup Known(x.new) = {}
    BY <1>1, <1>4 DEF ReadBack
  <2>2. AllDue(x) /\ cache = config
    BY <1>1, <2>1 DEF Stage
  <2>3. ASSUME NEW c \in Coll PROVE Met(x, c)
    <3>1. x.new[c] = NoSchema /\ x.drop[c] = NoSchema
      BY <2>1 DEF Known
    <3>2. ~ToPut(x, c)
      <4>1. ASSUME c \in DOMAIN x.want PROVE Created(x.want[c]) \in Schema
        BY <1>2, <4>1, WantTypes DEF Created, Schema
      <4> QED
        BY <3>1, <4>1, NamesAssumption DEF ToPut
    <3> QED
      BY <2>2, <3>1, <3>2 DEF AllDue, Due, ToDrop
  <2>4. y = [x EXCEPT !.at = "read", !.back = config]
    BY <1>1, <1>2, <1>3, <1>4 DEF ReadBack
  <2>5. y.at = "read" /\ y.want = x.want /\ y.back = config
    BY <1>2, <2>4 DEF Call
  <2> QED
    BY <1>2, <1>3, <2>2, <2>3, <2>5 DEF Stage, AllMet, Met
<1>5. CASE SetDag(p)
  <2>1. x.at = "read" /\ x.back = config /\ AllMet(x) /\ cache = config
    BY <1>1, <1>5 DEF SetDag, Stage
  <2>2. y = [x EXCEPT !.at = IF Closed(x.back) THEN "done" ELSE "failed"]
    BY <1>1, <1>2, <1>3, <1>5 DEF SetDag
  <2>3. y.at \in {"done", "failed"} /\ y.want = x.want /\ (y.at = "done" => Closed(x.back))
    BY <1>2, <2>2 DEF Call
  <2>4. y.at = "done" => dag' = config
    BY <1>1, <1>5, <2>1, <2>3 DEF SetDag
  <2> QED
    BY <1>2, <1>3, <2>1, <2>3, <2>4 DEF Stage, AllMet, Met
<1> QED
  BY <1>4, <1>5

\* Only a call that runs takes steps after Plan, and one that is undisturbed
\* runs alone.
LEMMA OnlyOne ==
  ASSUME CourseInv, NEW p \in Caller, caller[p].undisturbed, NEW q \in Caller \ {p}
  PROVE  ~(Resolve(q) \/ Skip(q) \/ Lock(q) \/ Persist(q) \/ Store(q)
             \/ ReadBack(q) \/ SetDag(q) \/ Fail(q))
<1>1. caller[q].at \in {"idle", "done", "failed"}
  BY DEF CourseInv, OnItsOwn, Running
<1> QED
  BY <1>1 DEF Resolve, Skip, Lock, Persist, Store, ReadBack, SetDag, Fail

\* What a later step of a call leaves alone: whether it is undisturbed, the
\* other calls, and the process.
LEMMA LaterStep ==
  ASSUME TInv, NEW p \in Caller,
         Resolve(p) \/ Skip(p) \/ Lock(p) \/ Persist(p) \/ Store(p)
           \/ ReadBack(p) \/ SetDag(p) \/ Fail(p)
  PROVE  /\ caller'[p].undisturbed <=> caller[p].undisturbed
         /\ \A q \in Caller \ {p} : caller'[q] = caller[q]
         /\ up' = up
<1>1. caller \in [Caller -> Call]
  BY DEF TInv, TypeOK
<1>2. PICK x : x = caller[p]
  OBVIOUS
<1>3. x \in Call
  BY <1>1, <1>2
<1>4. CASE Resolve(p)
  <2>1. \/ caller'[p] = [x EXCEPT !.at = "done"]
        \/ caller'[p] = [x EXCEPT !.at = "failed"]
        \/ \E new, drop : caller'[p] = [x EXCEPT !.at = "working", !.new = new, !.drop = drop]
    BY <1>1, <1>2, <1>4 DEF Resolve
  <2>2. caller'[p].undisturbed <=> x.undisturbed
    BY <1>3, <2>1 DEF Call
  <2> QED
    BY <1>1, <1>2, <1>4, <2>2 DEF Resolve
<1>5. CASE Skip(p)
  BY <1>1, <1>2, <1>3, <1>5 DEF Skip, Call
<1>6. CASE Lock(p)
  <2>1. PICK c \in NextDrop(x) \cup NextPut(x) :
          caller' = [caller EXCEPT ![p] = [x EXCEPT !.at = "locked", !.coll = c]]
    BY <1>2, <1>6 DEF Lock
  <2>2. caller'[p] = [x EXCEPT !.at = "locked", !.coll = c]
    BY <1>1, <2>1
  <2>3. caller'[p].undisturbed <=> x.undisturbed
    BY <1>3, <2>2 DEF Call
  <2> QED
    BY <1>1, <1>2, <1>6, <2>1, <2>3 DEF Lock
<1>7. CASE Persist(p) \/ Store(p)
  BY <1>1, <1>2, <1>3, <1>7 DEF Persist, Store, Call
<1>8. CASE ReadBack(p) \/ SetDag(p) \/ Fail(p)
  BY <1>1, <1>2, <1>3, <1>8 DEF ReadBack, SetDag, Fail, Call
<1> QED
  BY <1>4, <1>5, <1>6, <1>7, <1>8

\* A step of a call keeps what undisturbed calls rely on.
LEMMA CallerCourse ==
  ASSUME IInv, NoneWantsCdc, CourseInv, NEW p \in Caller, CallerStep(p)
  PROVE  CourseInv'
<1>0. TInv
  BY DEF IInv
<1>1. caller \in [Caller -> Call]
  BY <1>0 DEF TInv, TypeOK
<1>2. ASSUME NEW want \in Wants, Plan(p, want) PROVE CourseInv'
  <2>1. \A q \in Caller \ {p} : ~caller'[q].undisturbed
    BY <1>1, <1>2 DEF Plan, Call
  <2>2. PICK y : y = caller'[p]
    OBVIOUS
  <2>3. y = [Idle EXCEPT !.at = "planned", !.want = want, !.old = dag, !.undisturbed = Quiet(p)]
    BY <1>1, <1>2, <2>2 DEF Plan
  <2>4. y.at = "planned" /\ y.old = dag /\ (y.undisturbed <=> Quiet(p))
    BY <2>3, ConstantTypes DEF Call
  <2>5. UNCHANGED <<config, cache, dag, up>> /\ up
    BY <1>2 DEF Plan
  <2>6. ASSUME Quiet(p) PROVE OnItsOwn(p)' /\ Stage(caller[p])'
    <3>1. \A q \in Caller \ {p} : caller'[q].at = caller[q].at
      BY <1>1, <1>2 DEF Plan, Call
    <3>2. OnItsOwn(p)'
      BY <2>5, <2>6, <3>1 DEF OnItsOwn, Running, Quiet
    <3>3. Stage(caller[p])'
      BY <2>2, <2>4, <2>5, <2>6 DEF Stage, Planning, Quiet
    <3> QED
      BY <3>2, <3>3
  <2> QED
    BY <2>1, <2>2, <2>4, <2>6 DEF CourseInv
<1>3. ASSUME Resolve(p) \/ Skip(p) \/ Lock(p) \/ Persist(p) \/ Store(p)
               \/ ReadBack(p) \/ SetDag(p) \/ Fail(p)
      PROVE  CourseInv'
  <2>1. /\ caller'[p].undisturbed <=> caller[p].undisturbed
        /\ \A q \in Caller \ {p} : caller'[q] = caller[q]
        /\ up' = up
    BY <1>0, <1>3, LaterStep
  <2>2. \A q \in Caller \ {p} : ~caller'[q].undisturbed
    BY <1>3, <2>1, OnlyOne
  <2>3. ASSUME caller'[p].undisturbed PROVE OnItsOwn(p)' /\ Stage(caller[p])'
    <3>1. OnItsOwn(p) /\ Stage(caller[p])
      BY <2>1, <2>3 DEF CourseInv
    <3>2. OnItsOwn(p)'
      BY <2>1, <3>1 DEF OnItsOwn, Running
    <3>3. CASE Fail(p)
      <4>1. caller'[p] = [caller[p] EXCEPT !.at = "failed"]
        BY <1>1, <3>3 DEF Fail
      <4>2. caller'[p].at = "failed"
        BY <1>1, <4>1 DEF Call
      <4> QED
        BY <3>2, <4>2 DEF Stage
    <3>4. CASE Resolve(p) \/ Skip(p) \/ Lock(p) \/ Persist(p) \/ Store(p)
                 \/ ReadBack(p) \/ SetDag(p)
      BY <3>1, <3>2, <3>4, ResolveStage, SkipStage, LockStage, PersistStage, StoreStage, LastStage
    <3> QED
      BY <1>3, <3>3, <3>4
  <2> QED
    BY <2>2, <2>3 DEF CourseInv
<1> QED
  BY <1>2, <1>3 DEF CallerStep

\* The ticker either changes nothing a call relies on, or disturbs every call.
LEMMA TickerCourse == ASSUME TInv, CourseInv, Tick \/ TickReads \/ TickEnds
                      PROVE  CourseInv'
<1>1. caller \in [Caller -> Call]
  BY DEF TInv, TypeOK
<1>2. CASE UNCHANGED <<config, cache, dag, caller, up>>
  BY <1>2 DEF CourseInv, OnItsOwn, Running, Stage, Planning, AllDue, Due, Nothing, Met,
              ToPut, ToDrop, AllMet, HalfDone
<1>3. CASE caller' = [p \in Caller |-> [caller[p] EXCEPT !.undisturbed = FALSE]]
  BY <1>1, <1>3 DEF CourseInv, Call
<1> QED
  BY <1>2, <1>3 DEF Tick, TickReads, TickEnds

\* A crash ends every call, and no call runs before Open.
LEMMA ProcessCourse == ASSUME CourseInv, Crash \/ Open \/ Expire PROVE CourseInv'
<1>1. CASE Crash
  BY <1>1 DEF Crash, CourseInv, Idle
<1>2. CASE Open
  <2>1. \A p \in Caller : ~caller'[p].undisturbed
    BY <1>2 DEF Open, CourseInv, OnItsOwn
  <2> QED
    BY <2>1 DEF CourseInv
<1>3. CASE Expire
  BY <1>3 DEF Expire, CourseInv, OnItsOwn, Running, Stage, Planning, AllDue, Due, Nothing,
              Met, ToPut, ToDrop, AllMet, HalfDone
<1> QED
  BY <1>1, <1>2, <1>3

\* A call of Configure that starts when store, cache and graph agree, runs
\* alone and returns no error has configured what was asked for, and nothing
\* else (ConfigurePlan, db.go:248-345), when only Open configures system_cdc.
THEOREM AppliesWhatIsAskedFor ==
  ASSUME NoneWantsCdc
  PROVE  Spec => []AppliedWhenUndisturbed
<1>1. Init => CourseInv
  BY DEF Init, CourseInv, Idle
<1>2. ASSUME IInv, CourseInv, [Next]_vars PROVE CourseInv'
  <2>0. TInv
    BY <1>2 DEF IInv
  <2>1. CASE UNCHANGED vars
    BY <1>2, <2>1 DEF vars, CourseInv, OnItsOwn, Running, Stage, Planning, AllDue, Due,
                      Nothing, Met, ToPut, ToDrop, AllMet, HalfDone
  <2>2. CASE \E p \in Caller : CallerStep(p)
    BY <1>2, <2>2, NoneWantsCdc, CallerCourse
  <2>3. CASE Tick \/ TickReads \/ TickEnds \/ Crash \/ Open \/ Expire
    BY <1>2, <2>0, <2>3, TickerCourse, ProcessCourse
  <2> QED
    BY <1>2, <2>1, <2>2, <2>3 DEF Next
<1>3. ASSUME IInv, CourseInv PROVE AppliedWhenUndisturbed
  <2>1. TInv
    BY <1>3 DEF IInv
  <2>2. ASSUME NEW p \in Caller, caller[p].at = "done", caller[p].undisturbed
        PROVE  config = Target(caller[p]) /\ cache = config /\ dag = config
    <3>1. PICK x : x = caller[p]
      OBVIOUS
    <3>2. x \in Call
      BY <2>1, <3>1 DEF TInv, TypeOK
    <3>3. AllMet(x) /\ cache = config /\ dag = config
      BY <1>3, <2>2, <3>1 DEF CourseInv, Stage
    <3> QED
      BY <2>1, <3>1, <3>2, <3>3, MetIsTarget
  <2> QED
    BY <2>2 DEF AppliedWhenUndisturbed
<1>4. IInv /\ CourseInv /\ [Next]_vars => IInv' /\ CourseInv'
  BY <1>2, NextIInv
<1>5. IInv /\ CourseInv => AppliedWhenUndisturbed
  BY <1>3
<1> QED
  BY <1>1, <1>4, <1>5, InitIInv, PTL DEF Spec

-----------------------------------------------------------------------------
\* The lock of a collection, as its callers see it.
Holders(c) == {p \in Caller : lock[c] = p}
Leased(c) == lock[c] = Blocked
Promised(c) == INSTANCE Mutex WITH User <- Caller, holders <- Holders(c), lost <- Leased(c)

\* What calls, crashes and leases do to the locks.
LEMMA LockSteps ==
  ASSUME IInv, [Next]_vars
  PROVE  \/ UNCHANGED lock
         \/ \E p \in Caller, d \in Coll : lock[d] = NoOne /\ lock' = [lock EXCEPT ![d] = p]
         \/ \E p \in Caller, d \in Coll : lock[d] = p /\ lock' = [lock EXCEPT ![d] = NoOne]
         \/ \E p \in Caller : lock' = [d \in Coll |-> IF lock[d] = p THEN NoOne ELSE lock[d]]
         \/ lock' = [d \in Coll |-> IF lock[d] \in Caller THEN Blocked ELSE lock[d]]
         \/ \E d \in Coll : lock[d] = Blocked /\ lock' = [lock EXCEPT ![d] = NoOne]
<1>0. TInv /\ LockedByCaller /\ caller \in [Caller -> Call]
  BY DEF IInv, TInv, TypeOK
<1>1. ASSUME NEW p \in Caller, CallerStep(p)
      PROVE  \/ UNCHANGED lock
             \/ \E d \in Coll : lock[d] = NoOne /\ lock' = [lock EXCEPT ![d] = p]
             \/ \E d \in Coll : lock[d] = p /\ lock' = [lock EXCEPT ![d] = NoOne]
             \/ lock' = [d \in Coll |-> IF lock[d] = p THEN NoOne ELSE lock[d]]
  <2>1. CASE Lock(p)
    <3>1. NextDrop(caller[p]) \cup NextPut(caller[p]) \subseteq Coll
      BY DEF NextDrop, NextPut, Known
    <3> QED
      BY <2>1, <3>1 DEF Lock
  <2>2. CASE Store(p)
    <3>1. caller[p].coll \in Coll
      BY <1>0 DEF Call
    <3>2. lock[caller[p].coll] = p /\ lock' = [lock EXCEPT ![caller[p].coll] = NoOne]
      BY <1>0, <2>2 DEF Store, LockedByCaller
    <3> QED
      BY <3>1, <3>2
  <2>3. CASE Fail(p)
    BY <2>3 DEF Fail
  <2> QED
    BY <1>1, <2>1, <2>2, <2>3 DEF CallerStep, Plan, Resolve, Skip, Persist, ReadBack, SetDag
<1>2. CASE Tick \/ TickReads \/ TickEnds \/ Open \/ UNCHANGED vars
  BY <1>2 DEF Tick, TickReads, TickEnds, Open, vars
<1>3. CASE Crash
  BY <1>3 DEF Crash
<1>4. CASE Expire
  BY <1>4 DEF Expire
<1> QED
  BY <1>1, <1>2, <1>3, <1>4 DEF Next

\* Each of them is a step of the lock of one collection, or not seen there.
LEMMA LockRefines ==
  ASSUME IInv, [Next]_vars, NEW c \in Coll
  PROVE  [Promised(c)!Next]_<<Holders(c), Leased(c)>>
<1>0. lock \in [Coll -> Caller \cup {NoOne, Blocked}]
  BY DEF IInv, TInv, TypeOK
<1>1. CASE lock'[c] = lock[c]
  BY <1>1 DEF Holders, Leased
<1>2. ASSUME NEW p \in Caller, lock[c] = NoOne, lock'[c] = p PROVE Promised(c)!Next
  <2>1. Holders(c) = {} /\ Holders(c)' = {p} /\ Leased(c) = FALSE /\ Leased(c)' = FALSE
    BY <1>2, NamesAssumption DEF Holders, Leased
  <2> QED
    BY <2>1 DEF Promised!Next, Promised!Acquire
<1>3. ASSUME NEW p \in Caller, lock[c] = p, lock'[c] = NoOne PROVE Promised(c)!Next
  <2>1. Holders(c) = {p} /\ Holders(c)' = {} /\ Leased(c) = FALSE /\ Leased(c)' = FALSE
    BY <1>3, NamesAssumption DEF Holders, Leased
  <2> QED
    BY <2>1 DEF Promised!Next, Promised!Release
<1>4. ASSUME lock[c] \in Caller, lock'[c] = Blocked PROVE Promised(c)!Next
  <2>1. Holders(c) # {} /\ Holders(c)' = {} /\ Leased(c)' = TRUE
    BY <1>4, NamesAssumption DEF Holders, Leased
  <2> QED
    BY <2>1 DEF Promised!Next, Promised!Die
<1>5. ASSUME lock[c] = Blocked, lock'[c] = NoOne PROVE Promised(c)!Next
  <2>1. Holders(c) = {} /\ Holders(c)' = {} /\ Leased(c) = TRUE /\ Leased(c)' = FALSE
    BY <1>5, NamesAssumption DEF Holders, Leased
  <2> QED
    BY <2>1 DEF Promised!Next, Promised!Expire
<1>6. \/ lock'[c] = lock[c]
      \/ \E p \in Caller : lock[c] = NoOne /\ lock'[c] = p
      \/ \E p \in Caller : lock[c] = p /\ lock'[c] = NoOne
      \/ lock[c] \in Caller /\ lock'[c] = Blocked
      \/ lock[c] = Blocked /\ lock'[c] = NoOne
  BY <1>0, LockSteps
<1> QED
  BY <1>1, <1>2, <1>3, <1>4, <1>5, <1>6

\* However many calls of Configure run and wherever the process dies, they use
\* the lock of every collection (lockCollection, db_util.go:12-25) as the mutex
\* that LeaseLock implements: a lock is given back only by the call that has
\* it, and nobody takes it from a process that has died before its lease ends.
THEOREM LocksAsPromised == ASSUME NEW c \in Coll PROVE Spec => Promised(c)!Spec
<1>1. Init => Promised(c)!Init
  BY NamesAssumption DEF Init, Promised!Init, Holders, Leased
<1>2. IInv /\ [Next]_vars => [Promised(c)!Next]_<<Holders(c), Leased(c)>>
  BY LockRefines
<1> QED
  BY <1>1, <1>2, InitIInv, NextIInv, PTL DEF Spec, Promised!Spec
=============================================================================
