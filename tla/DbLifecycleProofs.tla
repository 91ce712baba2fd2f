------------------------- MODULE DbLifecycleProofs -------------------------
(***************************************************************************)
(* Proofs about DbLifecycle, for any number of clients, of calls of Close  *)
(* and of machines: types, and the order in which a database shuts down.   *)
(***************************************************************************)
EXTENDS DbLifecycle, TLAPS

\* A goroutine returns only because the context is done, and the store is
\* closed only after both have.
GoroutinesEndCancelled ==
  producer = "done" \/ refresher = "done" => cancelled

\* The inductive invariant.
IInv == TypeOK /\ GoroutinesEndCancelled /\ BackgroundEndsFirst

-----------------------------------------------------------------------------
\* The initial state satisfies the invariant: nothing has ended.
LEMMA InitIInv == Init => IInv
<1> SUFFICES ASSUME Init PROVE IInv
  OBVIOUS
<1>1. pool \in 0..PoolSize
  BY PoolAssumption DEF Init
<1>2. /\ cancelled \in BOOLEAN /\ kvOpen \in BOOLEAN
      /\ producer \in {"checking", "making", "sending", "done"}
      /\ refresher \in {"waiting", "reading", "done"}
  BY Zenon DEF Init
<1>3. /\ client \in [Client -> {"idle", "receiving", "open"}]
      /\ closer \in [Closer -> {"out", "receiving", "waiting", "closed"}]
  BY DEF Init
<1>4. GoroutinesEndCancelled /\ BackgroundEndsFirst
  BY Zenon DEF Init, GoroutinesEndCancelled, BackgroundEndsFirst
<1> QED
  BY <1>1, <1>2, <1>3, <1>4 DEF IInv, TypeOK

\* A step of the goroutines of Open, which never leave "done".
LEMMA BackgroundPreserves == ASSUME IInv, Background PROVE IInv'
<1> USE PoolAssumption DEF IInv, TypeOK, GoroutinesEndCancelled, BackgroundEndsFirst
<1>1. CASE Check
  BY <1>1 DEF Check
<1>2. CASE Make
  BY <1>2 DEF Make
<1>3. CASE Send
  BY <1>3 DEF Send
<1>4. CASE Refresh
  BY <1>4 DEF Refresh
<1>5. CASE Refreshed
  BY <1>5 DEF Refreshed
<1> QED
  BY <1>1, <1>2, <1>3, <1>4, <1>5 DEF Background

\* A step of a client, which at most takes a machine.
LEMMA ClientPreserves == ASSUME IInv, NEW c \in Client, Run(c) PROVE IInv'
<1> USE PoolAssumption DEF IInv, TypeOK, GoroutinesEndCancelled, BackgroundEndsFirst
<1>1. CASE NewTx(c)
  BY <1>1 DEF NewTx
<1>2. CASE Receive(c)
  BY <1>2 DEF Receive
<1>3. CASE TxReturns(c)
  BY <1>3 DEF TxReturns
<1> QED
  BY <1>1, <1>2, <1>3 DEF Run

\* A step of Close, which waits for both goroutines before it closes the store.
LEMMA CloserPreserves == ASSUME IInv, NEW c \in Closer, Shut(c) PROVE IInv'
<1> USE PoolAssumption DEF IInv, TypeOK, GoroutinesEndCancelled, BackgroundEndsFirst
<1>1. CASE Close(c)
  BY <1>1 DEF Close
<1>2. CASE Drain(c)
  BY <1>2 DEF Drain
<1>3. CASE CloseKv(c)
  BY <1>3 DEF CloseKv
<1> QED
  BY <1>1, <1>2, <1>3 DEF Shut

\* Every step preserves the invariant.
LEMMA NextIInv == IInv /\ [Next]_vars => IInv'
<1> SUFFICES ASSUME IInv, [Next]_vars PROVE IInv'
  OBVIOUS
<1>1. CASE Cancel
  BY <1>1 DEF Cancel, IInv, TypeOK, GoroutinesEndCancelled, BackgroundEndsFirst
<1>2. CASE UNCHANGED vars
  BY <1>2 DEF vars, IInv, TypeOK, GoroutinesEndCancelled, BackgroundEndsFirst
<1> QED
  BY <1>1, <1>2, BackgroundPreserves, ClientPreserves, CloserPreserves DEF Next

\* Every variable keeps its type; the pool never holds more machines than the
\* channel has room for (db.go:58).
THEOREM TypeCorrect == Spec => []TypeOK
<1>1. IInv => TypeOK
  BY DEF IInv
<1> QED
  BY InitIInv, NextIInv, <1>1, PTL DEF Spec

\* The store is closed only after both goroutines of Open have returned
\* (db.go:626-627), however many callers close the database at once.
THEOREM BackgroundEnds == Spec => []BackgroundEndsFirst
<1>1. IInv => BackgroundEndsFirst
  BY DEF IInv
<1> QED
  BY InitIInv, NextIInv, <1>1, PTL DEF Spec
=============================================================================
