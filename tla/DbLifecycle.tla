---------------------------- MODULE DbLifecycle ----------------------------
(***************************************************************************)
(* The goroutines of a database (db.go): Open starts one that fills a      *)
(* bounded channel with javascript machines and one that re-reads the      *)
(* collections on a ticker; every transaction takes a machine out of the   *)
(* channel and keeps it; Close cancels the context, takes one machine out  *)
(* so that a blocked producer gets on, waits for both goroutines and       *)
(* closes the key-value store.  The context can also be cancelled by       *)
(* whoever passed it to Open.                                              *)
(***************************************************************************)
EXTENDS Naturals

CONSTANTS Client,    \* goroutines that run transactions
          Closer,    \* goroutines that call Close
          PoolSize   \* capacity of vmPool, 20 in the code

ASSUME PoolAssumption == PoolSize \in Nat \ {0}

VARIABLES cancelled,  \* the context of the goroutines is done
          pool,       \* machines in vmPool
          producer,   \* the goroutine that fills it
          refresher,  \* the goroutine with the ticker
          client,     \* where each client is
          closer,     \* where each call of Close is
          kvOpen      \* the key-value store is open

vars == <<cancelled, pool, producer, refresher, client, closer, kvOpen>>

TypeOK ==
  /\ cancelled \in BOOLEAN
  /\ pool \in 0..PoolSize
  /\ producer \in {"checking", "making", "sending", "done"}
  /\ refresher \in {"waiting", "reading", "done"}
  /\ client \in [Client -> {"idle", "receiving", "open"}]
  /\ closer \in [Closer -> {"out", "receiving", "waiting", "closed"}]
  /\ kvOpen \in BOOLEAN

Init ==
  /\ cancelled = FALSE
  /\ pool = 0
  /\ producer = "checking"
  /\ refresher = "waiting"
  /\ client = [c \in Client |-> "idle"]
  /\ closer = [c \in Closer |-> "out"]
  /\ kvOpen = TRUE

-----------------------------------------------------------------------------
\* Mutation: the producer does not look at the context.
CheckNothing ==
  /\ producer = "checking"
  /\ producer' = "making"
  /\ UNCHANGED <<cancelled, pool, refresher, client, closer, kvOpen>>

\* "select { case <-ctx.Done(): return; default: ... }"
Check ==
  /\ producer = "checking"
  /\ producer' = IF cancelled THEN "done" ELSE "making"
  /\ UNCHANGED <<cancelled, pool, refresher, client, closer, kvOpen>>

Make ==
  /\ producer = "making"
  /\ producer' = "sending"
  /\ UNCHANGED <<cancelled, pool, refresher, client, closer, kvOpen>>

\* Mutation: a send that does not block.
SendAnyway ==
  /\ producer = "sending"
  /\ pool' = pool + 1
  /\ producer' = "checking"
  /\ UNCHANGED <<cancelled, refresher, client, closer, kvOpen>>

\* Mutation: the producer returns once the channel is full.
SendUntilFull ==
  /\ producer = "sending" /\ pool < PoolSize
  /\ pool' = pool + 1
  /\ producer' = IF pool' = PoolSize THEN "done" ELSE "checking"
  /\ UNCHANGED <<cancelled, refresher, client, closer, kvOpen>>

\* "d.vmPool <- vm" blocks while the channel is full.
Send ==
  /\ producer = "sending" /\ pool < PoolSize
  /\ pool' = pool + 1
  /\ producer' = "checking"
  /\ UNCHANGED <<cancelled, refresher, client, closer, kvOpen>>

\* The ticker fires, or the context is done; both may be ready.
Refresh ==
  /\ refresher = "waiting"
  /\ refresher' = "reading" \/ (cancelled /\ refresher' = "done")
  /\ UNCHANGED <<cancelled, pool, producer, client, closer, kvOpen>>

\* The collections have been read from the key-value store.
Refreshed ==
  /\ refresher = "reading"
  /\ refresher' = "waiting"
  /\ UNCHANGED <<cancelled, pool, producer, client, closer, kvOpen>>

-----------------------------------------------------------------------------
NewTx(c) ==
  /\ client[c] = "idle"
  /\ client' = [client EXCEPT ![c] = "receiving"]
  /\ UNCHANGED <<cancelled, pool, producer, refresher, closer, kvOpen>>

\* "vm := <-d.vmPool"; the transaction begins.
Receive(c) ==
  /\ client[c] = "receiving" /\ pool > 0
  /\ client' = [client EXCEPT ![c] = "open"]
  /\ pool' = pool - 1
  /\ UNCHANGED <<cancelled, producer, refresher, closer, kvOpen>>

\* Tx returns: the transaction is closed, its machine is not given back.
TxReturns(c) ==
  /\ client[c] = "open"
  /\ client' = [client EXCEPT ![c] = "idle"]
  /\ UNCHANGED <<cancelled, pool, producer, refresher, closer, kvOpen>>

-----------------------------------------------------------------------------
\* The parent of the context passed to Open is cancelled.
Cancel ==
  /\ ~cancelled /\ cancelled' = TRUE
  /\ UNCHANGED <<pool, producer, refresher, client, closer, kvOpen>>

\* Close: "d.cancel()".
Close(c) ==
  /\ closer[c] = "out"
  /\ closer' = [closer EXCEPT ![c] = "receiving"]
  /\ cancelled' = TRUE
  /\ UNCHANGED <<pool, producer, refresher, client, kvOpen>>

\* "<-d.vmPool"
Drain(c) ==
  /\ closer[c] = "receiving" /\ pool > 0
  /\ closer' = [closer EXCEPT ![c] = "waiting"]
  /\ pool' = pool - 1
  /\ UNCHANGED <<cancelled, producer, refresher, client, kvOpen>>

\* Mutation: Close waits for the producer only.
CloseKvEarly(c) ==
  /\ closer[c] = "waiting" /\ producer = "done"
  /\ closer' = [closer EXCEPT ![c] = "closed"]
  /\ kvOpen' = FALSE
  /\ UNCHANGED <<cancelled, pool, producer, refresher, client>>

\* "d.wg.Wait()" and closing the key-value store.
CloseKv(c) ==
  /\ closer[c] = "waiting" /\ producer = "done" /\ refresher = "done"
  /\ closer' = [closer EXCEPT ![c] = "closed"]
  /\ kvOpen' = FALSE
  /\ UNCHANGED <<cancelled, pool, producer, refresher, client>>

Background == Check \/ Make \/ Send \/ Refresh \/ Refreshed
Run(c) == NewTx(c) \/ Receive(c) \/ TxReturns(c)
Shut(c) == Close(c) \/ Drain(c) \/ CloseKv(c)

Next == \/ Background
        \/ \E c \in Client : Run(c)
        \/ \E c \in Closer : Shut(c)
        \/ Cancel

Spec == Init /\ [][Next]_vars

\* Goroutines run.  Receivers wait on a channel in first-in first-out order, so
\* one whose turn comes again and again is served; and a select whose ticker
\* and context are both ready again and again does not always take the ticker.
FairSpec ==
  /\ Spec
  /\ WF_vars(Check) /\ WF_vars(Make) /\ WF_vars(Send) /\ WF_vars(Refreshed)
  /\ SF_vars(Refresh /\ refresher' = "done")
  /\ \A c \in Client : SF_vars(Receive(c))
  /\ \A c \in Closer : SF_vars(Drain(c)) /\ WF_vars(CloseKv(c))

-----------------------------------------------------------------------------
\* The store is closed (db.go:627) only after both goroutines have returned:
\* neither is left reading a store that is gone.
BackgroundEndsFirst == kvOpen \/ (producer = "done" /\ refresher = "done")

\* While nobody cancels the context, NewTx (db.go:135-151) gets a machine,
\* however many transactions have kept theirs.
NewTxReturns ==
  []~cancelled => \A c \in Client : client[c] = "receiving" ~> client[c] = "open"

\* Close (db.go:622-628) returns, or waits for a machine that nobody is going
\* to make: the producer has seen the cancelled context and the pool is empty.
CloseReturnsUnlessDry ==
  \A c \in Closer :
    closer[c] = "receiving" ~>
      \/ closer[c] = "closed"
      \/ closer[c] = "receiving" /\ producer = "done" /\ pool = 0
=============================================================================
