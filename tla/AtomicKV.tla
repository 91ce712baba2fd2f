------------------------------ MODULE AtomicKV ------------------------------
(***************************************************************************)
(* What kv/kv.go promises of a key-value database: a store that changes    *)
(* only when a transaction commits.  A transaction reads one view of the   *)
(* store, the one it began with.  When a "write" transaction commits, its  *)
(* view agrees with the store on every key it read, so that it behaves as  *)
(* if it had run alone at that instant, and when it ends in any other way  *)
(* the store is as if it had never been.                                   *)
(*                                                                         *)
(* A "batch" is the exception.  kv.go:51 says "Rollback rolls back any     *)
(* changes made by the transaction", of a batch as of the others, and the  *)
(* provider does not keep that promise: a batch too large for one badger   *)
(* transaction goes out in parts while it is being written, and a part     *)
(* that has gone out stays when the batch is rolled back, closed or fails  *)
(* to commit.  FlushAndWrite is that exception and nothing else; without   *)
(* it this module is kv.go's promise, and BadgerTx would not implement it. *)
(*                                                                         *)
(* There are no versions, timestamps or conflict tables here: BadgerTx     *)
(* implements this module with those.                                      *)
(***************************************************************************)
CONSTANTS Key,      \* keys of the store
          Val,      \* values of the store
          Nil,      \* "there is no such key"
          NoWrite,  \* "the transaction has not written the key"
          Tx        \* transactions

Value == Val \cup {Nil}
Empty == [k \in Key |-> Nil]
Nothing == [k \in Key |-> NoWrite]

VARIABLES db,      \* the committed store
          phase,   \* "idle", then "read", "write" or "batch", then "ended"
          view,    \* the store as the transaction sees it
          reads,   \* the keys the transaction has read
          writes   \* what it will write when it commits

vars == <<db, phase, view, reads, writes>>

Overlay(base, w) == [k \in Key |-> IF w[k] = NoWrite THEN base[k] ELSE w[k]]

Init == /\ db = Empty
        /\ phase = [t \in Tx |-> "idle"]
        /\ view = [t \in Tx |-> Empty]
        /\ reads = [t \in Tx |-> {}]
        /\ writes = [t \in Tx |-> Nothing]

Begin(t, m) == /\ phase[t] = "idle"
               /\ phase' = [phase EXCEPT ![t] = m]
               /\ view' = IF m = "batch" THEN view ELSE [view EXCEPT ![t] = db]
               /\ UNCHANGED <<db, reads, writes>>

\* A transaction that reads; a batch takes its view at the first read.
Read(t, S) == /\ phase[t] \in {"read", "write", "batch"}
              /\ reads' = [reads EXCEPT ![t] = @ \cup S]
              /\ \/ UNCHANGED view
                 \/ phase[t] = "batch" /\ view' = [view EXCEPT ![t] = db]
              /\ UNCHANGED <<db, phase, writes>>

Write(t, k, v) == /\ phase[t] \in {"write", "batch"}
                  /\ writes' = [writes EXCEPT ![t][k] = v]
                  /\ UNCHANGED <<db, phase, view, reads>>

\* The exception of batches: one that has grown too large goes out, for good,
\* and a new one begins.
FlushAndWrite(t, k, v) == /\ phase[t] = "batch"
                          /\ db' = Overlay(db, writes[t])
                          /\ writes' = [writes EXCEPT ![t] = [Nothing EXCEPT ![k] = v]]
                          /\ UNCHANGED <<phase, view, reads>>

\* The view a transaction has read is still what the store holds.
Current(t) == \A k \in reads[t] : view[t][k] = db[k]

Commit(t) == /\ phase[t] \in {"read", "write", "batch"}
             /\ phase[t] = "write" /\ writes[t] # Nothing => Current(t)
             /\ db' = IF phase[t] = "read" THEN db ELSE Overlay(db, writes[t])
             /\ phase' = [phase EXCEPT ![t] = "ended"]
             /\ UNCHANGED <<view, reads, writes>>

\* A rollback, a refused commit or a close without commit: the buffered
\* writes are gone and the store does not change; what a batch has sent out
\* before is not taken back.
Abort(t) == /\ phase[t] \in {"read", "write", "batch"}
            /\ phase' = [phase EXCEPT ![t] = "ended"]
            /\ writes' = [writes EXCEPT ![t] = Nothing]
            /\ UNCHANGED <<db, view, reads>>

\* DropPrefix is not transactional: the keys vanish from the store and from
\* under every transaction that is looking at them.
Drop(S) == /\ db' = [k \in Key |-> IF k \in S THEN Nil ELSE db[k]]
           /\ view' = [t \in Tx |-> [k \in Key |-> IF k \in S THEN Nil ELSE view[t][k]]]
           /\ UNCHANGED <<phase, reads, writes>>

Next == \/ \E t \in Tx :
             \/ \E m \in {"read", "write", "batch"} : Begin(t, m)
             \/ \E S \in SUBSET Key : Read(t, S)
             \/ \E k \in Key, v \in Value : Write(t, k, v) \/ FlushAndWrite(t, k, v)
             \/ Commit(t)
             \/ Abort(t)
        \/ \E S \in SUBSET Key : Drop(S)

Spec == Init /\ [][Next]_vars
=============================================================================
