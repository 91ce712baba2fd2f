------------------------------- MODULE Mutex -------------------------------
(***************************************************************************)
(* What kv/kv.go promises of a Locker, "a mutex/locker with the given      *)
(* lease duration": one user at a time has the lock, from a TryLock that   *)
(* returned true until its Unlock lets go of it or its lease runs out; and *)
(* a lock that was left behind stays taken until its lease ends.           *)
(*                                                                         *)
(* There is no key, no clock and no keepalive here.  LeaseLock implements  *)
(* this module with those, and Configure counts on it, once for each       *)
(* collection.                                                             *)
(***************************************************************************)
CONSTANT User

VARIABLES holders, \* the users that have the lock
          lost     \* it is taken, and nobody is left to release it

Init == holders = {} /\ lost = FALSE

\* TryLock returns true; it may return false at any time, and changes nothing.
Acquire(u) == holders = {} /\ ~lost /\ holders' = {u} /\ UNCHANGED lost

\* Unlock lets go of the lock, or the lease of the user has run out.
Release(u) == u \in holders /\ holders' = holders \ {u} /\ UNCHANGED lost

\* The process of the user dies, or its lease will be renewed no more, or its
\* Unlock fails; and the lease is still running.
Die == holders # {} /\ holders' = {} /\ lost' = TRUE

Expire == lost /\ lost' = FALSE /\ UNCHANGED holders

Next == (\E u \in User : Acquire(u) \/ Release(u)) \/ Die \/ Expire

Spec == Init /\ [][Next]_<<holders, lost>>
=============================================================================
