----------------------------- MODULE MCLeaseLock -----------------------------
(* A small instance of LeaseLock for TLC. *)
EXTENDS LeaseLock

CONSTANTS l1, l2
==============================================================================
