---------------------------- MODULE MCDbLifecycle ----------------------------
(* Small instances of DbLifecycle for TLC. *)
EXTENDS DbLifecycle, TLC

CONSTANTS c1, c2, d1, d2
=============================================================================
