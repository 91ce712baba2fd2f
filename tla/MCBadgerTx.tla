----------------------------- MODULE MCBadgerTx -----------------------------
(* A small instance of BadgerTx for TLC. *)
EXTENDS BadgerTx, TLC

CONSTANTS k1, k2, v1, v2, t1, t2

RangesBoth == {{k1, k2}}
BothSymmetry == Permutations({t1, t2}) \cup Permutations({k1, k2}) \cup Permutations({v1, v2})

\* Three mutations between the two transactions.
Few == Len(entries[t1]) + Len(entries[t2]) <= 3
=============================================================================
