------------------------------ MODULE MCTikvTx ------------------------------
(* Small instances of TikvTx for TLC. *)
EXTENDS TikvTx, TLC

CONSTANTS k1, k2, v1, v2, t1, t2

OneOrAll == {{k1}, {k1, k2}}
TxSymmetry == Permutations({t1, t2})
=============================================================================
