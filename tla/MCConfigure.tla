---------------------------- MODULE MCConfigure ----------------------------
(* Small instances of Configure for TLC: accounts and users. *)
EXTENDS Configure, TLC

CONSTANTS cdc, account, user, p1, p2, a, b

S(refs, text, empty) == [refs |-> refs, text |-> text, empty |-> empty]
MCCdcSchema == S({}, a, FALSE)

\* An account alone, edited, with users, and users on their own.
MCWants == {account :> S({}, a, TRUE),
            account :> S({}, b, FALSE),
            account :> S({}, a, FALSE) @@ user :> S({account}, a, FALSE),
            user :> S({}, a, FALSE)}

CallerSymmetry == Permutations({p1, p2})
=============================================================================
