----------------------------- MODULE MCChanges -----------------------------
(* Small instances of Changes for TLC: one id in two collections.  Everyone  *)
(* may change users, but only the owner may query them.                      *)
EXTENDS Changes, TLC

CONSTANTS user, account, x1, f, g, v1, v2, owner, writer, t1, t2, s1

Of(v, w) == f :> v @@ g :> w
MCDefault == Of(Absent, v1)
MCInput == user :> {Of(v1, Absent), Of(v2, v2)} @@ account :> {Of(v2, v2)}
MCSparseInput == user :> {Of(Absent, v1), Of(v1, v1)} @@ account :> {}
MCPartial == user :> {Of(v2, Absent)} @@ account :> {}
MCRules == {[coll |-> user, allow |-> TRUE, actions |-> Access, who |-> {owner}],
            [coll |-> user, allow |-> TRUE, actions |-> {"set", "update"}, who |-> {writer}],
            [coll |-> user, allow |-> FALSE, actions |-> {"delete"}, who |-> {writer}],
            [coll |-> account, allow |-> FALSE, actions |-> {"set", "delete"}, who |-> Actor]}
MCUsers == t1 :> {owner} @@ t2 :> Actor
MCMaxOps == t1 :> 2 @@ t2 :> 1
MCWanted == [s \in Sub |-> [coll |-> user, actions |-> Action \ {"create"}, actor |-> owner]]
=============================================================================
