------------------------------ MODULE MCDocTx ------------------------------
(* Small instances of DocTx for TLC: accounts, users that belong to an       *)
(* account and have a unique name, tasks that belong to a user.              *)
EXTENDS DocTx, TLC

CONSTANTS account, user, task, ref, name, a1, u1, u2, k1, bob, bobby, t1, t2

MCField == {ref, name}
MCVal == {a1, u1, u2, k1, bob, bobby}
Bare == [f \in MCField |-> Absent]

On(c, f, to, u, casc) == [coll |-> c, field |-> f, unique |-> u, foreign |-> to, cascade |-> casc]
UserName == On(user, name, NoColl, TRUE, FALSE)
UserAccount == On(user, ref, account, FALSE, TRUE)
TaskUser == On(task, ref, user, FALSE, TRUE)

Schema == {UserName, UserAccount, TaskUser}
SchemaOwned == {UserAccount}
SchemaName == {UserName}

AllIds == account :> {a1} @@ user :> {u1, u2} @@ task :> {k1}
OneUser == account :> {a1} @@ user :> {u1} @@ task :> {}
TwoUsers == account :> {} @@ user :> {u1, u2} @@ task :> {}

\* What the application writes: users with or without an account.
User(r, n) == ref :> r @@ name :> n
Users == {User(a1, bob), User(Absent, bob), User(Absent, bobby)}
Named == {User(Absent, n) : n \in {bob, bobby}}
MCInput == account :> {Bare} @@ user :> Users @@ task :> {User(u1, Absent), User(u2, Absent)}
MCInputNamed == account :> {Bare} @@ user :> Named @@ task :> {}
MCInputOwned == account :> {Bare} @@ user :> {User(a1, Absent), Bare} @@ task :> {}

\* What it updates: a user's name alone, or the account alone.
MCPartial == account :> {} @@ user :> {User(Absent, bobby), User(a1, Absent)} @@ task :> {}
OwnedUpdates == account :> {} @@ user :> {Bare} @@ task :> {}
NoUpdates == [c \in Coll |-> {}]

\* A scan for bob also runs into bobby.
Prefixes == [v \in Val \cup {Absent} |->
               IF v = Absent THEN Val \cup {Absent} ELSE IF v = bob THEN {bob, bobby} ELSE {v}]
Exactly == [v \in Val \cup {Absent} |-> IF v = Absent THEN Val \cup {Absent} ELSE {v}]

TxSymmetry == Permutations({t1, t2})
=============================================================================
