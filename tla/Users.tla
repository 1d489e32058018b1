-------------------------------- MODULE Users --------------------------------
(***************************************************************************)
(* Accounts, their roles and the admins who change them                    *)
(* (api/admin_users.py, auth/service.py).  A call resolves its token, then *)
(* reads its target, then commits the columns that it set.                 *)
(***************************************************************************)
EXTENDS Naturals, FiniteSets

CONSTANTS
  Names,       \* the user names
  FirstAdmin,  \* the one that is seeded
  GivenRoles,  \* the roles that calls give
  MaxCalls     \* how many updates may be under way at once

VARIABLES
  users,       \* [role, active] of the accounts there are
  updates,     \* the updates that have passed their checks
  crossed      \* has an update been committed while another was under way?

userVars == <<users, updates, crossed>>

Unchanged == "unchanged"

Account(role) == [role |-> role, active |-> TRUE]

UsersInit ==
  /\ users = [n \in {FirstAdmin} |-> Account("admin")]
  /\ updates = {}
  /\ crossed = FALSE

Exists(n) == n \in DOMAIN users

\* resolve_user and require_role(admin): the token's user is looked up anew for
\* each call.
MayAdminister(n) == Exists(n) /\ users[n].active /\ users[n].role = "admin"

\* create_user; the name is unique in the table too.
CreateUser(actor, n, role) ==
  /\ MayAdminister(actor) /\ ~Exists(n)
  /\ users' = [m \in DOMAIN users \cup {n} |-> IF m = n THEN Account(role) ELSE users[m]]
  /\ UNCHANGED <<updates, crossed>>

\* What a body may hold: a role, a state, either or both.
Body == [role : GivenRoles \cup {Unchanged}, active : {"yes", "no", Unchanged}]

\* Mistaken: an admin may give up the role.
ChecksPassNoDemotion(actor, target, body) ==
  target = actor => body.active # "no"

\* Admins neither demote nor deactivate themselves.
ChecksPass(actor, target, body) ==
  target = actor => body.role \in {"admin", Unchanged} /\ body.active # "no"

\* A column that is set to what it was is not written.
NetBody(user, body) ==
  [role |-> IF body.role = user.role THEN Unchanged ELSE body.role,
   active |-> IF body.active # Unchanged /\ (body.active = "yes") = user.active THEN Unchanged ELSE body.active]

CheckUpdate(actor, target, body) ==
  /\ Cardinality(updates) < MaxCalls
  /\ MayAdminister(actor) /\ Exists(target) /\ ChecksPass(actor, target, body)
  /\ updates' = updates \cup
       {[actor |-> actor, target |-> target, body |-> NetBody(users[target], body)]}
  /\ UNCHANGED <<users, crossed>>

CommitUpdate(u) ==
  /\ users' = [users EXCEPT ![u.target] =
       [role |-> IF u.body.role = Unchanged THEN @.role ELSE u.body.role,
        active |-> IF u.body.active = Unchanged THEN @.active ELSE u.body.active = "yes"]]
  /\ updates' = updates \ {u}
  /\ crossed' = (crossed \/ updates # {u})

UsersNext ==
  \/ \E a, n \in Names, r \in GivenRoles : CreateUser(a, n, r)
  \/ \E a, n \in Names, b \in Body : CheckUpdate(a, n, b)
  \/ \E u \in updates : CommitUpdate(u)

UsersSpec == UsersInit /\ [][UsersNext]_userVars

\* However many updates there were, somebody can administer the system, as long
\* as no two of them were under way at once: each protects only its own caller
\* (api/admin_users.py:3-8).
AnAdminRemains == ~crossed => \E n \in DOMAIN users : MayAdminister(n)
=============================================================================
