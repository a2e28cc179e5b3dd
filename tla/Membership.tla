----------------------------- MODULE Membership -----------------------------
(***************************************************************************)
(* The members of one workspace and the requests that change them          *)
(* (app/routes/workspaces.py, app/auth/workspace.py, app/auth/permissions  *)
(* .py).  A request reads its own membership, its target's and, where it   *)
(* takes an owner away, the number of owners, each with a SELECT of its    *)
(* own at READ COMMITTED and without a lock; then it writes one row by     *)
(* primary key and commits.  Between any two of these, others commit.      *)
(*                                                                         *)
(* A membership row is the role of a user.  A row that is removed and      *)
(* added again is another row: `lost` remembers whose row a request has    *)
(* read and somebody has deleted since.                                    *)
(***************************************************************************)
EXTENDS Naturals, FiniteSets

CONSTANTS
    Users,      \* accounts
    NoUser,     \* no account
    Requests,   \* requests that may be open at the same time
    Granted     \* bound: the roles that requests ask for

\* MembershipRole; "none" is the absence of a row.
Roles == {"owner", "admin", "member", "viewer"}

ASSUME UsersAssumption   == IsFiniteSet(Users) /\ NoUser \notin Users
ASSUME GrantedAssumption == Granted \subseteq Roles

\* permissions.py: who may manage members, and members of which roles.
ManagesMembers == {"owner", "admin"}
Manageable == [r \in Roles |-> CASE r = "owner" -> Roles
                                 [] r = "admin" -> {"member", "viewer"}
                                 [] OTHER       -> {}]
Privileged == {"owner", "admin"}

VARIABLES
    created,    \* the workspace row exists
    role,       \* memberships.role of every user
    \* open requests
    phase,      \* what the request does next
    op,         \* which route it serves
    actorRole,  \* the role read for its WorkspaceContext
    target,     \* whose membership it is about
    own,        \* it is the actor's own membership
    targetRole, \* the role read for that
    newRole,    \* the role asked for
    lost,       \* users whose row the request read and another one deleted
    raced       \* bookkeeping: the owner rule was checked on outdated rows

requestVars == <<phase, op, actorRole, target, own, targetRole, newRole>>
vars == <<created, role, requestVars, lost, raced>>

\* target: read the target's membership.  count: count the owners.  ready: all
\* checks passed, write and commit.
Phases == {"idle", "target", "count", "ready"}
Ops    == {"create", "add", "change", "remove"}

Owners == {u \in Users : role[u] = "owner"}

\* The request takes an owner away: routes/workspaces.py calls count_owners.
TakesAway(r, was) ==
    /\ was = "owner"
    /\ \/ op[r] = "remove"
       \/ op[r] = "change" /\ newRole[r] # "owner"

TakesOwner(r) == TakesAway(r, targetRole[r])

Init ==
    /\ created = FALSE
    /\ role = [u \in Users |-> "none"]
    /\ phase = [r \in Requests |-> "idle"]
    /\ op = [r \in Requests |-> "create"]
    /\ own = [r \in Requests |-> FALSE]
    /\ actorRole = [r \in Requests |-> "none"]
    /\ target = [r \in Requests |-> NoUser]
    /\ targetRole = [r \in Requests |-> "none"]
    /\ newRole = [r \in Requests |-> "none"]
    /\ lost = [r \in Requests |-> {}]
    /\ raced = FALSE

-----------------------------------------------------------------------------
(* Reads and checks.                                                       *)

Open(r, p, o, u, t, n) ==
    /\ phase[r] = "idle"
    /\ phase' = [phase EXCEPT ![r] = p]
    /\ op' = [op EXCEPT ![r] = o]
    /\ own' = [own EXCEPT ![r] = (t = u)]
    /\ actorRole' = [actorRole EXCEPT ![r] = role[u]]
    /\ target' = [target EXCEPT ![r] = t]
    /\ newRole' = [newRole EXCEPT ![r] = n]
    /\ UNCHANGED <<created, role, targetRole, lost, raced>>

\* The slug is free: the route will add the workspace and its first owner.
BeginCreate(r, u) == ~created /\ Open(r, "ready", "create", u, u, "owner")

\* Fault: the route asks for a member, not for one who manages members.
BeginManageAnyMember(r, o, u, t, n) ==
    /\ created
    /\ role[u] # "none"
    /\ o = "remove" \/ n \in Manageable[role[u]]
    /\ o \in {"add", "change", "remove"}
    /\ Open(r, "target", o, u, t, IF o = "remove" THEN "none" ELSE n)

\* get_workspace_context and RequireAction(MANAGE_MEMBERS).  Whether the actor
\* may grant the role asked for depends on no later read, so it is checked here.
BeginManage(r, o, u, t, n) ==
    /\ created
    /\ role[u] \in ManagesMembers
    /\ o = "remove" \/ n \in Manageable[role[u]]
    /\ o \in {"add", "change", "remove"}
    /\ Open(r, "target", o, u, t, IF o = "remove" THEN "none" ELSE n)

Close(r) ==
    /\ phase' = [phase EXCEPT ![r] = "idle"]
    /\ op' = [op EXCEPT ![r] = "create"]
    /\ own' = [own EXCEPT ![r] = FALSE]
    /\ actorRole' = [actorRole EXCEPT ![r] = "none"]
    /\ target' = [target EXCEPT ![r] = NoUser]
    /\ targetRole' = [targetRole EXCEPT ![r] = "none"]
    /\ newRole' = [newRole EXCEPT ![r] = "none"]

\* add_member: nobody holds the unique (workspace, user) pair yet.
ReadNoMember(r) ==
    /\ phase[r] = "target" /\ op[r] = "add"
    /\ role[target[r]] = "none"
    /\ phase' = [phase EXCEPT ![r] = "ready"]
    /\ UNCHANGED <<created, role, op, actorRole, target, own, targetRole,
                   newRole, lost, raced>>

\* The role a SELECT of the target yields.  The actor's own row is in the
\* session already, and the session keeps the attributes it loaded first.
RoleRead(r) == IF own[r] /\ target[r] \notin lost[r]
               THEN actorRole[r] ELSE role[target[r]]

\* Fault: an admin may manage whoever is not an owner.
MayManageNonOwner(r, was) == was # "owner" \/ actorRole[r] = "owner"

MayManage(r, was) == was \in Manageable[actorRole[r]]

ReadTarget(r) ==
    /\ phase[r] = "target" /\ op[r] \in {"change", "remove"}
    /\ role[target[r]] # "none"
    /\ MayManage(r, RoleRead(r))
    /\ targetRole' = [targetRole EXCEPT ![r] = RoleRead(r)]
    /\ phase' = [phase EXCEPT ![r] = IF TakesAway(r, RoleRead(r)) THEN "count" ELSE "ready"]
    /\ lost' = [lost EXCEPT ![r] = @ \ {target[r]}]
    /\ UNCHANGED <<created, role, op, actorRole, target, own, newRole, raced>>

\* Two requests are now past the count with an owner to take away.
AnotherTakesOwner(r) ==
    \E q \in Requests \ {r} : phase[q] = "ready" /\ TakesOwner(q)

\* Fault: a last owner is one too few.
EnoughOwnersOffByOne == Cardinality(Owners) # 0

EnoughOwners == Cardinality(Owners) # 1

CountOwners(r) ==
    /\ phase[r] = "count"
    /\ EnoughOwners
    /\ phase' = [phase EXCEPT ![r] = "ready"]
    /\ raced' = (raced \/ AnotherTakesOwner(r))
    /\ UNCHANGED <<created, role, op, actorRole, target, own, targetRole,
                   newRole, lost>>

\* 404, 403 or 409, a conflict of the flush, a crash: nothing is written.
Reject(r) ==
    /\ phase[r] # "idle"
    /\ Close(r)
    /\ lost' = [lost EXCEPT ![r] = {}]
    /\ UNCHANGED <<created, role, raced>>

-----------------------------------------------------------------------------
(* The writes, which commit with their audit record.                       *)

\* A write that takes ownership from a row read when it was no owner's.
OutdatedOwner(r) == role[target[r]] = "owner" /\ targetRole[r] # "owner"

\* The unique slug lets one creation through.
CommitCreate(r) ==
    /\ phase[r] = "ready" /\ op[r] = "create"
    /\ ~created
    /\ created' = TRUE
    /\ role' = [role EXCEPT ![target[r]] = "owner"]
    /\ Close(r)
    /\ lost' = [lost EXCEPT ![r] = {}]
    /\ UNCHANGED raced

\* The unique (workspace, user) pair lets one addition through.
CommitAdd(r) ==
    /\ phase[r] = "ready" /\ op[r] = "add"
    /\ role[target[r]] = "none"
    /\ role' = [role EXCEPT ![target[r]] = newRole[r]]
    /\ Close(r)
    /\ lost' = [lost EXCEPT ![r] = {}]
    /\ UNCHANGED <<created, raced>>

\* An UPDATE by primary key, only if the role differs from the one loaded; a
\* row that is gone fails it (StaleDataError) and leaves Reject.
CommitChange(r) ==
    /\ phase[r] = "ready" /\ op[r] = "change"
    /\ newRole[r] = targetRole[r] \/ target[r] \notin lost[r]
    /\ role' = IF newRole[r] = targetRole[r] THEN role
               ELSE [role EXCEPT ![target[r]] = newRole[r]]
    /\ raced' = (raced \/ (OutdatedOwner(r) /\ newRole[r] # "owner"))
    /\ Close(r)
    /\ lost' = [lost EXCEPT ![r] = {}]
    /\ UNCHANGED created

\* A DELETE by primary key: of a row that is gone, nothing.  Everybody else
\* who has read the row now holds one that is gone.
CommitRemove(r) ==
    /\ phase[r] = "ready" /\ op[r] = "remove"
    /\ Close(r)
    /\ IF target[r] \in lost[r]
       THEN /\ lost' = [lost EXCEPT ![r] = {}]
            /\ UNCHANGED <<role, raced>>
       ELSE /\ role' = [role EXCEPT ![target[r]] = "none"]
            /\ raced' = (raced \/ OutdatedOwner(r))
            /\ lost' = [q \in Requests |-> IF q # r /\ phase[q] # "idle"
                                           THEN lost[q] \cup {target[r]} ELSE {}]
    /\ UNCHANGED created

Next ==
    \E r \in Requests :
        \/ \E u \in Users : BeginCreate(r, u)
        \/ \E o \in Ops, u, t \in Users, n \in Granted : BeginManage(r, o, u, t, n)
        \/ ReadNoMember(r) \/ ReadTarget(r) \/ CountOwners(r) \/ Reject(r)
        \/ CommitCreate(r) \/ CommitAdd(r) \/ CommitChange(r) \/ CommitRemove(r)

Spec == Init /\ [][Next]_vars

-----------------------------------------------------------------------------
(* Properties.                                                             *)

\* Types, and what is set when: an open request knows its target and
\* the role of its actor.
TypeOK ==
    /\ created \in BOOLEAN
    /\ role \in [Users -> Roles \cup {"none"}]
    /\ phase \in [Requests -> Phases] /\ op \in [Requests -> Ops]
    /\ own \in [Requests -> BOOLEAN]
    /\ target \in [Requests -> Users \cup {NoUser}]
    /\ actorRole \in [Requests -> Roles \cup {"none"}]
    /\ targetRole \in [Requests -> Roles \cup {"none"}]
    /\ newRole \in [Requests -> Roles \cup {"none"}]
    /\ lost \in [Requests -> SUBSET Users]
    /\ raced \in BOOLEAN
    /\ \A r \in Requests : phase[r] # "idle" =>
           /\ target[r] \in Users
           /\ op[r] # "create" => created /\ actorRole[r] \in ManagesMembers

\* A workspace always has an owner (the check of change_member_role and
\* remove_member), through any overlap of requests, unless two of them were
\* past the count at once or one wrote over a promotion it had not seen.
OwnerUnlessRaced == created /\ ~raced => Owners # {}

\* docs/DEVELOPMENT.md: "the last owner can never be demoted or removed".
LastOwnerStays == created => Owners # {}

\* permissions.py: "Only owners handle privileged roles, so an admin can never
\* lock owners out or escalate".  Nobody becomes owner or admin but by the act
\* of one who was an owner when the request began (or by creating the
\* workspace), and nobody stops being one but by that - or by a request that
\* read the row when it was not a privileged one.
PrivilegedByOwners ==
    [][\A r \in Requests, u \in Users :
           phase[r] = "ready" /\ phase'[r] = "idle" /\ role'[u] # role[u]
             => /\ role'[u] \in Privileged => actorRole[r] = "owner" \/ op[r] = "create"
                /\ role[u] \in Privileged =>
                       actorRole[r] = "owner" \/ targetRole[r] \notin Privileged]_vars
=============================================================================
