-------------------------- MODULE MembershipProofs --------------------------
(***************************************************************************)
(* Proofs about Membership, for any finite set of accounts and any number  *)
(* of concurrent requests.                                                 *)
(*                                                                         *)
(* That a workspace keeps an owner is not inductive: what a request found  *)
(* when it counted must still be true when it commits.  OwnerInv says what *)
(* carries it there - as long as nothing raced, one request at most is     *)
(* past the count, and there are two owners while it is.                   *)
(***************************************************************************)
EXTENDS Membership, FiniteSetTheorems, TLAPS

\* An open request has been checked against its actor's role: for the role it
\* asks for, and once its target was read, for the role that was read.
Checked ==
    \A r \in Requests :
        /\ phase[r] # "idle" /\ op[r] \in {"add", "change"} =>
               newRole[r] \in Manageable[actorRole[r]]
        /\ phase[r] \in {"count", "ready"} /\ op[r] \in {"change", "remove"} =>
               targetRole[r] \in Manageable[actorRole[r]]

\* A request is past the count and about to take an owner away.
Taking(r) == phase[r] = "ready" /\ TakesOwner(r)

TwoOwners == \E u, v \in Owners : u # v

OwnerInv == ~raced =>
    /\ created => Owners # {}
    /\ \A r \in Requests : Taking(r) => TwoOwners
    /\ \A q, r \in Requests : Taking(q) /\ Taking(r) => q = r

\* Rows come with the workspace.
NobodyBefore == created \/ \A u \in Users : role[u] = "none"

OwnersGuarded == TypeOK /\ Checked /\ OwnerInv
MembershipInv == TypeOK /\ Checked /\ OwnerInv /\ NobodyBefore

USE DEF Roles, Phases, Ops, ManagesMembers

-----------------------------------------------------------------------------
(* Reading and rejecting: no row changes.                                  *)

\* The first state satisfies the invariant.
LEMMA InitHolds == Init => MembershipInv
  <1> SUFFICES ASSUME Init PROVE MembershipInv
    OBVIOUS
  <1>1. TypeOK
    BY DEF Init, TypeOK
  <1>2. Checked /\ OwnerInv /\ NobodyBefore
    BY DEF Init, Checked, OwnerInv, Taking, NobodyBefore
  <1> QED BY <1>1, <1>2 DEF MembershipInv

\* Nobody holds a privileged role of a set of roles it does not manage.
LEMMA ManageableRoles ==
  /\ \A a \in Roles : Manageable[a] \subseteq Roles
  /\ \A a \in Roles : Manageable[a] \cap Privileged # {} => a = "owner"
  BY DEF Manageable, Privileged

\* Opening a request.
LEMMA OpenStep ==
  ASSUME MembershipInv, NEW r \in Requests,
         \/ \E u \in Users : BeginCreate(r, u)
         \/ \E o \in Ops, u, t \in Users, n \in Granted : BeginManage(r, o, u, t, n)
  PROVE  OwnersGuarded'
  <1>1. PICK p \in {"ready", "target"}, o \in Ops, u \in Users, t \in Users,
              n \in Roles \cup {"none"} :
          /\ Open(r, p, o, u, t, n)
          /\ p = "ready" => o = "create" /\ n = "owner"
          /\ o # "create" => created /\ role[u] \in ManagesMembers
          /\ o \in {"add", "change"} => n \in Manageable[role[u]]
    BY GrantedAssumption DEF BeginCreate, BeginManage
  <1>2. TypeOK'
    BY <1>1 DEF MembershipInv, TypeOK, Open
  <1>3. Checked'
    BY <1>1 DEF MembershipInv, TypeOK, Checked, Open
  <1>4. \A q \in Requests : Taking(q)' => Taking(q)
    BY <1>1 DEF MembershipInv, TypeOK, Open, Taking, TakesOwner, TakesAway
  <1>5. UNCHANGED <<created, role, raced>>
    BY <1>1 DEF Open
  <1>6. OwnerInv'
    BY <1>4, <1>5 DEF MembershipInv, OwnerInv, TwoOwners, Owners
  <1> QED BY <1>2, <1>3, <1>6 DEF OwnersGuarded, MembershipInv

\* Closing one: the request is gone, the others are as they were.
LEMMA CloseStep ==
  ASSUME MembershipInv, NEW r \in Requests, Close(r), phase[r] # "idle",
         role' \in [Users -> Roles \cup {"none"}], created' \in BOOLEAN,
         lost' \in [Requests -> SUBSET Users], raced' \in BOOLEAN,
         created => created'
  PROVE  /\ TypeOK' /\ Checked'
         /\ \A q \in Requests : Taking(q)' => Taking(q) /\ q # r
  <1>1. TypeOK'
    BY DEF MembershipInv, TypeOK, Close
  <1>2. Checked'
    BY DEF MembershipInv, TypeOK, Checked, Close
  <1>3. \A q \in Requests : Taking(q)' => Taking(q) /\ q # r
    BY DEF MembershipInv, TypeOK, Close, Taking, TakesOwner, TakesAway
  <1> QED BY <1>1, <1>2, <1>3

\* A rejection.
LEMMA RejectStep ==
  ASSUME MembershipInv, NEW r \in Requests, Reject(r)
  PROVE  OwnersGuarded'
  <1>1. UNCHANGED <<created, role, raced>> /\ Close(r) /\ phase[r] # "idle"
    BY DEF Reject
  <1>2. lost' \in [Requests -> SUBSET Users]
    BY DEF MembershipInv, TypeOK, Reject
  <1>3. /\ TypeOK' /\ Checked'
        /\ \A q \in Requests : Taking(q)' => Taking(q) /\ q # r
    BY <1>1, <1>2, CloseStep DEF MembershipInv, TypeOK
  <1>4. OwnerInv'
    BY <1>1, <1>3 DEF MembershipInv, OwnerInv, TwoOwners, Owners
  <1> QED BY <1>3, <1>4 DEF OwnersGuarded, MembershipInv

\* Reading the target: a request that takes an owner away goes to the count.
LEMMA ReadStep ==
  ASSUME MembershipInv, NEW r \in Requests, ReadNoMember(r) \/ ReadTarget(r)
  PROVE  OwnersGuarded'
  <1>1. /\ phase[r] = "target" /\ UNCHANGED <<created, role, raced>>
        /\ op[r] \in {"add", "change", "remove"}
        /\ target[r] \in Users /\ actorRole[r] \in Roles
    BY DEF MembershipInv, TypeOK, ReadNoMember, ReadTarget
  <1>2. CASE ReadNoMember(r)
    <2>1. TypeOK' /\ Checked'
      BY <1>1, <1>2 DEF MembershipInv, TypeOK, Checked, ReadNoMember
    <2>2. \A q \in Requests : Taking(q)' => Taking(q)
      BY <1>2 DEF MembershipInv, TypeOK, ReadNoMember, Taking, TakesOwner, TakesAway
    <2>3. OwnerInv'
      BY <1>1, <2>2 DEF MembershipInv, OwnerInv, TwoOwners, Owners
    <2> QED BY <2>1, <2>3 DEF OwnersGuarded, MembershipInv
  <1>3. CASE ReadTarget(r)
    <2> DEFINE was == RoleRead(r)
               p == IF TakesAway(r, was) THEN "count" ELSE "ready"
    <2>1. /\ was \in Manageable[actorRole[r]] /\ was \in Roles
          /\ targetRole' = [targetRole EXCEPT ![r] = was]
          /\ phase' = [phase EXCEPT ![r] = p]
          /\ lost' = [lost EXCEPT ![r] = @ \ {target[r]}]
          /\ UNCHANGED <<op, actorRole, target, own, newRole>>
      BY <1>1, <1>3, ManageableRoles DEF ReadTarget, MayManage
    <2>2. p \in {"count", "ready"} /\ (p = "ready" => ~TakesAway(r, was))
      OBVIOUS
    <2> HIDE DEF was, p
    <2>3. TypeOK'
      BY <1>1, <2>1, <2>2 DEF MembershipInv, TypeOK
    <2>4. Checked'
      BY <1>1, <2>1, <2>2 DEF MembershipInv, TypeOK, Checked
    <2>5. \A q \in Requests : Taking(q)' => Taking(q)
      BY <2>1, <2>2 DEF MembershipInv, TypeOK, Taking, TakesOwner, TakesAway
    <2>6. OwnerInv'
      BY <1>1, <2>5 DEF MembershipInv, OwnerInv, TwoOwners, Owners
    <2> QED BY <2>3, <2>4, <2>6 DEF OwnersGuarded, MembershipInv
  <1> QED BY <1>2, <1>3

\* Counting the owners: whoever passes without a race is the only one past the
\* count, and saw two.
LEMMA CountStep ==
  ASSUME MembershipInv, NEW r \in Requests, CountOwners(r)
  PROVE  OwnersGuarded'
  <1>1. /\ phase[r] = "count" /\ phase' = [phase EXCEPT ![r] = "ready"]
        /\ Cardinality(Owners) # 1
        /\ raced' = (raced \/ AnotherTakesOwner(r))
        /\ UNCHANGED <<created, role, op, actorRole, target, own, targetRole,
                       newRole, lost>>
    BY DEF CountOwners, EnoughOwners
  <1>2. TypeOK'
    BY <1>1 DEF MembershipInv, TypeOK
  <1>3. Checked'
    BY <1>1 DEF MembershipInv, TypeOK, Checked
  <1>4. \A q \in Requests : Taking(q)' => Taking(q) \/ q = r
    BY <1>1 DEF MembershipInv, TypeOK, Taking, TakesOwner, TakesAway
  <1>5. ASSUME ~raced', Taking(r)' PROVE TwoOwners
    <2>1. created
      BY <1>1, <1>5 DEF MembershipInv, TypeOK, Taking, TakesOwner, TakesAway
    <2>2. PICK u : u \in Owners
      BY <2>1, <1>1, <1>5 DEF MembershipInv, TypeOK, OwnerInv
    <2>3. IsFiniteSet(Owners)
      BY UsersAssumption, FS_Subset DEF Owners
    <2>4. Owners # {u}
      BY <1>1, <2>3, FS_Singleton
    <2> QED BY <2>2, <2>4 DEF TwoOwners
  <1>6. ASSUME ~raced', NEW q \in Requests, q # r, Taking(q)
        PROVE  FALSE
    BY <1>1, <1>6 DEF MembershipInv, TypeOK, AnotherTakesOwner, Taking
  <1>7. OwnerInv'
    <2> SUFFICES ASSUME ~raced' PROVE
          /\ created => Owners # {}
          /\ \A q \in Requests : Taking(q)' => TwoOwners
          /\ \A p, q \in Requests : Taking(p)' /\ Taking(q)' => p = q
      BY <1>1 DEF OwnerInv, TwoOwners, Owners
    <2>1. ~raced
      BY <1>1 DEF MembershipInv, TypeOK
    <2> QED BY <2>1, <1>4, <1>5, <1>6 DEF OwnersGuarded, MembershipInv, OwnerInv
  <1> QED BY <1>2, <1>3, <1>7 DEF OwnersGuarded, MembershipInv

-----------------------------------------------------------------------------
(* Writing.                                                                *)

\* A write that leaves every owner an owner keeps OwnerInv.
LEMMA OwnersKept ==
  ASSUME MembershipInv, NEW r \in Requests,
         raced => raced', Owners \subseteq Owners', created' => Owners' # {},
         \A q \in Requests : Taking(q)' => Taking(q) /\ q # r
  PROVE  OwnerInv'
  BY DEF MembershipInv, TypeOK, OwnerInv, TwoOwners

\* A write that takes one owner away, by a request that was past the count
\* without a race, leaves the other one and nobody else past the count.
LEMMA OwnerTaken ==
  ASSUME MembershipInv, NEW r \in Requests, Taking(r), NEW u, 
         raced => raced', Owners \ {u} \subseteq Owners',
         \A q \in Requests : Taking(q)' => Taking(q) /\ q # r
  PROVE  OwnerInv'
  <1> SUFFICES ASSUME ~raced' PROVE OwnerInv'
    BY DEF OwnerInv
  <1>1. ~raced
    OBVIOUS
  <1>2. Owners' # {}
    BY <1>1 DEF MembershipInv, OwnerInv, TwoOwners
  <1>3. \A q \in Requests : ~Taking(q)'
    BY <1>1 DEF MembershipInv, OwnerInv
  <1> QED BY <1>2, <1>3 DEF OwnerInv

\* Creating the workspace and adding a member.
LEMMA AddStep ==
  ASSUME MembershipInv, NEW r \in Requests, CommitCreate(r) \/ CommitAdd(r)
  PROVE  OwnersGuarded'
  <1>1. PICK n \in Roles : 
          /\ role' = [role EXCEPT ![target[r]] = n]
          /\ role[target[r]] = "none" \/ n = "owner"
          /\ created' => created \/ n = "owner"
    BY ManageableRoles DEF MembershipInv, TypeOK, Checked, CommitCreate, CommitAdd
  <1>2. /\ Close(r) /\ phase[r] # "idle" /\ target[r] \in Users
        /\ created' \in BOOLEAN /\ (created => created') /\ raced' = raced
        /\ lost' = [lost EXCEPT ![r] = {}]
    BY DEF MembershipInv, TypeOK, CommitCreate, CommitAdd
  <1>3. /\ TypeOK' /\ Checked'
        /\ \A q \in Requests : Taking(q)' => Taking(q) /\ q # r
    <2>1. role' \in [Users -> Roles \cup {"none"}] /\ raced' \in BOOLEAN
          /\ lost' \in [Requests -> SUBSET Users]
      BY <1>1, <1>2 DEF MembershipInv, TypeOK
    <2> QED BY <1>2, <2>1, CloseStep
  <1>4. Owners \subseteq Owners' /\ (n = "owner" => Owners' # {})
    BY <1>1, <1>2 DEF MembershipInv, TypeOK, Owners
  <1>5. raced \/ OwnerInv'
    <2>1. CASE raced
      BY <2>1
    <2>2. CASE ~raced
      BY <1>1, <1>2, <1>3, <1>4, <2>2, OwnersKept DEF MembershipInv, OwnerInv
    <2> QED BY <2>1, <2>2
  <1> QED BY <1>2, <1>3, <1>5 DEF OwnersGuarded, MembershipInv, OwnerInv

\* Changing a role: the owner that disappears is the one the request counted,
\* or the write raced.
LEMMA ChangeStep ==
  ASSUME MembershipInv, NEW r \in Requests, CommitChange(r)
  PROVE  OwnersGuarded'
  <1>1. /\ phase[r] = "ready" /\ op[r] = "change" /\ Close(r)
        /\ role' = IF newRole[r] = targetRole[r] THEN role
                   ELSE [role EXCEPT ![target[r]] = newRole[r]]
        /\ raced' = (raced \/ (OutdatedOwner(r) /\ newRole[r] # "owner"))
        /\ lost' = [lost EXCEPT ![r] = {}] /\ created' = created
        /\ target[r] \in Users
    BY DEF MembershipInv, TypeOK, CommitChange
  <1>2. newRole[r] \in Roles /\ targetRole[r] \in Roles
    BY <1>1, ManageableRoles DEF MembershipInv, TypeOK, Checked
  <1>3. /\ TypeOK' /\ Checked'
        /\ \A q \in Requests : Taking(q)' => Taking(q) /\ q # r
    <2>1. role' \in [Users -> Roles \cup {"none"}] /\ raced' \in BOOLEAN
          /\ lost' \in [Requests -> SUBSET Users] /\ created' \in BOOLEAN
      BY <1>1, <1>2 DEF MembershipInv, TypeOK
    <2> QED BY <1>1, <2>1, CloseStep
  <1>4. CASE raced'
    BY <1>3, <1>4 DEF OwnersGuarded, OwnerInv
  <1>5. CASE ~raced' /\ Taking(r)
    <2>1. Owners \ {target[r]} \subseteq Owners'
      BY <1>1 DEF MembershipInv, TypeOK, Owners
    <2> QED BY <1>1, <1>3, <1>5, <2>1, OwnerTaken DEF OwnersGuarded, MembershipInv
  <1>6. CASE ~raced' /\ ~Taking(r)
    <2>1. Owners \subseteq Owners'
      BY <1>1, <1>2, <1>6 DEF MembershipInv, TypeOK, Owners, OutdatedOwner, Taking,
         TakesOwner, TakesAway
    <2>2. created' => Owners' # {}
      BY <1>1, <1>6, <2>1 DEF MembershipInv, OwnerInv
    <2> QED BY <1>1, <1>3, <2>1, <2>2, OwnersKept DEF OwnersGuarded, MembershipInv
  <1> QED BY <1>4, <1>5, <1>6 DEF OwnersGuarded, MembershipInv, TypeOK

\* Removing a member, in the same way.
LEMMA RemoveStep ==
  ASSUME MembershipInv, NEW r \in Requests, CommitRemove(r)
  PROVE  OwnersGuarded'
  <1>1. /\ phase[r] = "ready" /\ op[r] = "remove" /\ Close(r)
        /\ created' = created /\ target[r] \in Users
    BY DEF MembershipInv, TypeOK, CommitRemove
  <1>2. /\ lost' \in [Requests -> SUBSET Users]
        /\ \/ UNCHANGED <<role, raced>>
           \/ /\ role' = [role EXCEPT ![target[r]] = "none"]
              /\ raced' = (raced \/ OutdatedOwner(r))
    BY <1>1 DEF MembershipInv, TypeOK, CommitRemove
  <1>3. /\ TypeOK' /\ Checked'
        /\ \A q \in Requests : Taking(q)' => Taking(q) /\ q # r
    <2>1. role' \in [Users -> Roles \cup {"none"}] /\ raced' \in BOOLEAN
          /\ created' \in BOOLEAN
      BY <1>1, <1>2 DEF MembershipInv, TypeOK
    <2> QED BY <1>1, <1>2, <2>1, CloseStep
  <1>kept. raced => raced'
    BY <1>2
  <1>4. CASE raced'
    BY <1>3, <1>4 DEF OwnersGuarded, OwnerInv
  <1>5. CASE ~raced' /\ Taking(r)
    <2>1. Owners \ {target[r]} \subseteq Owners'
      BY <1>1, <1>2 DEF MembershipInv, TypeOK, Owners
    <2> QED BY <1>3, <1>5, <1>kept, <2>1, OwnerTaken DEF OwnersGuarded, MembershipInv
  <1>6. CASE ~raced' /\ ~Taking(r)
    <2>1. Owners \subseteq Owners'
      BY <1>1, <1>2, <1>6 DEF MembershipInv, TypeOK, Owners, OutdatedOwner, Taking,
         TakesOwner, TakesAway
    <2>2. created' => Owners' # {}
      BY <1>1, <1>6, <1>kept, <2>1 DEF MembershipInv, OwnerInv
    <2> QED BY <1>3, <1>kept, <2>1, <2>2, OwnersKept DEF OwnersGuarded, MembershipInv
  <1> QED BY <1>4, <1>5, <1>6 DEF OwnersGuarded, MembershipInv, TypeOK

-----------------------------------------------------------------------------
(* The theorems.                                                           *)

\* No request but a creation runs before the workspace exists.
LEMMA RowsComeWithWorkspace ==
  ASSUME MembershipInv, Next
  PROVE  NobodyBefore'
  <1>1. PICK r \in Requests :
          \/ UNCHANGED <<created, role>>
          \/ CommitCreate(r)
          \/ op[r] # "create" /\ phase[r] # "idle" /\ UNCHANGED created
    BY DEF Next, BeginCreate, BeginManage, Open, ReadNoMember, ReadTarget,
       CountOwners, Reject, CommitAdd, CommitChange, CommitRemove
  <1>2. op[r] # "create" /\ phase[r] # "idle" => created
    BY DEF MembershipInv, TypeOK
  <1> QED BY <1>1, <1>2 DEF MembershipInv, NobodyBefore, CommitCreate

\* Every step keeps the invariant.
LEMMA NextKeeps == MembershipInv /\ [Next]_vars => MembershipInv'
  <1> SUFFICES ASSUME MembershipInv, [Next]_vars PROVE MembershipInv'
    OBVIOUS
  <1>1. CASE UNCHANGED vars
    BY <1>1 DEF vars, requestVars, MembershipInv, TypeOK, Checked, OwnerInv,
       Taking, TakesOwner, TakesAway, TwoOwners, Owners, NobodyBefore
  <1>2. CASE Next
    <2>1. OwnersGuarded'
      BY <1>2, OpenStep, ReadStep, CountStep, RejectStep, AddStep, ChangeStep,
         RemoveStep DEF Next
    <2> QED BY <1>2, <2>1, RowsComeWithWorkspace DEF OwnersGuarded, MembershipInv
  <1> QED BY <1>1, <1>2

\* So it holds in every reachable state.
LEMMA Inductive == Spec => []MembershipInv
  BY InitHolds, NextKeeps, PTL DEF Spec

\* Every variable keeps its type, for any accounts and requests.
THEOREM MembershipTyped == Spec => []TypeOK
  <1>1. MembershipInv => TypeOK BY DEF MembershipInv
  <1> QED BY <1>1, Inductive, PTL

\* A workspace keeps an owner unless two requests were past the count at once
\* or one wrote over a promotion it had not seen.
THEOREM OwnerStays == Spec => []OwnerUnlessRaced
  <1>1. MembershipInv => OwnerUnlessRaced
    BY DEF MembershipInv, OwnerInv, OwnerUnlessRaced
  <1> QED BY <1>1, Inductive, PTL

\* What a step that changes a row was checked against.
LEMMA ChangedByChecked ==
  ASSUME MembershipInv, Next, NEW r \in Requests, NEW u \in Users,
         phase[r] = "ready", phase'[r] = "idle", role'[u] # role[u]
  PROVE  /\ role'[u] \in Privileged => actorRole[r] = "owner" \/ op[r] = "create"
         /\ role[u] \in Privileged =>
                actorRole[r] = "owner" \/ targetRole[r] \notin Privileged
  <1>1. /\ CommitCreate(r) \/ CommitAdd(r) \/ CommitChange(r) \/ CommitRemove(r)
    <2>1. PICK q \in Requests :
            \/ CommitCreate(q) \/ CommitAdd(q) \/ CommitChange(q) \/ CommitRemove(q)
      BY DEF Next, BeginCreate, BeginManage, Open, ReadNoMember, ReadTarget,
         CountOwners, Reject
    <2>2. phase' = [phase EXCEPT ![q] = "idle"]
      BY <2>1 DEF CommitCreate, CommitAdd, CommitChange, CommitRemove, Close
    <2>3. q = r
      BY <2>2 DEF MembershipInv, TypeOK
    <2> QED BY <2>1, <2>3
  <1>2. target[r] \in Users /\ (op[r] # "create" => actorRole[r] \in ManagesMembers)
    BY DEF MembershipInv, TypeOK
  <1>3. /\ op[r] \in {"add", "change"} => newRole[r] \in Manageable[actorRole[r]]
        /\ op[r] \in {"change", "remove"} => targetRole[r] \in Manageable[actorRole[r]]
    BY DEF MembershipInv, Checked
  <1>4. \A a \in ManagesMembers : \A b \in Manageable[a] :
          b \in Privileged => a = "owner"
    BY ManageableRoles DEF Privileged
  <1>5. CASE CommitCreate(r)
    <2>1. op[r] = "create" /\ ~created /\ role' = [role EXCEPT ![target[r]] = "owner"]
      BY <1>5 DEF CommitCreate
    <2>2. role[u] = "none"
      BY <2>1 DEF MembershipInv, NobodyBefore
    <2> QED BY <2>1, <2>2 DEF Privileged
  <1>6. CASE CommitAdd(r)
    <2>1. op[r] = "add" /\ role[target[r]] = "none"
          /\ role' = [role EXCEPT ![target[r]] = newRole[r]]
      BY <1>6 DEF CommitAdd
    <2>2. role[u] = "none" /\ role'[u] = newRole[r]
      BY <2>1 DEF MembershipInv, TypeOK
    <2> QED BY <1>2, <1>3, <1>4, <2>1, <2>2 DEF Privileged
  <1>7. CASE CommitChange(r)
    <2>1. op[r] = "change" /\ role' = [role EXCEPT ![target[r]] = newRole[r]]
      BY <1>7 DEF CommitChange
    <2>2. role'[u] = newRole[r]
      BY <2>1 DEF MembershipInv, TypeOK
    <2> QED BY <1>2, <1>3, <1>4, <2>1, <2>2
  <1>8. CASE CommitRemove(r)
    <2>1. op[r] = "remove" /\ role' = [role EXCEPT ![target[r]] = "none"]
      BY <1>8 DEF CommitRemove
    <2>2. role'[u] = "none"
      BY <2>1 DEF MembershipInv, TypeOK
    <2> QED BY <1>2, <1>3, <1>4, <2>1, <2>2 DEF Privileged
  <1> QED BY <1>1, <1>5, <1>6, <1>7, <1>8

\* Only owners hand out, take away or remove a privileged role; the exception
\* is a target that was not privileged when the request read it.
THEOREM AdminsManageOnlyMembers == Spec => PrivilegedByOwners
  <1>1. MembershipInv /\ [Next]_vars =>
          \A r \in Requests, u \in Users :
           phase[r] = "ready" /\ phase'[r] = "idle" /\ role'[u] # role[u]
             => /\ role'[u] \in Privileged => actorRole[r] = "owner" \/ op[r] = "create"
                /\ role[u] \in Privileged =>
                       actorRole[r] = "owner" \/ targetRole[r] \notin Privileged
    BY ChangedByChecked DEF vars
  <1> QED BY <1>1, Inductive, PTL DEF Spec, PrivilegedByOwners

-----------------------------------------------------------------------------
(* Requests that do not overlap.  What a request has read is then still so *)
(* when it writes, nothing races, and the docs' promise holds as it is     *)
(* written: it takes two requests to leave a workspace without an owner.   *)

OneRequest == \A q, r \in Requests : q = r

UpToDate ==
    /\ ~raced
    /\ \A r \in Requests :
        /\ lost[r] = {}
        /\ phase[r] # "idle" /\ own[r] => actorRole[r] = role[target[r]]
        /\ phase[r] \in {"count", "ready"} /\ op[r] \in {"change", "remove"} =>
               targetRole[r] = role[target[r]]

\* The steps of the only request that write no row.
LEMMA ReadsStayUpToDate ==
  ASSUME OneRequest, TypeOK, UpToDate, NEW r \in Requests,
         \/ \E u \in Users : BeginCreate(r, u)
         \/ \E o \in Ops, u, t \in Users, n \in Granted : BeginManage(r, o, u, t, n)
         \/ ReadNoMember(r) \/ ReadTarget(r) \/ CountOwners(r)
  PROVE  UpToDate'
  <1>1. \A q \in Requests : q = r
    BY DEF OneRequest
  <1>2. CASE \/ \E u \in Users : BeginCreate(r, u)
             \/ \E o \in Ops, u, t \in Users, n \in Granted : BeginManage(r, o, u, t, n)
    <2>1. PICK p \in {"ready", "target"}, o \in Ops, u \in Users, t \in Users,
                n \in Roles \cup {"none"} :
            Open(r, p, o, u, t, n) /\ (p = "ready" => o = "create")
      BY <1>2, GrantedAssumption DEF BeginCreate, BeginManage
    <2> QED BY <1>1, <2>1 DEF TypeOK, UpToDate, Open
  <1>3. CASE ReadNoMember(r)
    BY <1>1, <1>3 DEF TypeOK, UpToDate, ReadNoMember
  <1>4. CASE ReadTarget(r)
    <2>1. RoleRead(r) = role[target[r]]
      BY <1>4 DEF TypeOK, UpToDate, ReadTarget, RoleRead
    <2> QED BY <1>1, <1>4, <2>1 DEF TypeOK, UpToDate, ReadTarget
  <1>5. CASE CountOwners(r)
    BY <1>1, <1>5 DEF TypeOK, UpToDate, CountOwners, AnotherTakesOwner
  <1> QED BY <1>2, <1>3, <1>4, <1>5

\* The steps that end it: nothing outdated is written, and nobody else has
\* read the row.
LEMMA EndsStayUpToDate ==
  ASSUME OneRequest, TypeOK, UpToDate, NEW r \in Requests,
         \/ Reject(r) \/ CommitCreate(r) \/ CommitAdd(r)
         \/ CommitChange(r) \/ CommitRemove(r)
  PROVE  UpToDate'
  <1>1. \A q \in Requests : q = r
    BY DEF OneRequest
  <1>2. phase'[r] = "idle"
    BY DEF TypeOK, Reject, CommitCreate, CommitAdd, CommitChange, CommitRemove, Close
  <1>3. ~OutdatedOwner(r) \/ op[r] \notin {"change", "remove"} \/ phase[r] # "ready"
    BY DEF UpToDate, OutdatedOwner
  <1>4. lost'[r] = {}
    BY DEF TypeOK, Reject, CommitCreate, CommitAdd, CommitChange, CommitRemove
  <1>5. ~raced'
    BY <1>3 DEF UpToDate, Reject, CommitCreate, CommitAdd, CommitChange, CommitRemove
  <1> QED BY <1>1, <1>2, <1>4, <1>5 DEF UpToDate

LEMMA SerialUpToDate == ASSUME OneRequest PROVE Spec => []UpToDate
  <1>1. Init => UpToDate
    BY DEF Init, UpToDate
  <1>2. TypeOK /\ UpToDate /\ [Next]_vars => UpToDate'
    <2> SUFFICES ASSUME TypeOK, UpToDate, [Next]_vars PROVE UpToDate'
      OBVIOUS
    <2>1. CASE UNCHANGED vars
      BY <2>1 DEF vars, requestVars, UpToDate
    <2>2. CASE Next
      BY <2>2, ReadsStayUpToDate, EndsStayUpToDate DEF Next
    <2> QED BY <2>1, <2>2
  <1> QED BY <1>1, <1>2, MembershipTyped, PTL DEF Spec

\* One request at a time: "the last owner can never be demoted or removed"
\* (docs/DEVELOPMENT.md), without exception.
THEOREM SerialLastOwnerStays == ASSUME OneRequest PROVE Spec => []LastOwnerStays
  <1>1. OwnerUnlessRaced /\ UpToDate => LastOwnerStays
    BY DEF OwnerUnlessRaced, UpToDate, LastOwnerStays
  <1> QED BY <1>1, OwnerStays, SerialUpToDate, PTL
=============================================================================
