------------------------------- MODULE Members -------------------------------
(***************************************************************************)
(* Workspaces, memberships and user accounts under concurrent requests:    *)
(* WorkspacesService and the account administration of UsersService.       *)
(*                                                                         *)
(* A guard reads the actor's role once, at the start of a request.  A      *)
(* handler then reads what the request is about, one query per action, and *)
(* writes in a last step.  Demotions, removals and deactivations write in  *)
(* a serializable transaction: one action, at its place in the serial      *)
(* order that PostgreSQL keeps among such transactions, and where it       *)
(* refuses to serialize one the request is aborted.  Nothing orders them   *)
(* with the others' inserts, which run READ COMMITTED: a deactivation sees *)
(* the rows of its snapshot only.  (To a demotion or a removal an unseen   *)
(* row is one owner fewer, one more reason to be refused.)                 *)
(*                                                                         *)
(* Abstractions: a user is named by the e-mail address, a workspace by its *)
(* slug; names and renaming are left out; a refused check changes nothing  *)
(* and is no action.  A membership row keeps its identity: a row inserted  *)
(* after a removal is another row.                                         *)
(***************************************************************************)
EXTENDS Naturals, FiniteSets, ContentDomain

CONSTANTS
  Users, Workspaces,
  Memberships,  \* bound: the membership rows that are ever inserted
  Requests,     \* requests in flight at the same time
  GivenRoles,   \* bound: the roles that requests hand out
  NoUser, NoWorkspace, NoMembership

ASSUME MembersAssumption ==
  /\ IsFiniteSet(Memberships)
  /\ GivenRoles \subseteq Roles
  /\ NoUser \notin Users
  /\ NoWorkspace \notin Workspaces
  /\ NoMembership \notin Memberships

VARIABLES
  user,         \* status of each account
  workspace,    \* isActive of each workspace
  membership,   \* the workspace_members rows
  request       \* what each request in flight has read

vars == <<user, workspace, membership, request>>

UserStatus == { "NONE", "ACTIVE", "INACTIVE" }

WorkspaceStatus == { "NONE", "ACTIVE", "INACTIVE" }

\* live: the row is in the table; used: it is or has been.
Membership ==
  [ used : BOOLEAN, live : BOOLEAN, user : Users \cup {NoUser},
    workspace : Workspaces \cup {NoWorkspace}, role : Roles ]

Operations ==
  { "idle", "createWorkspace", "closeWorkspace", "add", "changeRole", "remove",
    "createUser", "deactivate", "reactivate" }

\* role: the actor's; seen: the role read of the target; next: the role to give; known: the
\* rows in the snapshot of the transaction.
Request ==
  [ op : Operations, phase : { "admitted", "read", "checked", "open" },
    actor : Users \cup {NoUser}, workspace : Workspaces \cup {NoWorkspace},
    role : Roles, user : Users \cup {NoUser},
    target : Memberships \cup {NoMembership}, seen : Roles, next : Roles,
    known : SUBSET Memberships ]

NoRequest ==
  [ op |-> "idle", phase |-> "admitted", actor |-> NoUser, workspace |-> NoWorkspace,
    role |-> "VIEWER", user |-> NoUser, target |-> NoMembership,
    seen |-> "VIEWER", next |-> "VIEWER", known |-> {} ]

TypeOK ==
  /\ user \in [ Users -> UserStatus ]
  /\ workspace \in [ Workspaces -> WorkspaceStatus ]
  /\ membership \in [ Memberships -> Membership ]
  /\ request \in [ Requests -> Request ]
  /\ \A m \in Memberships :
       membership[m].live => /\ membership[m].used
                             /\ membership[m].user \in Users
                             /\ membership[m].workspace \in Workspaces

\* The seed: one workspace with its active owner; the other accounts do not exist.
Init ==
  \E u \in Users, w \in Workspaces, m \in Memberships :
    /\ user = [ v \in Users |-> IF v = u THEN "ACTIVE" ELSE "NONE" ]
    /\ workspace = [ x \in Workspaces |-> IF x = w THEN "ACTIVE" ELSE "NONE" ]
    /\ membership =
         [ n \in Memberships |->
             IF n = m THEN [ used |-> TRUE, live |-> TRUE, user |-> u, workspace |-> w,
                             role |-> "OWNER" ]
             ELSE [ used |-> FALSE, live |-> FALSE, user |-> NoUser,
                    workspace |-> NoWorkspace, role |-> "VIEWER" ] ]
    /\ request = [ r \in Requests |-> NoRequest ]

-----------------------------------------------------------------------------
(* Queries *)

Belongs(m, u, w) ==
  membership[m].live /\ membership[m].user = u /\ membership[m].workspace = w

Owns(m, w) ==
  membership[m].live /\ membership[m].workspace = w /\ membership[m].role = "OWNER"

ActiveOwners(w) ==
  { m \in Memberships : Owns(m, w) /\ user[membership[m].user] = "ACTIVE" }

\* Faulty variant: counts the owners whose accounts are switched off, too.
CountsEveryOwner(w, rows) == Cardinality({ m \in rows : Owns(m, w) }) > 1

\* Among the rows that the transaction sees.
assertMoreThanOneActiveOwner(w, rows) == Cardinality(ActiveOwners(w) \cap rows) > 1

\* Roles a user manages accounts with, over all active workspaces.
ManagerRoles(u) ==
  { role \in { "OWNER", "ADMIN" } :
      \E m \in Memberships : /\ membership[m].live
                             /\ membership[m].user = u
                             /\ membership[m].role = role
                             /\ workspace[membership[m].workspace] = "ACTIVE" }

OwnsActiveWorkspace(u) == "OWNER" \in ManagerRoles(u)

-----------------------------------------------------------------------------
(* Guards: the start of a request *)

Start(r, started) ==
  /\ request[r] = NoRequest
  /\ request' = [ request EXCEPT ![r] = started ]
  /\ UNCHANGED <<user, workspace, membership>>

Advance(r, op, phase) ==
  /\ request[r].op = op
  /\ request[r].phase = phase
  /\ UNCHANGED <<user, workspace, membership>>

Finish(r) == request' = [ request EXCEPT ![r] = NoRequest ]

\* Who may do what in a workspace: members.create, .update, .delete, workspace.deactivate.
Permitted(role, op) ==
  CASE op \in { "add", "changeRole", "remove" } -> role \in { "OWNER", "ADMIN" }
    [] op = "closeWorkspace" -> role = "OWNER"

\* AccessTokenGuard, WorkspaceGuard and PermissionGuard of a workspace route.
WorkspaceRoute(r) ==
  \E u \in Users, w \in Workspaces, m \in Memberships,
     op \in { "add", "changeRole", "remove", "closeWorkspace" } :
    /\ Belongs(m, u, w)
    /\ workspace[w] = "ACTIVE"
    /\ user[u] = "ACTIVE"
    /\ Permitted(membership[m].role, op)
    /\ Start(r, [ NoRequest EXCEPT !.op = op, !.workspace = w,
                                   !.role = membership[m].role ])

\* AccessTokenGuard of an account route; nobody deactivates their own account.
UserRoute(r) ==
  \E a \in Users, u \in Users, op \in { "createUser", "deactivate", "reactivate" } :
    /\ user[a] = "ACTIVE"
    /\ op = "deactivate" => a # u
    /\ Start(r, [ NoRequest EXCEPT !.op = op, !.actor = a, !.user = u ])

\* AccessTokenGuard and the slug check of POST /workspaces.
BeginCreateWorkspace(r) ==
  \E a \in Users, w \in Workspaces :
    /\ user[a] = "ACTIVE"
    /\ workspace[w] = "NONE"
    /\ Start(r, [ NoRequest EXCEPT !.op = "createWorkspace", !.phase = "checked",
                                   !.user = a, !.workspace = w ])

-----------------------------------------------------------------------------
(* WorkspacesService *)

\* Faulty variant: nothing but the earlier look-up keeps memberships unique.
InsertAnyway(u, w, role) ==
  \E m \in Memberships :
    /\ ~membership[m].used
    /\ membership' = [ membership EXCEPT ![m] =
         [ used |-> TRUE, live |-> TRUE, user |-> u, workspace |-> w, role |-> role ] ]

\* INSERT under the unique index on user and workspace.
Insert(u, w, role) ==
  /\ \A n \in Memberships : ~Belongs(n, u, w)
  /\ \E m \in Memberships :
       /\ ~membership[m].used
       /\ membership' = [ membership EXCEPT ![m] =
            [ used |-> TRUE, live |-> TRUE, user |-> u, workspace |-> w, role |-> role ] ]

create(r) ==
  /\ request[r].op = "createWorkspace"
  /\ workspace[request[r].workspace] = "NONE"
  /\ workspace' = [ workspace EXCEPT ![request[r].workspace] = "ACTIVE" ]
  /\ Insert(request[r].user, request[r].workspace, "OWNER")
  /\ Finish(r)
  /\ UNCHANGED user

deactivateWorkspace(r) ==
  /\ request[r].op = "closeWorkspace"
  /\ workspace' = [ workspace EXCEPT ![request[r].workspace] = "INACTIVE" ]
  /\ Finish(r)
  /\ UNCHANGED <<user, membership>>

assertRoleAssignment(actorRole, role) == actorRole = "ADMIN" => role # "OWNER"

\* Faulty variant: goes on without an account.
FindNoUser(r) ==
  \E next \in GivenRoles :
    /\ Advance(r, "add", "admitted")
    /\ assertRoleAssignment(request[r].role, next)
    /\ request' = [ request EXCEPT ![r].phase = "read", ![r].next = next ]

\* addMember: the role is allowed and the account exists and is active ...
FindUser(r) ==
  \E u \in Users, next \in GivenRoles :
    /\ Advance(r, "add", "admitted")
    /\ assertRoleAssignment(request[r].role, next)
    /\ user[u] = "ACTIVE"
    /\ request' = [ request EXCEPT ![r].phase = "read", ![r].user = u, ![r].next = next ]

\* ... and is not a member yet.
FindDuplicate(r) ==
  /\ Advance(r, "add", "read")
  /\ \A m \in Memberships : ~Belongs(m, request[r].user, request[r].workspace)
  /\ request' = [ request EXCEPT ![r].phase = "checked" ]

addMember(r) ==
  /\ request[r].op = "add"
  /\ request[r].phase = "checked"
  /\ Insert(request[r].user, request[r].workspace, request[r].next)
  /\ Finish(r)
  /\ UNCHANGED <<user, workspace>>

\* Faulty variant: checks what the member is, not what the member becomes.
MutationOfAnOwner(actorRole, current, next) == actorRole = "ADMIN" => current # "OWNER"

assertRoleMutation(actorRole, current, next) ==
  actorRole = "ADMIN" => current # "OWNER" /\ next # "OWNER"

\* Both handlers read the member outside their transaction.
ReadMember(r, op, next, m) ==
  /\ Advance(r, op, "admitted")
  /\ membership[m].live
  /\ membership[m].workspace = request[r].workspace
  /\ request' = [ request EXCEPT ![r].phase = "checked", ![r].target = m,
                                 ![r].seen = membership[m].role, ![r].next = next ]

BeginChangeRole(r) ==
  \E m \in Memberships, next \in GivenRoles :
    /\ assertRoleMutation(request[r].role, membership[m].role, next)
    /\ ReadMember(r, "changeRole", next, m)

BeginRemoveMember(r) ==
  \E m \in Memberships :
    /\ request[r].role = "ADMIN" => membership[m].role # "OWNER"
    /\ ReadMember(r, "remove", "VIEWER", m)

changeRole(r) ==
  LET m == request[r].target IN
    /\ request[r].op = "changeRole"
    /\ request[r].phase = "checked"
    /\ request[r].seen = "OWNER" /\ request[r].next # "OWNER" =>
         assertMoreThanOneActiveOwner(request[r].workspace, Memberships)
    /\ membership[m].live
    /\ membership' = [ membership EXCEPT ![m].role = request[r].next ]
    /\ Finish(r)
    /\ UNCHANGED <<user, workspace>>

removeMember(r) ==
  LET m == request[r].target IN
    /\ request[r].op = "remove"
    /\ request[r].phase = "checked"
    /\ request[r].seen = "OWNER" =>
         assertMoreThanOneActiveOwner(request[r].workspace, Memberships)
    /\ membership[m].live
    /\ membership' = [ membership EXCEPT ![m].live = FALSE ]
    /\ Finish(r)
    /\ UNCHANGED <<user, workspace>>

-----------------------------------------------------------------------------
(* UsersService *)

\* The actor manages some active workspace.
assertManager(r) ==
  \E op \in { "createUser", "deactivate", "reactivate" } :
    /\ Advance(r, op, "admitted")
    /\ ManagerRoles(request[r].actor) # {}
    /\ request' =
         [ request EXCEPT
             ![r].phase = IF op = "createUser" THEN "checked" ELSE "read",
             ![r].role = IF OwnsActiveWorkspace(request[r].actor) THEN "OWNER" ELSE "ADMIN" ]

\* The account exists, and an Admin does not manage an Owner's account.
assertCanManage(r) ==
  \E op \in { "deactivate", "reactivate" } :
    /\ Advance(r, op, "read")
    /\ user[request[r].user] # "NONE"
    /\ request[r].role = "ADMIN" => ~OwnsActiveWorkspace(request[r].user)
    /\ request' = [ request EXCEPT ![r].phase = "checked" ]

createUser(r) ==
  /\ request[r].op = "createUser"
  /\ request[r].phase = "checked"
  /\ user[request[r].user] = "NONE"
  /\ user' = [ user EXCEPT ![request[r].user] = "ACTIVE" ]
  /\ Finish(r)
  /\ UNCHANGED <<workspace, membership>>

\* The transaction takes its snapshot: rows inserted from here on are unknown to it.
BeginDeactivate(r) ==
  /\ Advance(r, "deactivate", "checked")
  /\ request' = [ request EXCEPT ![r].phase = "open",
                                 ![r].known = { m \in Memberships : membership[m].live } ]

\* Faulty variant: looks at one workspace of the account only.
OneWorkspaceKeepsAnOwner(u, known) ==
  LET owned == { w \in Workspaces : workspace[w] = "ACTIVE" /\
                   \E m \in known : Belongs(m, u, w) /\ Owns(m, w) }
  IN owned = {} \/ \E w \in owned : assertMoreThanOneActiveOwner(w, known)

\* Each active workspace the account is known to own has another known active owner.
OwnedKeepAnOwner(u, known) ==
  \A w \in Workspaces :
    workspace[w] = "ACTIVE" /\ (\E m \in known : Belongs(m, u, w) /\ Owns(m, w)) =>
      assertMoreThanOneActiveOwner(w, known)

deactivate(r) ==
  /\ request[r].op = "deactivate"
  /\ request[r].phase = "open"
  /\ OwnedKeepAnOwner(request[r].user, request[r].known)
  /\ user' = [ user EXCEPT ![request[r].user] = "INACTIVE" ]
  /\ Finish(r)
  /\ UNCHANGED <<workspace, membership>>

reactivate(r) ==
  /\ request[r].op = "reactivate"
  /\ request[r].phase = "checked"
  /\ user' = [ user EXCEPT ![request[r].user] = "ACTIVE" ]
  /\ Finish(r)
  /\ UNCHANGED <<workspace, membership>>

\* Every way of answering with an error, and of not answering at all.
Abort(r) ==
  /\ request[r] # NoRequest
  /\ Finish(r)
  /\ UNCHANGED <<user, workspace, membership>>

Step(r) ==
  \/ WorkspaceRoute(r) \/ UserRoute(r) \/ BeginCreateWorkspace(r)
  \/ create(r) \/ deactivateWorkspace(r)
  \/ FindUser(r) \/ FindDuplicate(r) \/ addMember(r)
  \/ BeginChangeRole(r) \/ changeRole(r)
  \/ BeginRemoveMember(r) \/ removeMember(r)
  \/ assertManager(r) \/ assertCanManage(r)
  \/ createUser(r) \/ BeginDeactivate(r) \/ deactivate(r) \/ reactivate(r)
  \/ Abort(r)

Next == \E r \in Requests : Step(r)

Spec == Init /\ [][Next]_vars

-----------------------------------------------------------------------------
(* Properties *)

HasActiveOwner(w) == ActiveOwners(w) # {}

\* Every active workspace has an owner who can log in.  Holds as long as requests
\* follow one another; two in flight can break it (changeRole, removeMember, create,
\* deactivate).
OwnerRemains == \A w \in Workspaces : workspace[w] = "ACTIVE" => HasActiveOwner(w)

\* No two rows for the same user and workspace, although addMember looks for a
\* duplicate long before it inserts.
OneMembership ==
  \A m, n \in Memberships :
    membership[m].live /\ membership[n].live /\ membership[m].user = membership[n].user
      /\ membership[m].workspace = membership[n].workspace => m = n

\* A request that acts on a role it read before the row became an owner's.
StaleOn(r, w) ==
  /\ request[r].op \in { "changeRole", "remove" }
  /\ request[r].seen # "OWNER"
  /\ request[r].target \in Memberships
  /\ Owns(request[r].target, w)

\* A deactivation of an account that became an owner by a row inserted after the snapshot.
UnseenOwner(r, w) ==
  /\ request[r].op = "deactivate"
  /\ request[r].phase = "open"
  /\ \E m \in Memberships \ request[r].known : Belongs(m, request[r].user, w) /\ Owns(m, w)

\* The last active owner is lost in two ways only: by a request that read the member before
\* the member became an owner, or by a deactivation whose transaction began before its
\* account was inserted as an owner.  Every other demotion, removal and deactivation, in
\* whatever order they come, leaves each active workspace with an active owner.
LosesOwnerOnlyStale ==
  \A w \in Workspaces :
    workspace[w] = "ACTIVE" /\ HasActiveOwner(w) /\ ~HasActiveOwner(w)' =>
      \E r \in Requests : (StaleOn(r, w) \/ UnseenOwner(r, w)) /\ request'[r] = NoRequest
OwnersLostOnlyStale == [][LosesOwnerOnlyStale]_vars

\* Nobody becomes an owner through an Admin: the row turns into an owner's only in a
\* step of a request whose actor was an owner, or with the workspace itself.
OwnersMakeOwners ==
  \A m \in Memberships :
    LET w == membership'[m].workspace IN
      membership'[m].live /\ membership'[m].role = "OWNER" /\ ~Owns(m, w) =>
        \/ workspace[w] = "NONE"
        \/ \E r \in Requests :
             request[r].role = "OWNER" /\ request[r].workspace = w /\ request'[r] = NoRequest
OwnershipFromOwners == [][OwnersMakeOwners]_vars
=============================================================================
