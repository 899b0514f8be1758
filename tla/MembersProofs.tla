---------------------------- MODULE MembersProofs ----------------------------
(***************************************************************************)
(* What holds of Members for every set of accounts, workspaces, rows and   *)
(* requests: types, one membership per user and workspace, the only ways   *)
(* to lose the last active owner, who makes owners, and that requests      *)
(* which follow one another never leave a workspace without one.           *)
(***************************************************************************)
EXTENDS Members, FiniteSetTheorems, TLAPS

-----------------------------------------------------------------------------
(* The inductive invariant: what requests have checked, besides the types. *)

\* The target of a demotion or removal is a row of the workspace, and an Admin's
\* request neither starts from an owner nor makes one.
RequestChecked(q) ==
  /\ q.op \in { "add", "changeRole", "remove" } => /\ q.role \in { "OWNER", "ADMIN" }
                                                   /\ q.workspace \in Workspaces
  /\ q.op \in { "add", "changeRole" } /\ q.phase # "admitted" /\ q.role = "ADMIN" =>
       q.next # "OWNER"
  /\ q.op \in { "changeRole", "remove" } /\ q.phase = "checked" =>
       /\ q.target \in Memberships
       /\ membership[q.target].used
       /\ membership[q.target].workspace = q.workspace
  /\ q.op = "add" /\ q.phase # "admitted" => q.user \in Users
  /\ q.op = "createWorkspace" => q.user \in Users /\ q.workspace \in Workspaces

RequestSound == \A r \in Requests : RequestChecked(request[r])

IInv == TypeOK /\ OneMembership /\ RequestSound

\* The steps that leave the rows, the accounts and the workspaces alone.
Reads(r) ==
  \/ WorkspaceRoute(r) \/ UserRoute(r) \/ BeginCreateWorkspace(r)
  \/ FindUser(r) \/ FindDuplicate(r) \/ BeginChangeRole(r) \/ BeginRemoveMember(r)
  \/ assertManager(r) \/ assertCanManage(r) \/ BeginDeactivate(r) \/ Abort(r)

LEMMA ReadsOnly ==
  ASSUME NEW r \in Requests, Reads(r)
  PROVE  UNCHANGED <<user, workspace, membership>>
BY DEF Reads, WorkspaceRoute, UserRoute, BeginCreateWorkspace, FindUser, FindDuplicate,
   BeginChangeRole, BeginRemoveMember, ReadMember, assertManager, assertCanManage,
   BeginDeactivate, Abort, Start, Advance

LEMMA IdleChecked == NoRequest \in Request /\ RequestChecked(NoRequest)
BY DEF NoRequest, Request, Operations, Roles, RequestChecked

LEMMA FinishRequests ==
  ASSUME TypeOK, NEW r \in Requests, Finish(r)
  PROVE  /\ request' \in [ Requests -> Request ]
         /\ request'[r] = NoRequest
         /\ \A s \in Requests : s # r => request'[s] = request[s]
BY IdleChecked DEF TypeOK, Finish

\* A step that changes one request only leaves the invariant if the new request is sound.
LEMMA QuietStep ==
  ASSUME IInv, NEW r \in Requests, NEW q \in Request, RequestChecked(q),
         UNCHANGED <<user, workspace, membership>>,
         request' = [ request EXCEPT ![r] = q ]
  PROVE  IInv'
<1>1. TypeOK'
  BY DEF IInv, TypeOK
<1>2. OneMembership'
  BY DEF IInv, OneMembership
<1>3. RequestSound'
  <2>1. \A s \in Requests : request'[s] = IF s = r THEN q ELSE request[s]
    BY DEF IInv, TypeOK
  <2>2. QED
    BY <2>1 DEF IInv, RequestSound, RequestChecked
<1>4. QED
  BY <1>1, <1>2, <1>3 DEF IInv

LEMMA ReadStep ==
  ASSUME IInv, NEW r \in Requests, Reads(r)
  PROVE  IInv'
<1> request[r] \in Request /\ RequestChecked(request[r])
  BY DEF IInv, TypeOK, RequestSound
<1> USE MembersAssumption
<1>1. CASE WorkspaceRoute(r)
  <2>1. PICK u \in Users, w \in Workspaces, m \in Memberships,
             op \in { "add", "changeRole", "remove", "closeWorkspace" } :
          /\ Permitted(membership[m].role, op)
          /\ Start(r, [ NoRequest EXCEPT !.op = op, !.workspace = w,
                                         !.role = membership[m].role ])
    BY <1>1 DEF WorkspaceRoute
  <2> DEFINE q == [ NoRequest EXCEPT !.op = op, !.workspace = w, !.role = membership[m].role ]
  <2>2. membership[m].role \in Roles
    BY DEF IInv, TypeOK, Membership
  <2>3. q \in Request
    BY <2>2, IdleChecked DEF Request, Operations
  <2>4. RequestChecked(q)
    BY <2>1, <2>2 DEF NoRequest, RequestChecked, Permitted
  <2> HIDE DEF q
  <2>5. QED
    BY <2>1, <2>3, <2>4, QuietStep DEF Start, q
<1>2. CASE UserRoute(r)
  <2>1. PICK a \in Users, u \in Users, op \in { "createUser", "deactivate", "reactivate" } :
          Start(r, [ NoRequest EXCEPT !.op = op, !.actor = a, !.user = u ])
    BY <1>2 DEF UserRoute
  <2> DEFINE q == [ NoRequest EXCEPT !.op = op, !.actor = a, !.user = u ]
  <2>2. q \in Request
    BY IdleChecked DEF Request, Operations
  <2>3. RequestChecked(q)
    BY DEF NoRequest, RequestChecked
  <2> HIDE DEF q
  <2>4. QED
    BY <2>1, <2>2, <2>3, QuietStep DEF Start, q
<1>3. CASE BeginCreateWorkspace(r)
  <2>1. PICK a \in Users, w \in Workspaces :
          Start(r, [ NoRequest EXCEPT !.op = "createWorkspace", !.phase = "checked",
                                      !.user = a, !.workspace = w ])
    BY <1>3 DEF BeginCreateWorkspace
  <2> DEFINE q == [ NoRequest EXCEPT !.op = "createWorkspace", !.phase = "checked",
                                     !.user = a, !.workspace = w ]
  <2>2. q \in Request
    BY IdleChecked DEF Request, Operations
  <2>3. RequestChecked(q)
    BY DEF NoRequest, RequestChecked
  <2> HIDE DEF q
  <2>4. QED
    BY <2>1, <2>2, <2>3, QuietStep DEF Start, q
<1>4. CASE FindUser(r)
  <2>1. PICK u \in Users, next \in GivenRoles :
          /\ Advance(r, "add", "admitted")
          /\ assertRoleAssignment(request[r].role, next)
          /\ request' = [ request EXCEPT ![r].phase = "read", ![r].user = u, ![r].next = next ]
    BY <1>4 DEF FindUser
  <2> DEFINE q == [ request[r] EXCEPT !.phase = "read", !.user = u, !.next = next ]
  <2>2. q \in Request /\ request' = [ request EXCEPT ![r] = q ]
    BY <2>1 DEF Request, IInv, TypeOK
  <2>3. RequestChecked(q)
    BY <2>1 DEF Request, RequestChecked, Advance, assertRoleAssignment
  <2> HIDE DEF q
  <2>4. QED
    BY <2>1, <2>2, <2>3, QuietStep DEF Advance
<1>5. CASE FindDuplicate(r)
  <2> DEFINE q == [ request[r] EXCEPT !.phase = "checked" ]
  <2>2. q \in Request /\ request' = [ request EXCEPT ![r] = q ]
    BY <1>5 DEF FindDuplicate, Request, IInv, TypeOK
  <2>3. RequestChecked(q)
    BY <1>5 DEF FindDuplicate, Request, RequestChecked, Advance
  <2> HIDE DEF q
  <2>4. QED
    BY <1>5, <2>2, <2>3, QuietStep DEF FindDuplicate, Advance
<1>6. ASSUME NEW op \in { "changeRole", "remove" }, NEW next \in Roles, NEW m \in Memberships,
             ReadMember(r, op, next, m),
             request[r].role = "ADMIN" => next # "OWNER"
      PROVE  IInv'
  <2> DEFINE q == [ request[r] EXCEPT !.phase = "checked", !.target = m,
                                      !.seen = membership[m].role, !.next = next ]
  <2>1. membership[m] \in Membership
    BY DEF IInv, TypeOK
  <2>2. q \in Request /\ request' = [ request EXCEPT ![r] = q ]
    BY <1>6, <2>1 DEF ReadMember, Request, Membership, IInv, TypeOK
  <2>3. RequestChecked(q)
    BY <1>6, <2>1 DEF ReadMember, Request, RequestChecked, Advance, IInv, TypeOK
  <2> HIDE DEF q
  <2>4. QED
    BY <1>6, <2>2, <2>3, QuietStep DEF ReadMember, Advance
<1>7. CASE BeginChangeRole(r)
  BY <1>6, <1>7 DEF BeginChangeRole, assertRoleMutation
<1>8. CASE BeginRemoveMember(r)
  BY <1>6, <1>8 DEF BeginRemoveMember, Roles
<1>9. CASE assertManager(r)
  <2>1. PICK op \in { "createUser", "deactivate", "reactivate" } :
          /\ Advance(r, op, "admitted")
          /\ request' =
               [ request EXCEPT
                   ![r].phase = IF op = "createUser" THEN "checked" ELSE "read",
                   ![r].role = IF OwnsActiveWorkspace(request[r].actor) THEN "OWNER" ELSE "ADMIN" ]
    BY <1>9 DEF assertManager
  <2> DEFINE phase == IF op = "createUser" THEN "checked" ELSE "read"
             role == IF OwnsActiveWorkspace(request[r].actor) THEN "OWNER" ELSE "ADMIN"
             q == [ request[r] EXCEPT !.phase = phase, !.role = role ]
  <2>2. request' = [ request EXCEPT ![r] = q ]
    BY <2>1 DEF IInv, TypeOK
  <2>3. phase \in { "checked", "read" } /\ role \in Roles
    BY DEF Roles
  <2> HIDE DEF phase, role
  <2>4. q \in Request
    BY <2>3 DEF Request
  <2>5. RequestChecked(q)
    BY <2>1 DEF Request, RequestChecked, Advance
  <2> HIDE DEF q
  <2>6. QED
    BY <2>1, <2>2, <2>4, <2>5, QuietStep DEF Advance
<1>10. CASE assertCanManage(r)
  <2>1. PICK op \in { "deactivate", "reactivate" } :
          /\ Advance(r, op, "read")
          /\ request' = [ request EXCEPT ![r].phase = "checked" ]
    BY <1>10 DEF assertCanManage
  <2> DEFINE q == [ request[r] EXCEPT !.phase = "checked" ]
  <2>2. q \in Request /\ request' = [ request EXCEPT ![r] = q ]
    BY <2>1 DEF Request, IInv, TypeOK
  <2>3. RequestChecked(q)
    BY <2>1 DEF Request, RequestChecked, Advance
  <2> HIDE DEF q
  <2>4. QED
    BY <2>1, <2>2, <2>3, QuietStep DEF Advance
<1>11. CASE BeginDeactivate(r)
  <2> DEFINE known == { m \in Memberships : membership[m].live }
             q == [ request[r] EXCEPT !.phase = "open", !.known = known ]
  <2>1. known \in SUBSET Memberships
    OBVIOUS
  <2> HIDE DEF known
  <2>2. q \in Request
    BY <2>1 DEF Request
  <2>3. request' = [ request EXCEPT ![r] = q ]
    BY <1>11 DEF BeginDeactivate, IInv, TypeOK, known
  <2>4. RequestChecked(q)
    BY <1>11 DEF BeginDeactivate, Request, RequestChecked, Advance
  <2> HIDE DEF q
  <2>5. QED
    BY <1>11, <2>2, <2>3, <2>4, QuietStep DEF BeginDeactivate, Advance
<1>12. CASE Abort(r)
  BY <1>12, IdleChecked, QuietStep DEF Abort, Finish
<1>13. QED
  BY <1>1, <1>2, <1>3, <1>4, <1>5, <1>7, <1>8, <1>9, <1>10, <1>11, <1>12 DEF Reads

-----------------------------------------------------------------------------
(* The writes *)

\* The typing of the rows, the conjuncts of TypeOK that inserts and updates disturb.
RowsTyped ==
  /\ membership \in [ Memberships -> Membership ]
  /\ \A m \in Memberships :
       membership[m].live => /\ membership[m].used
                             /\ membership[m].user \in Users
                             /\ membership[m].workspace \in Workspaces

\* The row m is inserted; all others stay.
Inserted(m, u, w, role) ==
  /\ ~membership[m].used
  /\ membership'[m] = [ used |-> TRUE, live |-> TRUE, user |-> u, workspace |-> w, role |-> role ]
  /\ \A n \in Memberships \ {m} : membership'[n] = membership[n]

LEMMA InsertRow ==
  ASSUME IInv, NEW u \in Users, NEW w \in Workspaces, NEW role \in Roles, Insert(u, w, role)
  PROVE  /\ \E m \in Memberships : Inserted(m, u, w, role)
         /\ RowsTyped'
         /\ OneMembership'
<1>1. PICK m \in Memberships :
        /\ ~membership[m].used
        /\ membership' = [ membership EXCEPT ![m] =
             [ used |-> TRUE, live |-> TRUE, user |-> u, workspace |-> w, role |-> role ] ]
  BY DEF Insert
<1> DEFINE row == [ used |-> TRUE, live |-> TRUE, user |-> u, workspace |-> w, role |-> role ]
<1>2. row \in Membership
  BY DEF Membership
<1>3. Inserted(m, u, w, role) /\ membership' \in [ Memberships -> Membership ]
  BY <1>1, <1>2 DEF IInv, TypeOK, Inserted
<1>4. RowsTyped'
  BY <1>3 DEF IInv, TypeOK, Inserted, RowsTyped
<1>5. OneMembership'
  <2>1. \A n \in Memberships : ~Belongs(n, u, w)
    BY DEF Insert
  <2>2. QED
    BY <1>3, <2>1 DEF IInv, OneMembership, Inserted, Belongs
<1>6. QED
  BY <1>3, <1>4, <1>5

\* A finished request and rows that keep their identity leave the other requests sound.
LEMMA SoundAfterFinish ==
  ASSUME IInv, NEW r \in Requests, Finish(r),
         \A m \in Memberships : membership[m].used =>
           membership'[m].used /\ membership'[m].workspace = membership[m].workspace
  PROVE  RequestSound' /\ request' \in [ Requests -> Request ]
<1>1. \A s \in Requests : request'[s] = request[s] \/ request'[s] = NoRequest
  BY FinishRequests DEF IInv
<1>2. \A s \in Requests : RequestChecked(request[s]) => RequestChecked(request[s])'
  <2> SUFFICES ASSUME NEW s \in Requests, RequestChecked(request[s])
               PROVE  RequestChecked(request[s])'
    OBVIOUS
  <2>1. CASE request'[s] = NoRequest
    BY <2>1 DEF RequestChecked, NoRequest
  <2>2. CASE request'[s] = request[s]
    BY <2>2 DEF RequestChecked
  <2>3. QED
    BY <1>1, <2>1, <2>2
<1>3. QED
  BY <1>2, FinishRequests DEF IInv, RequestSound

\* Demotions and removals: one row of the request's workspace changes role or leaves.
LEMMA TargetWrite ==
  ASSUME IInv, NEW r \in Requests, changeRole(r) \/ removeMember(r)
  PROVE  LET m == request[r].target IN
           /\ m \in Memberships /\ membership[m].live
           /\ membership[m].workspace = request[r].workspace
           /\ request[r].workspace \in Workspaces
           /\ RowsTyped'
           /\ membership'[m].workspace = membership[m].workspace
           /\ membership'[m].user = membership[m].user
           /\ membership'[m].used
           /\ changeRole(r) => membership'[m].live /\ membership'[m].role = request[r].next
           /\ removeMember(r) => ~membership'[m].live
           /\ \A n \in Memberships \ {m} : membership'[n] = membership[n]
<1> DEFINE m == request[r].target
<1>1. RequestChecked(request[r]) /\ request[r] \in Request
  BY DEF IInv, TypeOK, RequestSound
<1>2. m \in Memberships /\ membership[m].live /\ membership[m].workspace = request[r].workspace
      /\ request[r].workspace \in Workspaces
  BY <1>1 DEF RequestChecked, changeRole, removeMember
<1>3. membership[m] \in Membership
  BY <1>2 DEF IInv, TypeOK
<1> DEFINE row == IF changeRole(r) THEN [ membership[m] EXCEPT !.role = request[r].next ]
                  ELSE [ membership[m] EXCEPT !.live = FALSE ]
<1>4. membership' = [ membership EXCEPT ![m] = row ]
  <2>1. CASE changeRole(r)
    BY <2>1 DEF changeRole, IInv, TypeOK
  <2>2. CASE removeMember(r) /\ ~changeRole(r)
    BY <2>2 DEF removeMember, IInv, TypeOK
  <2>3. QED
    BY <2>1, <2>2
<1>5. ~(changeRole(r) /\ removeMember(r))
  BY DEF changeRole, removeMember
<1>6. row \in Membership /\ row.workspace = membership[m].workspace
      /\ row.user = membership[m].user /\ row.used = membership[m].used
  BY <1>1, <1>3 DEF Membership, Request
<1>7. /\ changeRole(r) => row.live /\ row.role = request[r].next
      /\ removeMember(r) => ~row.live
  BY <1>2, <1>3, <1>5 DEF Membership
<1> HIDE DEF row
<1>8. membership'[m] = row /\ \A n \in Memberships \ {m} : membership'[n] = membership[n]
  BY <1>2, <1>4 DEF IInv, TypeOK
<1>9. RowsTyped'
  BY <1>2, <1>4, <1>6, <1>8 DEF IInv, TypeOK, RowsTyped
<1>10. membership[m].used
  BY <1>2 DEF IInv, TypeOK
<1> HIDE DEF m
<1>11. QED
  BY <1>2, <1>6, <1>7, <1>8, <1>9, <1>10 DEF m

LEMMA IInvInit == Init => IInv
<1> SUFFICES ASSUME Init PROVE IInv
  OBVIOUS
<1>1. PICK u \in Users, w \in Workspaces, m \in Memberships :
        /\ user = [ v \in Users |-> IF v = u THEN "ACTIVE" ELSE "NONE" ]
        /\ workspace = [ x \in Workspaces |-> IF x = w THEN "ACTIVE" ELSE "NONE" ]
        /\ membership =
             [ n \in Memberships |->
                 IF n = m THEN [ used |-> TRUE, live |-> TRUE, user |-> u, workspace |-> w,
                                 role |-> "OWNER" ]
                 ELSE [ used |-> FALSE, live |-> FALSE, user |-> NoUser,
                        workspace |-> NoWorkspace, role |-> "VIEWER" ] ]
        /\ request = [ r \in Requests |-> NoRequest ]
  BY DEF Init
<1>2. user \in [ Users -> UserStatus ] /\ workspace \in [ Workspaces -> WorkspaceStatus ]
  BY <1>1 DEF UserStatus, WorkspaceStatus
<1>3. \A n \in Memberships :
        /\ membership[n] \in Membership
        /\ membership[n].live => n = m /\ membership[n].used /\ membership[n].user \in Users
                                 /\ membership[n].workspace \in Workspaces
  BY <1>1 DEF Membership, Roles
<1>4. RowsTyped
  BY <1>1, <1>3 DEF RowsTyped
<1>5. TypeOK
  BY <1>1, <1>2, <1>4, IdleChecked DEF TypeOK, RowsTyped
<1>6. OneMembership
  BY <1>3 DEF OneMembership
<1>7. RequestSound
  BY <1>1, IdleChecked DEF RequestSound
<1>8. QED
  BY <1>5, <1>6, <1>7 DEF IInv

LEMMA IInvStep == IInv /\ [Next]_vars => IInv'
<1> SUFFICES ASSUME IInv, [Next]_vars PROVE IInv'
  OBVIOUS
<1>0. RowsTyped /\ \A r \in Requests : request[r] \in Request /\ RequestChecked(request[r])
  BY DEF IInv, TypeOK, RequestSound, RowsTyped
<1>1. ASSUME NEW r \in Requests, Reads(r) PROVE IInv'
  BY <1>1, ReadStep
\* Accounts and workspaces change, rows do not.
<1>2. ASSUME NEW r \in Requests, Finish(r), UNCHANGED membership,
             user' \in [ Users -> UserStatus ], workspace' \in [ Workspaces -> WorkspaceStatus ]
      PROVE  IInv'
  <2>1. RequestSound' /\ request' \in [ Requests -> Request ]
    BY <1>2, SoundAfterFinish
  <2>2. TypeOK' /\ OneMembership'
    BY <1>0, <1>2, <2>1 DEF IInv, TypeOK, OneMembership, RowsTyped
  <2>3. QED
    BY <2>1, <2>2 DEF IInv
<1>3. ASSUME NEW r \in Requests, deactivateWorkspace(r) \/ createUser(r) \/ deactivate(r)
                                   \/ reactivate(r)
      PROVE  IInv'
  <2>1. user' \in [ Users -> UserStatus ] /\ workspace' \in [ Workspaces -> WorkspaceStatus ]
    BY <1>3 DEF IInv, TypeOK, UserStatus, WorkspaceStatus, deactivateWorkspace, createUser,
       deactivate, reactivate
  <2>2. Finish(r) /\ UNCHANGED membership
    BY <1>3 DEF deactivateWorkspace, createUser, deactivate, reactivate
  <2>3. QED
    BY <1>2, <2>1, <2>2
\* A row is inserted.
<1>4. ASSUME NEW r \in Requests, NEW u \in Users, NEW w \in Workspaces, NEW role \in Roles,
             Insert(u, w, role), Finish(r),
             user' = user, workspace' \in [ Workspaces -> WorkspaceStatus ]
      PROVE  IInv'
  <2>1. RowsTyped' /\ OneMembership'
    BY <1>4, InsertRow
  <2>2. \A m \in Memberships : membership[m].used => membership'[m] = membership[m]
    BY <1>4, InsertRow DEF Inserted
  <2>3. RequestSound' /\ request' \in [ Requests -> Request ]
    BY <1>4, <2>2, SoundAfterFinish
  <2>4. QED
    BY <1>4, <2>1, <2>3 DEF IInv, TypeOK, RowsTyped
<1>5. ASSUME NEW r \in Requests, create(r) PROVE IInv'
  <2>1. request[r].user \in Users /\ request[r].workspace \in Workspaces /\ "OWNER" \in Roles
    BY <1>0, <1>5 DEF RequestChecked, create, Roles
  <2>2. workspace' \in [ Workspaces -> WorkspaceStatus ]
    BY <1>5 DEF create, IInv, TypeOK, WorkspaceStatus
  <2>3. QED
    BY <1>4, <1>5, <2>1, <2>2 DEF create
<1>6. ASSUME NEW r \in Requests, addMember(r) PROVE IInv'
  <2>1. request[r].user \in Users /\ request[r].workspace \in Workspaces
        /\ request[r].next \in Roles
    BY <1>0, <1>6 DEF RequestChecked, addMember, Request
  <2>2. QED
    BY <1>4, <1>6, <2>1 DEF addMember, IInv, TypeOK
<1>7. ASSUME NEW r \in Requests, changeRole(r) \/ removeMember(r) PROVE IInv'
  <2> DEFINE m == request[r].target
  <2>1. /\ m \in Memberships /\ membership[m].live
        /\ RowsTyped'
        /\ membership'[m].workspace = membership[m].workspace
        /\ membership'[m].user = membership[m].user
        /\ membership'[m].used
        /\ \A n \in Memberships \ {m} : membership'[n] = membership[n]
    BY <1>7, TargetWrite
  <2> HIDE DEF m
  <2>2. OneMembership'
    BY <2>1 DEF IInv, OneMembership
  <2>3. Finish(r) /\ UNCHANGED <<user, workspace>>
    BY <1>7 DEF changeRole, removeMember
  <2>4. \A n \in Memberships : membership[n].used =>
           membership'[n].used /\ membership'[n].workspace = membership[n].workspace
    BY <2>1
  <2>5. RequestSound' /\ request' \in [ Requests -> Request ]
    BY <2>3, <2>4, SoundAfterFinish
  <2>6. QED
    BY <2>1, <2>2, <2>3, <2>5 DEF IInv, TypeOK, RowsTyped
<1>8. CASE UNCHANGED vars
  BY <1>8 DEF vars, IInv, TypeOK, OneMembership, RequestSound, RequestChecked
<1>9. QED
  BY <1>1, <1>3, <1>5, <1>6, <1>7, <1>8 DEF Next, Step, Reads

LEMMA Invariance == Spec => []IInv
  BY IInvInit, IInvStep, PTL DEF Spec

-----------------------------------------------------------------------------
(* Theorems *)

\* Rows, accounts and requests keep their types.
THEOREM TypeCorrect == Spec => []TypeOK
<1>1. IInv => TypeOK
  BY DEF IInv
<1>2. QED
  BY <1>1, Invariance, PTL

\* A user has at most one membership in a workspace, however many requests add them.
THEOREM MembershipUnique == Spec => []OneMembership
<1>1. IInv => OneMembership
  BY DEF IInv
<1>2. QED
  BY <1>1, Invariance, PTL

\* A workspace that passes the count has, besides any given owner, another active one.
LEMMA AnotherOwner ==
  ASSUME NEW w, NEW rows, assertMoreThanOneActiveOwner(w, rows), NEW m
  PROVE  \E n \in ActiveOwners(w) : n # m
<1> DEFINE owners == ActiveOwners(w) \cap rows
<1>1. IsFiniteSet(owners)
  BY MembersAssumption, FS_Subset DEF ActiveOwners
<1>2. Cardinality(owners) > 1
  BY DEF assertMoreThanOneActiveOwner
<1> HIDE DEF owners
<1>3. Cardinality({}) = 0 /\ Cardinality({m}) = 1
  BY FS_EmptySet, FS_Singleton
<1>4. owners # {} /\ owners # {m}
  BY <1>2, <1>3
<1>5. QED
  BY <1>4 DEF owners

LEMMA LostOnlyStaleStep == IInv /\ [Next]_vars => LosesOwnerOnlyStale
<1> SUFFICES ASSUME IInv, [Next]_vars,
                    NEW w \in Workspaces, workspace[w] = "ACTIVE", HasActiveOwner(w),
                    ~HasActiveOwner(w)'
             PROVE  \E r \in Requests : (StaleOn(r, w) \/ UnseenOwner(r, w)) /\ request'[r] = NoRequest
  BY DEF LosesOwnerOnlyStale
<1>0. RowsTyped
  BY DEF IInv, TypeOK, RowsTyped
\* Whoever is an active owner before the step is none afterwards.
<1>1. \A m \in ActiveOwners(w) : m \notin ActiveOwners(w)'
  BY DEF HasActiveOwner
<1>2. ASSUME NEW m \in ActiveOwners(w), membership'[m] = membership[m],
             user'[membership[m].user] = "ACTIVE"
      PROVE  FALSE
  BY <1>1, <1>2 DEF ActiveOwners, Owns
<1>3. PICK m0 \in Memberships : m0 \in ActiveOwners(w)
  BY DEF HasActiveOwner, ActiveOwners
<1>4. \A m \in ActiveOwners(w) : /\ m \in Memberships /\ Owns(m, w) /\ membership[m].used
                                 /\ membership[m].user \in Users
                                 /\ user[membership[m].user] = "ACTIVE"
  BY <1>0 DEF ActiveOwners, Owns, RowsTyped
<1>5. CASE UNCHANGED <<user, membership>>
  BY <1>2, <1>3, <1>4, <1>5
<1>6. ASSUME NEW r \in Requests, create(r) \/ addMember(r)
      PROVE  FALSE
  <2>1. user' = user /\ \A m \in Memberships : membership[m].used => membership'[m] = membership[m]
    BY <1>6, <1>0 DEF create, addMember, Insert, RowsTyped
  <2>2. QED
    BY <1>2, <1>3, <1>4, <2>1
<1>7. ASSUME NEW r \in Requests, createUser(r) \/ reactivate(r)
      PROVE  FALSE
  <2>1. membership' = membership /\ \A u \in Users : user[u] = "ACTIVE" => user'[u] = "ACTIVE"
    BY <1>7 DEF createUser, reactivate, IInv, TypeOK
  <2>2. QED
    BY <1>2, <1>3, <1>4, <2>1
\* A deactivation that knows the account's row knows another active owner, too.
<1>8. ASSUME NEW r \in Requests, deactivate(r)
      PROVE  UnseenOwner(r, w) /\ request'[r] = NoRequest
  <2>1. membership' = membership
        /\ \A u \in Users : u # request[r].user => user'[u] = user[u]
    BY <1>8 DEF deactivate, IInv, TypeOK
  <2>2. \A m \in ActiveOwners(w) : membership[m].user = request[r].user
    BY <1>2, <1>4, <2>1
  <2>3. Belongs(m0, request[r].user, w) /\ Owns(m0, w)
    BY <1>3, <1>4, <2>2 DEF Belongs, Owns
  <2>4. ASSUME m0 \in request[r].known
        PROVE  FALSE
    <3>1. assertMoreThanOneActiveOwner(w, request[r].known)
      BY <1>3, <1>8, <2>3, <2>4 DEF deactivate, OwnedKeepAnOwner
    <3>2. PICK m1 \in ActiveOwners(w) : m1 # m0
      BY <3>1, AnotherOwner
    <3>3. QED
      BY <1>3, <1>4, <2>2, <3>2 DEF IInv, OneMembership, Owns
  <2>5. request[r].op = "deactivate" /\ request[r].phase = "open" /\ request'[r] = NoRequest
    BY <1>8, FinishRequests DEF deactivate, IInv
  <2>6. QED
    BY <1>3, <2>3, <2>4, <2>5 DEF UnseenOwner
<1>9. ASSUME NEW r \in Requests, changeRole(r) \/ removeMember(r)
      PROVE  StaleOn(r, w) /\ request'[r] = NoRequest
  <2> DEFINE m == request[r].target
  <2>1. /\ m \in Memberships /\ membership[m].live
        /\ membership[m].workspace = request[r].workspace
        /\ membership'[m].workspace = membership[m].workspace
        /\ membership'[m].user = membership[m].user
        /\ changeRole(r) => membership'[m].live /\ membership'[m].role = request[r].next
        /\ \A n \in Memberships \ {m} : membership'[n] = membership[n]
    BY <1>9, TargetWrite
  <2>2. Finish(r) /\ UNCHANGED <<user, workspace>>
    BY <1>9 DEF changeRole, removeMember
  <2>3. request'[r] = NoRequest
    BY <2>2, FinishRequests DEF IInv
  <2> HIDE DEF m
  <2>4. \A n \in ActiveOwners(w) : n = m
    BY <1>2, <1>4, <2>1, <2>2
  <2>5. Owns(m, w) /\ request[r].workspace = w
    BY <1>3, <1>4, <2>1, <2>4 DEF Owns
  <2>6. ~assertMoreThanOneActiveOwner(w, Memberships)
    BY <2>4, AnotherOwner
  <2>7. ~(changeRole(r) /\ request[r].next = "OWNER")
    BY <1>1, <1>3, <1>4, <2>1, <2>2, <2>4 DEF ActiveOwners, Owns
  <2>8. request[r].seen # "OWNER" /\ request[r].op \in { "changeRole", "remove" }
    BY <1>9, <2>5, <2>6, <2>7 DEF changeRole, removeMember
  <2>9. QED
    BY <2>1, <2>3, <2>5, <2>8 DEF StaleOn, m
<1>10. ASSUME NEW r \in Requests, Reads(r) \/ deactivateWorkspace(r)
       PROVE  UNCHANGED <<user, membership>>
  BY <1>10, ReadsOnly DEF deactivateWorkspace
<1>11. CASE UNCHANGED vars
  BY <1>5, <1>11 DEF vars
<1>12. QED
  BY <1>5, <1>6, <1>7, <1>8, <1>9, <1>10, <1>11 DEF Next, Step, Reads

\* The last active owner is lost to a role that was read too early, or to a deactivation
\* whose snapshot lacks the row that made the account an owner; every other demotion,
\* removal and deactivation leaves each active workspace with an active owner.
THEOREM OwnersKept == Spec => OwnersLostOnlyStale
  BY Invariance, LostOnlyStaleStep, PTL DEF Spec, OwnersLostOnlyStale

LEMMA OwnersMakeOwnersStep == IInv /\ [Next]_vars => OwnersMakeOwners
<1> SUFFICES ASSUME IInv, [Next]_vars, NEW m \in Memberships,
                    membership'[m].live, membership'[m].role = "OWNER",
                    ~Owns(m, membership'[m].workspace)
             PROVE  LET w == membership'[m].workspace IN
                      \/ workspace[w] = "NONE"
                      \/ \E r \in Requests : /\ request[r].role = "OWNER"
                                             /\ request[r].workspace = w
                                             /\ request'[r] = NoRequest
  BY DEF OwnersMakeOwners
<1>0. \A r \in Requests : request[r] \in Request /\ RequestChecked(request[r])
  BY DEF IInv, TypeOK, RequestSound
<1>1. membership'[m] # membership[m]
  BY DEF Owns
<1>2. ASSUME NEW r \in Requests, create(r)
      PROVE  workspace[membership'[m].workspace] = "NONE"
  <2>1. Insert(request[r].user, request[r].workspace, "OWNER")
        /\ request[r].user \in Users /\ request[r].workspace \in Workspaces /\ "OWNER" \in Roles
    BY <1>0, <1>2 DEF create, RequestChecked, Roles
  <2>2. PICK n \in Memberships : Inserted(n, request[r].user, request[r].workspace, "OWNER")
    BY <2>1, InsertRow
  <2>3. QED
    BY <1>1, <1>2, <2>2 DEF Inserted, create
<1>3. ASSUME NEW r \in Requests, addMember(r)
      PROVE  /\ request[r].role = "OWNER"
             /\ request[r].workspace = membership'[m].workspace
             /\ request'[r] = NoRequest
  <2>1. Insert(request[r].user, request[r].workspace, request[r].next)
        /\ request[r].user \in Users /\ request[r].workspace \in Workspaces
        /\ request[r].next \in Roles
    BY <1>0, <1>3 DEF addMember, RequestChecked, Request
  <2>2. PICK n \in Memberships :
          Inserted(n, request[r].user, request[r].workspace, request[r].next)
    BY <2>1, InsertRow
  <2>3. request[r].workspace = membership'[m].workspace /\ request[r].next = "OWNER"
    BY <1>1, <2>2 DEF Inserted
  <2>4. request'[r] = NoRequest
    BY <1>3, FinishRequests DEF addMember, IInv
  <2>5. QED
    BY <1>0, <1>3, <2>3, <2>4 DEF addMember, RequestChecked
<1>4. ASSUME NEW r \in Requests, changeRole(r) \/ removeMember(r)
      PROVE  /\ request[r].role = "OWNER"
             /\ request[r].workspace = membership'[m].workspace
             /\ request'[r] = NoRequest
  <2>1. /\ membership[request[r].target].workspace = request[r].workspace
        /\ membership'[request[r].target].workspace = membership[request[r].target].workspace
        /\ changeRole(r) => membership'[request[r].target].role = request[r].next
        /\ removeMember(r) => ~membership'[request[r].target].live
        /\ \A n \in Memberships \ {request[r].target} : membership'[n] = membership[n]
    BY <1>4, TargetWrite
  <2>2. m = request[r].target
    BY <1>1, <2>1
  <2>3. changeRole(r) /\ request[r].next = "OWNER"
    BY <1>4, <2>1, <2>2
  <2>4. request'[r] = NoRequest
    BY <1>4, FinishRequests DEF changeRole, removeMember, IInv
  <2>5. QED
    BY <1>0, <2>1, <2>2, <2>3, <2>4 DEF changeRole, RequestChecked
<1>5. ASSUME NEW r \in Requests, Reads(r) PROVE FALSE
  BY <1>1, <1>5, ReadsOnly
<1>6. ASSUME NEW r \in Requests, deactivateWorkspace(r) \/ createUser(r) \/ deactivate(r)
                                   \/ reactivate(r)
      PROVE  FALSE
  BY <1>1, <1>6 DEF deactivateWorkspace, createUser, deactivate, reactivate
<1>7. CASE UNCHANGED vars
  BY <1>1, <1>7 DEF vars
<1>8. QED
  BY <1>2, <1>3, <1>4, <1>5, <1>6, <1>7 DEF Next, Step, Reads

\* A row becomes an owner's only through a request that an owner sent, or with the
\* workspace: what an Admin's request checked outside the transaction cannot go stale.
THEOREM OwnersByOwners == Spec => OwnershipFromOwners
  BY Invariance, OwnersMakeOwnersStep, PTL DEF Spec, OwnershipFromOwners

-----------------------------------------------------------------------------
(* Requests that follow one another *)

OneRequest == \A r, s \in Requests : r = s

\* What a request has read is still true.
ReadIsFresh(q) ==
  /\ q.op \in { "changeRole", "remove" } /\ q.target \in Memberships =>
       membership[q.target].role = q.seen
  /\ q.op = "createWorkspace" => user[q.user] = "ACTIVE"
  /\ q.op = "deactivate" /\ q.phase = "open" =>
       \A m \in Memberships : membership[m].live => m \in q.known

InOrder == OwnerRemains /\ \A r \in Requests : ReadIsFresh(request[r])

LEMMA InOrderInit == Init => InOrder
<1> SUFFICES ASSUME Init PROVE InOrder
  OBVIOUS
<1>1. PICK u \in Users, w \in Workspaces, m \in Memberships :
        /\ user = [ v \in Users |-> IF v = u THEN "ACTIVE" ELSE "NONE" ]
        /\ workspace = [ x \in Workspaces |-> IF x = w THEN "ACTIVE" ELSE "NONE" ]
        /\ membership[m] = [ used |-> TRUE, live |-> TRUE, user |-> u, workspace |-> w,
                             role |-> "OWNER" ]
        /\ request = [ r \in Requests |-> NoRequest ]
  BY DEF Init
<1>2. m \in ActiveOwners(w)
  BY <1>1 DEF ActiveOwners, Owns
<1>3. OwnerRemains
  BY <1>1, <1>2 DEF OwnerRemains, HasActiveOwner
<1>4. QED
  BY <1>1, <1>3 DEF InOrder, ReadIsFresh, NoRequest

\* A request that only reads leaves what it read true.
LEMMA ReadFresh ==
  ASSUME IInv, InOrder, OneRequest, NEW r \in Requests, Reads(r)
  PROVE  ReadIsFresh(request[r])'
<1> request[r] \in Request /\ ReadIsFresh(request[r])
  BY DEF IInv, TypeOK, InOrder
<1> UNCHANGED <<user, workspace, membership>>
  BY ReadsOnly
<1> USE MembersAssumption
<1>1. CASE WorkspaceRoute(r)
  BY <1>1 DEF WorkspaceRoute, Start, NoRequest, ReadIsFresh, IInv, TypeOK
<1>2. CASE UserRoute(r)
  BY <1>2 DEF UserRoute, Start, NoRequest, ReadIsFresh, IInv, TypeOK
<1>3. CASE BeginCreateWorkspace(r)
  BY <1>3 DEF BeginCreateWorkspace, Start, NoRequest, ReadIsFresh, IInv, TypeOK
<1>4. CASE FindUser(r)
  BY <1>4 DEF FindUser, Advance, Request, ReadIsFresh, IInv, TypeOK
<1>5. CASE FindDuplicate(r)
  BY <1>5 DEF FindDuplicate, Advance, Request, ReadIsFresh, IInv, TypeOK
<1>6. CASE BeginChangeRole(r)
  BY <1>6 DEF BeginChangeRole, ReadMember, Advance, Request, ReadIsFresh, IInv, TypeOK
<1>7. CASE BeginRemoveMember(r)
  BY <1>7 DEF BeginRemoveMember, ReadMember, Advance, Request, ReadIsFresh, IInv, TypeOK
<1>8. CASE assertManager(r)
  BY <1>8 DEF assertManager, Advance, Request, ReadIsFresh, IInv, TypeOK
<1>9. CASE assertCanManage(r)
  BY <1>9 DEF assertCanManage, Advance, Request, ReadIsFresh, IInv, TypeOK
<1>10. CASE BeginDeactivate(r)
  BY <1>10 DEF BeginDeactivate, Advance, Request, ReadIsFresh, IInv, TypeOK
<1>11. CASE Abort(r)
  BY <1>11 DEF Abort, Finish, NoRequest, ReadIsFresh, IInv, TypeOK
<1>12. QED
  BY <1>1, <1>2, <1>3, <1>4, <1>5, <1>6, <1>7, <1>8, <1>9, <1>10, <1>11 DEF Reads

LEMMA InOrderStep == OneRequest /\ IInv /\ InOrder /\ [Next]_vars => InOrder'
<1> SUFFICES ASSUME OneRequest, IInv, InOrder, [Next]_vars PROVE InOrder'
  OBVIOUS
<1>1. ASSUME NEW r \in Requests, Reads(r) PROVE InOrder'
  <2>1. OwnerRemains'
    BY <1>1, ReadsOnly DEF InOrder, OwnerRemains, HasActiveOwner, ActiveOwners, Owns
  <2>2. ReadIsFresh(request[r])'
    BY <1>1, ReadFresh
  <2>3. QED
    BY <2>1, <2>2 DEF InOrder, OneRequest
\* A write ends the only request, so nothing it read is used again.
<1>2. ASSUME NEW r \in Requests, Finish(r),
             \A w \in Workspaces : workspace'[w] = "ACTIVE" /\ workspace[w] # "ACTIVE" =>
               HasActiveOwner(w)'
      PROVE  InOrder'
  <2>1. \A s \in Requests : request'[s] = NoRequest
    BY <1>2, FinishRequests DEF IInv, OneRequest
  <2>2. \A s \in Requests : ReadIsFresh(request[s])'
    BY <2>1 DEF ReadIsFresh, NoRequest
  <2>3. \A s \in Requests, w \in Workspaces : ~StaleOn(s, w) /\ ~UnseenOwner(s, w)
    BY DEF InOrder, ReadIsFresh, StaleOn, UnseenOwner, Owns
  <2>4. LosesOwnerOnlyStale
    BY LostOnlyStaleStep
  <2>5. \A w \in Workspaces : workspace[w] = "ACTIVE" => HasActiveOwner(w)'
    BY <2>3, <2>4 DEF LosesOwnerOnlyStale, InOrder, OwnerRemains
  <2>6. OwnerRemains'
    BY <1>2, <2>5 DEF OwnerRemains
  <2>7. QED
    BY <2>2, <2>6 DEF InOrder
<1>3. ASSUME NEW r \in Requests,
             deactivateWorkspace(r) \/ addMember(r) \/ changeRole(r) \/ removeMember(r)
               \/ createUser(r) \/ deactivate(r) \/ reactivate(r)
      PROVE  InOrder'
  <2>1. Finish(r) /\ \A w \in Workspaces : workspace'[w] = "ACTIVE" => workspace[w] = "ACTIVE"
    BY <1>3 DEF deactivateWorkspace, addMember, changeRole, removeMember, createUser,
       deactivate, reactivate, IInv, TypeOK
  <2>2. QED
    BY <1>2, <2>1
<1>4. ASSUME NEW r \in Requests, create(r) PROVE InOrder'
  <2>1. PICK w0 \in Workspaces, u0 \in Users :
          /\ w0 = request[r].workspace /\ u0 = request[r].user
          /\ "OWNER" \in Roles /\ user[u0] = "ACTIVE"
    BY <1>4 DEF create, IInv, RequestSound, RequestChecked, InOrder, ReadIsFresh, Roles
  <2>2. PICK m \in Memberships : Inserted(m, u0, w0, "OWNER")
    BY <1>4, <2>1, InsertRow DEF create
  <2>3. m \in ActiveOwners(w0)'
    BY <1>4, <2>1, <2>2 DEF create, ActiveOwners, Owns, Inserted
  <2>4. Finish(r) /\ \A w \in Workspaces : w # w0 => workspace'[w] = workspace[w]
    BY <1>4, <2>1 DEF create, IInv, TypeOK
  <2>5. QED
    BY <1>2, <2>3, <2>4 DEF HasActiveOwner
<1>5. CASE UNCHANGED vars
  BY <1>5 DEF vars, InOrder, OwnerRemains, HasActiveOwner, ActiveOwners, Owns, ReadIsFresh
<1>6. QED
  BY <1>1, <1>3, <1>4, <1>5 DEF Next, Step, Reads

\* As long as requests follow one another, no sequence of them, however long, leaves an
\* active workspace without an active owner.
THEOREM OwnerRemainsInOrder ==
  ASSUME OneRequest
  PROVE  Spec => []OwnerRemains
<1>1. InOrder => OwnerRemains
  BY DEF InOrder
<1>2. IInv /\ InOrder /\ [Next]_vars => InOrder'
  BY InOrderStep
<1>3. QED
  BY <1>1, <1>2, InOrderInit, Invariance, PTL DEF Spec
=============================================================================
