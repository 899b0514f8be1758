------------------------------ MODULE Sessions ------------------------------
(***************************************************************************)
(* Server sessions: AuthService, AccessTokenGuard, and what UsersService   *)
(* does to the sessions of an account.                                     *)
(*                                                                         *)
(* A login checks the password, later inserts the session row, later reads *)
(* the account again for the access token.  A refresh compares the token   *)
(* with the row it has read and later replaces it, by id, whatever has     *)
(* happened to the row in between.  Everything else may happen between two *)
(* of these steps.                                                         *)
(*                                                                         *)
(* Abstractions: passwords and refresh tokens are numbered in the order    *)
(* they are set, and a token of a session is its number; each login starts *)
(* a family of its own and a refresh stays in its row, so a family is one  *)
(* session.  Time only makes a session expire.  Rate limits are a module   *)
(* of their own; a refused request changes nothing.                        *)
(***************************************************************************)
EXTENDS Naturals

CONSTANTS
  Users,
  Sessions,     \* bound: the session rows that are ever inserted
  Requests,     \* requests in flight at the same time
  NoUser, NoSession,
  MaxToken,     \* bound: refresh tokens per session
  MaxVersion,   \* bound: security versions of an account
  MaxPassword   \* bound: passwords of an account

ASSUME SessionsAssumption ==
  /\ NoUser \notin Users
  /\ NoSession \notin Sessions
  /\ MaxToken \in Nat
  /\ MaxVersion \in Nat
  /\ MaxPassword \in Nat

VARIABLES
  user,         \* the users rows
  session,      \* the sessions rows
  access,       \* the access tokens handed out
  rotations,    \* history: which token was exchanged for which
  overlapped,   \* history: whether two requests were ever in flight together
  request

vars == <<user, session, access, rotations, overlapped, request>>

User == [ active : BOOLEAN, version : Nat, password : Nat, mustChange : BOOLEAN ]

\* History, read by no action: checked and knows are the security version and the
\* password that the login of the session verified (knows: or that was set in it), late
\* whether one of them was out of date when the row was inserted.
Session ==
  [ state : { "none", "live", "revoked" }, user : Users \cup {NoUser}, token : Nat,
    expired : BOOLEAN, checked : Nat, knows : Nat, late : BOOLEAN ]

Request ==
  [ op : { "idle", "login", "refresh", "logout", "logoutAll", "revoke", "password" },
    phase : { "started", "checked", "refused", "done" },
    user : Users \cup {NoUser}, session : Sessions \cup {NoSession},
    token : Nat, version : Nat, password : Nat ]

NoRequest ==
  [ op |-> "idle", phase |-> "started", user |-> NoUser, session |-> NoSession,
    token |-> 0, version |-> 0, password |-> 0 ]

TypeOK ==
  /\ user \in [ Users -> User ]
  /\ session \in [ Sessions -> Session ]
  /\ access \subseteq [ session : Sessions, version : Nat ]
  /\ rotations \subseteq [ session : Sessions, from : Nat, to : Nat ]
  /\ overlapped \in BOOLEAN
  /\ request \in [ Requests -> Request ]
  /\ \A s \in Sessions : session[s].state # "none" => session[s].user \in Users

Init ==
  /\ user = [ u \in Users |->
                [ active |-> TRUE, version |-> 1, password |-> 1, mustChange |-> TRUE ] ]
  /\ session = [ s \in Sessions |->
                   [ state |-> "none", user |-> NoUser, token |-> 0,
                     expired |-> FALSE, checked |-> 0, knows |-> 0, late |-> FALSE ] ]
  /\ access = {}
  /\ rotations = {}
  /\ overlapped = FALSE
  /\ request = [ r \in Requests |-> NoRequest ]

-----------------------------------------------------------------------------

Set(r, q) ==
  /\ request' = [ request EXCEPT ![r] = q ]
  /\ overlapped' = (overlapped \/ \E o \in Requests \ {r} : request[o] # NoRequest)

Finish(r) == Set(r, NoRequest)

At(r, op, phase) == request[r].op = op /\ request[r].phase = phase

\* updateMany ... where revokedAt is null: revokes those of a set of sessions that live.
Revoke(S) ==
  session' = [ s \in Sessions |->
                 IF s \in S /\ session[s].state = "live"
                 THEN [ session[s] EXCEPT !.state = "revoked" ] ELSE session[s] ]

\* The rows of an account.
SessionsOf(u) == { s \in Sessions : session[s].state # "none" /\ session[s].user = u }

-----------------------------------------------------------------------------
(* login *)

\* The password is compared with the hash in the row, and the account is active.
VerifyPassword(r) ==
  \E u \in Users :
    /\ request[r] = NoRequest
    /\ user[u].active
    /\ Set(r, [ NoRequest EXCEPT !.op = "login", !.user = u, !.version = user[u].version,
                                 !.password = user[u].password ])
    /\ UNCHANGED <<user, session, access, rotations>>

\* Faulty variant: the row does not name the account.
CreateAnonymousSession(r) ==
  \E s \in Sessions :
    /\ At(r, "login", "started")
    /\ session[s].state = "none"
    /\ session' = [ session EXCEPT ![s].state = "live", ![s].token = 1 ]
    /\ Set(r, NoRequest)
    /\ UNCHANGED <<user, access, rotations>>

createSession(r) ==
  \E s \in Sessions :
    /\ At(r, "login", "started")
    /\ session[s].state = "none"
    /\ session' = [ session EXCEPT ![s] =
         [ state |-> "live", user |-> request[r].user, token |-> 1, expired |-> FALSE,
           checked |-> request[r].version, knows |-> request[r].password,
           late |-> \/ request[r].version # user[request[r].user].version
                    \/ request[r].password # user[request[r].user].password ] ]
    /\ Set(r, [ request[r] EXCEPT !.phase = "done", !.session = s ])
    /\ UNCHANGED <<user, access, rotations>>

\* The end of login and refresh: the access token carries the version read now.
authResult(r) ==
  /\ request[r].op \in { "login", "refresh" }
  /\ request[r].phase = "done"
  /\ access' = access \cup { [ session |-> request[r].session,
                               version |-> user[request[r].user].version ] }
  /\ Finish(r)
  /\ UNCHANGED <<user, session, rotations>>

-----------------------------------------------------------------------------
(* refresh *)

\* Faulty variant: compares nothing but the session id.
AnyTokenMatches(s, token) == TRUE

verifiersMatch(s, token) == session[s].token = token

\* Everything refresh decides about, from one read of the row and its account.
ReadSession(r) ==
  \E s \in Sessions, token \in 1 .. MaxToken :
    LET accepted == /\ verifiersMatch(s, token)
                    /\ session[s].state = "live"
                    /\ ~session[s].expired
                    /\ user[session[s].user].active
    IN
      /\ request[r] = NoRequest
      /\ session[s].state # "none" /\ token <= session[s].token
      /\ Set(r, [ NoRequest EXCEPT !.op = "refresh", !.user = session[s].user,
                    !.session = s, !.token = token,
                    !.phase = IF accepted THEN "checked" ELSE "refused" ])
      /\ UNCHANGED <<user, session, access, rotations>>

revokeFamily(r) ==
  /\ At(r, "refresh", "refused")
  /\ Revoke({request[r].session})
  /\ Finish(r)
  /\ UNCHANGED <<user, access, rotations>>

\* Faulty variant: the new token also makes the session valid again.
RotateAndRevive(r) ==
  LET s == request[r].session IN
    /\ At(r, "refresh", "checked")
    /\ session[s].token < MaxToken
    /\ session' = [ session EXCEPT ![s].token = @ + 1, ![s].expired = FALSE,
                                   ![s].state = "live" ]
    /\ rotations' = rotations \cup
         { [ session |-> s, from |-> request[r].token, to |-> session[s].token + 1 ] }
    /\ Set(r, [ request[r] EXCEPT !.phase = "done" ])
    /\ UNCHANGED <<user, access>>

\* update ... where id: replaces the token whatever it is by now.
rotate(r) ==
  LET s == request[r].session IN
    /\ At(r, "refresh", "checked")
    /\ session[s].token < MaxToken
    /\ session' = [ session EXCEPT ![s].token = @ + 1, ![s].expired = FALSE ]
    /\ rotations' = rotations \cup
         { [ session |-> s, from |-> request[r].token, to |-> session[s].token + 1 ] }
    /\ Set(r, [ request[r] EXCEPT !.phase = "done" ])
    /\ UNCHANGED <<user, access>>

-----------------------------------------------------------------------------
(* What an access token admits to *)

\* Faulty variant: trusts the security version and does not ask for a revocation.
AcceptsByVersion(a) ==
  /\ ~session[a.session].expired
  /\ user[session[a.session].user].active
  /\ a.version = user[session[a.session].user].version

\* AccessTokenGuard
Accepts(a) ==
  /\ session[a.session].state = "live"
  /\ ~session[a.session].expired
  /\ user[session[a.session].user].active
  /\ a.version = user[session[a.session].user].version

Authenticate(r) ==
  \E a \in access, op \in { "logout", "logoutAll", "revoke", "password" } :
    /\ request[r] = NoRequest
    /\ Accepts(a)
    /\ Set(r, [ NoRequest EXCEPT !.op = op, !.session = a.session,
                                 !.user = session[a.session].user ])
    /\ UNCHANGED <<user, session, access, rotations>>

logout(r) ==
  /\ At(r, "logout", "started")
  /\ Revoke({request[r].session})
  /\ Finish(r)
  /\ UNCHANGED <<user, access, rotations>>

logoutAll(r) ==
  /\ At(r, "logoutAll", "started")
  /\ Revoke(SessionsOf(request[r].user))
  /\ Finish(r)
  /\ UNCHANGED <<user, access, rotations>>

revokeSession(r) ==
  \E s \in SessionsOf(request[r].user) :
    /\ At(r, "revoke", "started")
    /\ Revoke({s})
    /\ Finish(r)
    /\ UNCHANGED <<user, access, rotations>>

\* The current password is compared with the hash in the row ...
BeginChangePassword(r) ==
  /\ At(r, "password", "started")
  /\ Set(r, [ request[r] EXCEPT !.phase = "checked" ])
  /\ UNCHANGED <<user, session, access, rotations>>

\* Faulty variant: a changed password leaves the other sessions open.
ChangeHashOnly(r) ==
  LET u == request[r].user IN
    /\ At(r, "password", "checked")
    /\ user[u].password < MaxPassword
    /\ user' = [ user EXCEPT ![u].password = @ + 1, ![u].mustChange = FALSE ]
    /\ session' = [ session EXCEPT ![request[r].session].knows = user[u].password + 1 ]
    /\ Finish(r)
    /\ UNCHANGED <<access, rotations>>

\* ... and later replaced, and every other session of the account revoked.
changePassword(r) ==
  LET u == request[r].user IN
    /\ At(r, "password", "checked")
    /\ user[u].password < MaxPassword
    /\ user' = [ user EXCEPT ![u].password = @ + 1, ![u].mustChange = FALSE ]
    /\ session' = [ s \in Sessions |->
         IF s = request[r].session THEN [ session[s] EXCEPT !.knows = user[u].password + 1 ]
         ELSE IF session[s].state = "live" /\ session[s].user = u
         THEN [ session[s] EXCEPT !.state = "revoked" ] ELSE session[s] ]
    /\ Finish(r)
    /\ UNCHANGED <<access, rotations>>

-----------------------------------------------------------------------------
(* UsersService, after its checks *)

resetPassword(u) ==
  /\ user[u].version < MaxVersion /\ user[u].password < MaxPassword
  /\ user' = [ user EXCEPT ![u].password = @ + 1, ![u].mustChange = TRUE,
                           ![u].version = @ + 1 ]
  /\ Revoke(SessionsOf(u))
  /\ UNCHANGED <<access, rotations>>

deactivate(u) ==
  /\ user[u].version < MaxVersion
  /\ user' = [ user EXCEPT ![u].active = FALSE, ![u].version = @ + 1 ]
  /\ Revoke(SessionsOf(u))
  /\ UNCHANGED <<access, rotations>>

reactivate(u) ==
  /\ user' = [ user EXCEPT ![u].active = TRUE ]
  /\ UNCHANGED <<session, access, rotations>>

revokeUserSessions(u) ==
  /\ Revoke(SessionsOf(u))
  /\ UNCHANGED <<user, access, rotations>>

-----------------------------------------------------------------------------

Expire(s) ==
  /\ session[s].state # "none"
  /\ session' = [ session EXCEPT ![s].expired = TRUE ]
  /\ UNCHANGED <<user, access, rotations, overlapped, request>>

\* A request fails, or its process dies.
Abort(r) ==
  /\ request[r] # NoRequest
  /\ Finish(r)
  /\ UNCHANGED <<user, session, access, rotations>>

\* The next step of a request that has begun.
Continue(r) ==
  \/ createSession(r) \/ authResult(r)
  \/ revokeFamily(r) \/ rotate(r)
  \/ logout(r) \/ logoutAll(r) \/ revokeSession(r)
  \/ BeginChangePassword(r) \/ changePassword(r)

Begin(r) == VerifyPassword(r) \/ ReadSession(r) \/ Authenticate(r)

\* A request of its own, whose checks Members models; one step here.
Administer(r) ==
  /\ request[r] = NoRequest
  /\ Finish(r)
  /\ \E u \in Users :
       resetPassword(u) \/ deactivate(u) \/ reactivate(u) \/ revokeUserSessions(u)

Next ==
  \/ \E r \in Requests : Begin(r) \/ Continue(r) \/ Administer(r) \/ Abort(r)
  \/ \E s \in Sessions : Expire(s)

Spec == Init /\ [][Next]_vars

-----------------------------------------------------------------------------
(* Properties *)

\* Whoever is logged in has given the password after the last reset or deactivation of
\* the account, and knows the password if it was changed since: resets, deactivations
\* and changed passwords end all other sessions, whatever is in flight.  One way around
\* it is left: a login that was checked before and inserts its session after.
CurrentUnlessLate ==
  \A s \in Sessions :
    session[s].state = "live" /\ ~session[s].late =>
      /\ session[s].checked = user[session[s].user].version
      /\ session[s].knows = user[session[s].user].password

\* A refresh token is exchanged at most once.  Violated by two refreshes at once.
TokensSpentOnce ==
  \A a, b \in rotations : a.session = b.session /\ a.from = b.from => a.to = b.to

\* It holds as long as requests follow one another.
TokensSpentOnceInOrder == ~overlapped => TokensSpentOnce

\* A revoked session stays revoked, although a refresh in flight writes its row by id.
RevokedForever ==
  \A s \in Sessions : session[s].state = "revoked" => session'[s].state = "revoked"
RevocationIsFinal == [][RevokedForever]_vars

\* An access token from before the last reset, deactivation or logout of its session is
\* never accepted again: whatever the guard admits now was admissible ever since.
NeverAcceptedAgain ==
  \A a \in access :
    (session[a.session].state = "revoked" \/ a.version # user[session[a.session].user].version)
      => ~Accepts(a)'
AccessEnds == [][NeverAcceptedAgain]_vars
=============================================================================
