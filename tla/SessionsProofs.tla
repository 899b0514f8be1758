--------------------------- MODULE SessionsProofs ---------------------------
(***************************************************************************)
(* Proofs about Sessions, for every number of accounts, sessions, requests *)
(* in flight, refresh tokens, security versions and passwords; and about   *)
(* RateLimit, for every limit and number of attempts at once.              *)
(***************************************************************************)
EXTENDS Sessions, RateLimit, FiniteSetTheorems, TLAPS

-----------------------------------------------------------------------------
(* The inductive invariant *)

\* A request knows its account once it has begun; past the insert of a login it also holds
\* a session of that account.
HoldsAccount(q) == q.op # "idle" => q.user \in Users

HoldsSession(q) ==
  q.op # "idle" /\ (q.op # "login" \/ q.phase = "done") =>
    /\ q.session \in Sessions
    /\ session[q.session].state # "none" /\ session[q.session].user = q.user

\* The token a refresh compared was current then; it can only have been replaced since.
HoldsToken(q) ==
  q.op = "refresh" /\ q.phase = "checked" => q.token <= session[q.session].token

SoundRequest(q) == HoldsAccount(q) /\ HoldsSession(q) /\ HoldsToken(q)

RequestSound == \A r \in Requests : SoundRequest(request[r])

\* An access token carries no security version that its account has not had.
AccessSound ==
  \A a \in access : /\ session[a.session].state # "none"
                    /\ a.version <= user[session[a.session].user].version

\* An exchanged refresh token is older than the current one.
RotationsSound ==
  \A x \in rotations : session[x.session].state # "none" /\ x.from < session[x.session].token

\* As long as requests follow one another, nothing comes between the comparison of a
\* refresh token and its replacement.
ComparedIsCurrent ==
  ~overlapped =>
    \A r \in Requests : At(r, "refresh", "checked")
                          => request[r].token = session[request[r].session].token

IInv ==
  /\ TypeOK /\ RequestSound /\ AccessSound /\ RotationsSound
  /\ CurrentUnlessLate /\ ComparedIsCurrent /\ TokensSpentOnceInOrder

-----------------------------------------------------------------------------
(* The rows of accounts and sessions *)

\* What no step takes back.
RowsKept ==
  /\ \A s \in Sessions : session[s].state # "none" =>
       /\ session'[s].state # "none" /\ session'[s].user = session[s].user
       /\ session'[s].token >= session[s].token
       /\ session[s].state = "revoked" => session'[s].state = "revoked"
  /\ \A u \in Users : user'[u].version >= user[u].version

RowsTyped ==
  /\ user' \in [ Users -> User ] /\ session' \in [ Sessions -> Session ]
  /\ \A s \in Sessions : session'[s].state # "none" => session'[s].user \in Users

RowsSound == RowsTyped /\ RowsKept /\ CurrentUnlessLate'

LEMMA Typed ==
  ASSUME TypeOK
  PROVE  /\ user \in [ Users -> User ] /\ session \in [ Sessions -> Session ]
         /\ \A u \in Users : user[u].version \in Nat /\ user[u].password \in Nat
         /\ \A s \in Sessions : session[s] \in Session /\ session[s].token \in Nat
         /\ \A s \in Sessions : session[s].state # "none" => session[s].user \in Users
         /\ \A r \in Requests : request[r] \in Request
BY DEF TypeOK, User, Session

LEMMA RowsUnchanged ==
  ASSUME TypeOK, CurrentUnlessLate, user' = user, session' = session
  PROVE  RowsSound
BY Typed DEF RowsSound, RowsTyped, RowsKept, CurrentUnlessLate

\* Revoking sessions takes rights away and nothing else, whosever they are.
LEMMA RevokeTyped ==
  ASSUME TypeOK, NEW S, Revoke(S)
  PROVE  /\ session' \in [ Sessions -> Session ]
         /\ \A s \in Sessions :
              /\ session'[s].state = IF s \in S /\ session[s].state = "live" THEN "revoked"
                                     ELSE session[s].state
              /\ session'[s].user = session[s].user /\ session'[s].token = session[s].token
              /\ session'[s].checked = session[s].checked /\ session'[s].knows = session[s].knows
              /\ session'[s].late = session[s].late
<1>1. \A s \in Sessions : /\ session[s] \in Session
                          /\ [ session[s] EXCEPT !.state = "revoked" ] \in Session
  BY Typed DEF Session
<1>2. session' \in [ Sessions -> Session ]
  BY <1>1 DEF Revoke
<1>3. \A s \in Sessions :
        session'[s] = IF s \in S /\ session[s].state = "live"
                      THEN [ session[s] EXCEPT !.state = "revoked" ] ELSE session[s]
  BY DEF Revoke
<1>4. ASSUME NEW s \in Sessions
      PROVE  /\ session'[s].state = IF s \in S /\ session[s].state = "live" THEN "revoked"
                                    ELSE session[s].state
             /\ session'[s].user = session[s].user /\ session'[s].token = session[s].token
             /\ session'[s].checked = session[s].checked /\ session'[s].knows = session[s].knows
             /\ session'[s].late = session[s].late
  BY <1>1, <1>3 DEF Session
<1> QED  BY <1>2, <1>4

LEMMA RowsRevoked ==
  ASSUME TypeOK, CurrentUnlessLate, user' = user, NEW S, Revoke(S)
  PROVE  RowsSound
<1>1. RowsTyped
  BY Typed, RevokeTyped DEF RowsTyped
<1>2. RowsKept
  BY Typed, RevokeTyped DEF RowsKept
<1>3. CurrentUnlessLate'
  BY Typed, RevokeTyped DEF CurrentUnlessLate
<1> QED  BY <1>1, <1>2, <1>3 DEF RowsSound

\* A step of an administrator that raises the version or the password of an account leaves
\* none of its sessions open.
LEMMA RowsReset ==
  ASSUME TypeOK, CurrentUnlessLate, NEW u \in Users, NEW row \in User,
         user' = [ user EXCEPT ![u] = row ], row.version >= user[u].version,
         Revoke(SessionsOf(u))
  PROVE  RowsSound
<1>1. /\ user' \in [ Users -> User ]
      /\ \A v \in Users : user'[v] = IF v = u THEN row ELSE user[v]
  BY Typed
<1>2. RowsTyped
  BY <1>1, Typed, RevokeTyped DEF RowsTyped
<1>3. RowsKept
  BY <1>1, Typed, RevokeTyped DEF RowsKept
<1>4. CurrentUnlessLate'
  <2> SUFFICES ASSUME NEW s \in Sessions, session'[s].state = "live", ~session'[s].late
               PROVE  /\ session'[s].checked = user'[session'[s].user].version
                      /\ session'[s].knows = user'[session'[s].user].password
    BY DEF CurrentUnlessLate
  <2>1. session[s].state = "live" /\ s \notin SessionsOf(u)
    BY RevokeTyped
  <2>2. session[s].user # u /\ session[s].user \in Users
    BY <2>1, Typed DEF SessionsOf
  <2> QED  BY <1>1, <2>1, <2>2, RevokeTyped DEF CurrentUnlessLate
<1> QED  BY <1>2, <1>3, <1>4 DEF RowsSound

\* One row of sessions is replaced, the accounts stay.
LEMMA RowsReplaced ==
  ASSUME TypeOK, CurrentUnlessLate, user' = user, NEW s \in Sessions, NEW row \in Session,
         session' = [ session EXCEPT ![s] = row ],
         row.state # "none" /\ row.user \in Users,
         session[s].state # "none" =>
           /\ row.user = session[s].user /\ row.token >= session[s].token
           /\ session[s].state = "revoked" => row.state = "revoked",
         row.state = "live" /\ ~row.late =>
           row.checked = user[row.user].version /\ row.knows = user[row.user].password
  PROVE  RowsSound
<1>1. /\ session' \in [ Sessions -> Session ]
      /\ \A o \in Sessions : session'[o] = IF o = s THEN row ELSE session[o]
  BY Typed
<1> QED  BY <1>1, Typed DEF RowsSound, RowsTyped, RowsKept, CurrentUnlessLate

-----------------------------------------------------------------------------
(* The steps of a request *)

RequestStep(r) == Begin(r) \/ Continue(r) \/ Administer(r) \/ Abort(r)

LEMMA RowsByRequest ==
  ASSUME TypeOK, CurrentUnlessLate, NEW r \in Requests, SoundRequest(request[r]), RequestStep(r)
  PROVE  RowsSound
<1>. PICK q : q = request[r]
  OBVIOUS
<1>0. /\ q = request[r] /\ q \in Request /\ HoldsAccount(q) /\ HoldsSession(q) /\ HoldsToken(q)
      /\ \A u \in Users : user[u] \in User /\ user[u].version \in Nat /\ user[u].password \in Nat
      /\ \A s \in Sessions : session[s] \in Session /\ session[s].token \in Nat
  BY Typed DEF SoundRequest, TypeOK
<1>1. CASE Begin(r) \/ Abort(r) \/ authResult(r) \/ BeginChangePassword(r)
  BY <1>1, RowsUnchanged DEF Begin, VerifyPassword, ReadSession, Authenticate, Abort,
                             authResult, BeginChangePassword
<1>2. CASE revokeFamily(r) \/ logout(r) \/ logoutAll(r) \/ revokeSession(r)
  BY <1>2, RowsRevoked DEF revokeFamily, logout, logoutAll, revokeSession
<1>3. CASE createSession(r)
  <2>1. PICK s \in Sessions :
          /\ session[s].state = "none"
          /\ session' = [ session EXCEPT ![s] =
               [ state |-> "live", user |-> q.user, token |-> 1, expired |-> FALSE,
                 checked |-> q.version, knows |-> q.password,
                 late |-> \/ q.version # user[q.user].version
                          \/ q.password # user[q.user].password ] ]
    BY <1>0, <1>3 DEF createSession
  <2>. PICK row : row = [ state |-> "live", user |-> q.user, token |-> 1, expired |-> FALSE,
                          checked |-> q.version, knows |-> q.password,
                          late |-> \/ q.version # user[q.user].version
                                   \/ q.password # user[q.user].password ]
    OBVIOUS
  <2>2. q.user \in Users /\ user' = user
    BY <1>0, <1>3 DEF createSession, HoldsAccount, At
  <2>3. row \in Session
    BY <1>0, <2>2 DEF Session, Request
  <2>4. /\ row.state = "live" /\ row.user = q.user
        /\ ~row.late => row.checked = user[row.user].version /\ row.knows = user[row.user].password
    OBVIOUS
  <2>5. session' = [ session EXCEPT ![s] = row ] /\ session[s].state = "none"
    BY <2>1
  <2> QED  BY <2>2, <2>3, <2>4, <2>5, RowsReplaced
<1>4. CASE rotate(r)
  <2>. PICK s : s = q.session
    OBVIOUS
  <2>1. s \in Sessions /\ session[s].state # "none" /\ user' = user
    BY <1>0, <1>4 DEF rotate, HoldsSession, At
  <2>2. session' = [ session EXCEPT ![s] = [ session[s] EXCEPT !.token = session[s].token + 1,
                                                               !.expired = FALSE ] ]
    BY <1>0, <1>4, <2>1 DEF rotate, Session
  <2>. PICK n : n = session[s].token + 1
    OBVIOUS
  <2>. PICK row : row = [ session[s] EXCEPT !.token = n, !.expired = FALSE ]
    OBVIOUS
  <2>n. n \in Nat
    BY <1>0, <2>1
  <2>3. /\ row \in Session /\ row.state = session[s].state /\ row.user = session[s].user
        /\ row.token = n /\ row.checked = session[s].checked
        /\ row.knows = session[s].knows /\ row.late = session[s].late
    BY <1>0, <2>1, <2>n DEF Session
  <2>4. row.state = "live" /\ ~row.late =>
          row.checked = user[row.user].version /\ row.knows = user[row.user].password
    BY <2>1, <2>3 DEF CurrentUnlessLate
  <2>5. session' = [ session EXCEPT ![s] = row ] /\ row.user \in Users /\ row.token >= session[s].token
    BY <1>0, <2>1, <2>2, <2>3, Typed
  <2>6. session[s].state # "none" =>
          /\ row.user = session[s].user /\ row.token >= session[s].token
          /\ session[s].state = "revoked" => row.state = "revoked"
    BY <2>3, <2>5
  <2>7. row \in Session /\ row.state # "none" /\ row.user \in Users
    BY <2>1, <2>3, <2>5
  <2>8. session' = [ session EXCEPT ![s] = row ]
    BY <2>5
  <2> QED  BY <2>1, <2>4, <2>6, <2>7, <2>8, RowsReplaced
<1>5. CASE changePassword(r)
  <2>. PICK u, o : u = q.user /\ o = q.session
    OBVIOUS
  <2>1. u \in Users /\ o \in Sessions /\ session[o].state # "none" /\ session[o].user = u
    BY <1>0, <1>5 DEF changePassword, HoldsSession, HoldsAccount, At
  <2>2. /\ user' = [ user EXCEPT ![u].password = user[u].password + 1, ![u].mustChange = FALSE ]
        /\ session' = [ s \in Sessions |->
             IF s = o THEN [ session[s] EXCEPT !.knows = user[u].password + 1 ]
             ELSE IF session[s].state = "live" /\ session[s].user = u
             THEN [ session[s] EXCEPT !.state = "revoked" ] ELSE session[s] ]
    BY <1>0, <1>5, <2>1 DEF changePassword, User
  <2>. PICK n : n = user[u].password + 1
    OBVIOUS
  <2>. PICK row : row = [ user[u] EXCEPT !.password = n, !.mustChange = FALSE ]
    OBVIOUS
  <2>n. n \in Nat
    BY <1>0, <2>1
  <2>3. row \in User /\ row.version = user[u].version /\ row.password = n
    BY <1>0, <2>1, <2>n DEF User
  <2>4. user' = [ user EXCEPT ![u] = row ]
    BY <1>0, <2>1, <2>2 DEF User
  <2>5. /\ user' \in [ Users -> User ]
        /\ \A v \in Users : /\ user'[v].version = user[v].version
                            /\ user'[v].password = IF v = u THEN n ELSE user[v].password
    BY <2>3, <2>4, Typed
  <2>6. ASSUME NEW s \in Sessions
        PROVE  /\ [ session[s] EXCEPT !.knows = n ] \in Session
               /\ [ session[s] EXCEPT !.state = "revoked" ] \in Session
    BY <1>0, <2>n DEF Session
  <2>7. session' \in [ Sessions -> Session ]
    BY <1>0, <2>2, <2>6
  <2>8. ASSUME NEW s \in Sessions
        PROVE  /\ session'[s].user = session[s].user /\ session'[s].token = session[s].token
               /\ session'[s].checked = session[s].checked /\ session'[s].late = session[s].late
               /\ session'[s].knows = IF s = o THEN n ELSE session[s].knows
               /\ session'[s].state = IF s # o /\ session[s].state = "live" /\ session[s].user = u
                                      THEN "revoked" ELSE session[s].state
    BY <1>0, <2>2 DEF Session
  <2>9. RowsTyped
    BY <2>5, <2>7, <2>8, Typed DEF RowsTyped
  <2>10. RowsKept
    <3>1. \A v \in Users : user'[v].version >= user[v].version
      BY <1>0, <2>5
    <3>2. ASSUME NEW s \in Sessions, session[s].state # "none"
          PROVE  /\ session'[s].state # "none" /\ session'[s].user = session[s].user
                 /\ session'[s].token >= session[s].token
                 /\ session[s].state = "revoked" => session'[s].state = "revoked"
      BY <1>0, <2>8, <3>2
    <3> QED  BY <3>1, <3>2 DEF RowsKept
  <2>11. CurrentUnlessLate'
    <3> SUFFICES ASSUME NEW s \in Sessions, session'[s].state = "live", ~session'[s].late
                 PROVE  /\ session'[s].checked = user'[session'[s].user].version
                        /\ session'[s].knows = user'[session'[s].user].password
      BY DEF CurrentUnlessLate
    <3>1. session[s].state = "live" /\ ~session[s].late /\ (s = o \/ session[s].user # u)
      BY <2>8
    <3>2. session[s].user \in Users
      BY <3>1, Typed
    <3> QED  BY <2>1, <2>5, <2>8, <3>1, <3>2 DEF CurrentUnlessLate
  <2> QED  BY <2>9, <2>10, <2>11 DEF RowsSound
<1>6. CASE Administer(r)
  <2>1. PICK u \in Users :
          resetPassword(u) \/ deactivate(u) \/ reactivate(u) \/ revokeUserSessions(u)
    BY <1>6 DEF Administer
  <2>2. CASE revokeUserSessions(u)
    BY <2>2, RowsRevoked DEF revokeUserSessions
  <2>3. CASE reactivate(u)
    <3>. PICK row : row = [ user[u] EXCEPT !.active = TRUE ]
      OBVIOUS
    <3>1. row \in User /\ row.version = user[u].version /\ row.password = user[u].password
      BY <1>0 DEF User
    <3>2. user' = [ user EXCEPT ![u] = row ] /\ session' = session
      BY <2>3 DEF reactivate
    <3>3. user' \in [ Users -> User ] /\ \A v \in Users : user'[v] = IF v = u THEN row ELSE user[v]
      BY <3>1, <3>2, Typed
    <3> QED  BY <1>0, <3>1, <3>2, <3>3, Typed DEF RowsSound, RowsTyped, RowsKept, CurrentUnlessLate
  <2>4. CASE deactivate(u)
    <3>. PICK n : n = user[u].version + 1
      OBVIOUS
    <3>. PICK row : row = [ user[u] EXCEPT !.active = FALSE, !.version = n ]
      OBVIOUS
    <3>n. n \in Nat /\ n >= user[u].version
      BY <1>0
    <3>1. row \in User /\ row.version >= user[u].version
      BY <1>0, <3>n DEF User
    <3>2. user' = [ user EXCEPT ![u] = row ] /\ Revoke(SessionsOf(u))
      BY <1>0, <2>4 DEF deactivate, User
    <3> QED  BY <3>1, <3>2, RowsReset
  <2>5. CASE resetPassword(u)
    <3>. PICK n, p : n = user[u].version + 1 /\ p = user[u].password + 1
      OBVIOUS
    <3>. PICK row : row = [ user[u] EXCEPT !.password = p, !.mustChange = TRUE, !.version = n ]
      OBVIOUS
    <3>n. n \in Nat /\ p \in Nat /\ n >= user[u].version
      BY <1>0
    <3>1. row \in User /\ row.version >= user[u].version
      BY <1>0, <3>n DEF User
    <3>2. user' = [ user EXCEPT ![u] = row ] /\ Revoke(SessionsOf(u))
      BY <1>0, <2>5 DEF resetPassword, User
    <3> QED  BY <3>1, <3>2, RowsReset
  <2> QED  BY <2>1, <2>2, <2>3, <2>4, <2>5
<1> QED  BY <1>1, <1>2, <1>3, <1>4, <1>5, <1>6 DEF RequestStep, Continue

LEMMA RowsByTime ==
  ASSUME TypeOK, CurrentUnlessLate, NEW s \in Sessions, Expire(s)
  PROVE  RowsSound
<1>. PICK row : row = [ session[s] EXCEPT !.expired = TRUE ]
  OBVIOUS
<1>1. session[s] \in Session /\ session[s].token \in Nat /\ session[s].state # "none"
  BY Typed DEF Expire
<1>2. /\ row \in Session /\ row.state = session[s].state /\ row.user = session[s].user
      /\ row.token = session[s].token /\ row.checked = session[s].checked
      /\ row.knows = session[s].knows /\ row.late = session[s].late
  BY <1>1 DEF Session
<1>3. session' = [ session EXCEPT ![s] = row ] /\ user' = user /\ row.user \in Users
  BY <1>1, <1>2, Typed DEF Expire
<1>4. row.token >= session[s].token
  BY <1>1, <1>2
<1>5. row.state = "live" /\ ~row.late =>
        row.checked = user[row.user].version /\ row.knows = user[row.user].password
  BY <1>2 DEF CurrentUnlessLate
<1> QED  BY <1>1, <1>2, <1>3, <1>4, <1>5, RowsReplaced

-----------------------------------------------------------------------------
(* The requests in flight *)

LEMMA NoRequestSound == NoRequest \in Request /\ SoundRequest(NoRequest) /\ NoRequest.op = "idle"
BY DEF NoRequest, Request, SoundRequest, HoldsAccount, HoldsSession, HoldsToken

LEMMA SetHolds ==
  ASSUME TypeOK, NEW r \in Requests, NEW q, Set(r, q)
  PROVE  /\ request'[r] = q /\ \A o \in Requests : o # r => request'[o] = request[o]
         /\ q \in Request => request' \in [ Requests -> Request ]
         /\ overlapped' \in BOOLEAN
         /\ ~overlapped' => ~overlapped /\ \A o \in Requests : o # r => request[o] = NoRequest
BY DEF TypeOK, Set

\* What a request holds stays true whoever acts.
LEMMA HeldStaysTrue ==
  ASSUME TypeOK, RowsTyped, RowsKept, NEW CONSTANT q \in Request, SoundRequest(q)
  PROVE  SoundRequest(q)'
<1>1. HoldsAccount(q)' /\ HoldsSession(q)'
  BY DEF SoundRequest, HoldsAccount, HoldsSession, RowsKept
<1>2. HoldsToken(q)'
  <2> SUFFICES ASSUME q.op = "refresh", q.phase = "checked"
               PROVE  q.token <= session'[q.session].token
    BY DEF HoldsToken
  <2>1. /\ q.session \in Sessions /\ session[q.session].state # "none"
        /\ q.token <= session[q.session].token
    BY DEF SoundRequest, HoldsSession, HoldsToken
  <2>2. session'[q.session].token >= session[q.session].token
    BY <2>1 DEF RowsKept
  <2>3. q.token \in Nat /\ session[q.session].token \in Nat /\ session'[q.session].token \in Nat
    BY <2>1, Typed DEF Request, RowsTyped, Session
  <2> QED  BY <2>1, <2>2, <2>3
<1> QED  BY <1>1, <1>2 DEF SoundRequest

\* The token of a refresh that has just been compared is the one in the row.
JustCompared(q) == q.op = "refresh" /\ q.phase = "checked" => q.token = session'[q.session].token

\* A step makes of the request one that is sound again.
LEMMA RequestMoves ==
  ASSUME TypeOK, AccessSound, NEW r \in Requests, SoundRequest(request[r]), RowsTyped, RowsKept,
         RequestStep(r)
  PROVE  \E q \in Request : Set(r, q) /\ SoundRequest(q)' /\ JustCompared(q)
<1>. PICK q : q = request[r]
  OBVIOUS
<1>0. /\ q = request[r] /\ q \in Request /\ HoldsAccount(q) /\ HoldsSession(q)
      /\ \A u \in Users : user[u].version \in Nat /\ user[u].password \in Nat
      /\ \A s \in Sessions : session[s].token \in Nat
      /\ \A s \in Sessions : session[s].state # "none" => session[s].user \in Users
  BY Typed DEF SoundRequest
<1>s. ASSUME NEW CONSTANT h \in Request, Set(r, h), HoldsAccount(h)', HoldsSession(h)',
             h.op = "refresh" => h.phase # "checked"
      PROVE  \E k \in Request : Set(r, k) /\ SoundRequest(k)' /\ JustCompared(k)
  BY <1>s DEF SoundRequest, HoldsToken, JustCompared
<1>f. ASSUME Finish(r)
      PROVE  \E k \in Request : Set(r, k) /\ SoundRequest(k)' /\ JustCompared(k)
  <2>1. NoRequest \in Request /\ SoundRequest(NoRequest)' /\ JustCompared(NoRequest)
    BY DEF NoRequest, Request, SoundRequest, HoldsAccount, HoldsSession, HoldsToken, JustCompared
  <2> QED  BY <1>f, <2>1 DEF Finish
<1>1. CASE VerifyPassword(r)
  <2>1. PICK u \in Users :
          Set(r, [ NoRequest EXCEPT !.op = "login", !.user = u, !.version = user[u].version,
                                    !.password = user[u].password ])
    BY <1>1 DEF VerifyPassword
  <2>. PICK h : h = [ NoRequest EXCEPT !.op = "login", !.user = u, !.version = user[u].version,
                                       !.password = user[u].password ]
    OBVIOUS
  <2>2. h \in Request /\ h.op = "login" /\ h.phase = "started" /\ h.user = u
    BY <1>0, NoRequestSound DEF NoRequest, Request
  <2> QED  BY <1>s, <2>1, <2>2 DEF HoldsAccount, HoldsSession
<1>2. CASE ReadSession(r)
  <2>1. PICK s \in Sessions, token \in 1 .. MaxToken, phase \in { "checked", "refused" } :
          /\ session[s].state # "none" /\ (phase = "checked" => session[s].token = token)
          /\ Set(r, [ NoRequest EXCEPT !.op = "refresh", !.user = session[s].user, !.session = s,
                                       !.token = token, !.phase = phase ])
    BY <1>2 DEF ReadSession, verifiersMatch
  <2>. PICK h : h = [ NoRequest EXCEPT !.op = "refresh", !.user = session[s].user, !.session = s,
                                       !.token = token, !.phase = phase ]
    OBVIOUS
  <2>2. /\ h \in Request /\ h.op = "refresh" /\ h.phase = phase /\ h.user = session[s].user
        /\ h.session = s /\ h.token = token
    <3>1. token \in Nat /\ session[s].user \in Users
      BY <1>0, <2>1, SessionsAssumption
    <3> QED  BY <2>1, <3>1, NoRequestSound DEF NoRequest, Request
  <2>3. session' = session /\ user' = user
    BY <1>2 DEF ReadSession
  <2>4. SoundRequest(h)' /\ JustCompared(h)
    <3>1. HoldsAccount(h)' /\ HoldsSession(h)'
      BY <1>0, <2>1, <2>2, <2>3 DEF HoldsAccount, HoldsSession
    <3>2. HoldsToken(h)' /\ JustCompared(h)
      BY <1>0, <2>1, <2>2, <2>3 DEF HoldsToken, JustCompared
    <3> QED  BY <3>1, <3>2 DEF SoundRequest
  <2> QED  BY <2>1, <2>2, <2>4
<1>3. CASE Authenticate(r)
  <2>1. PICK a \in access, op \in { "logout", "logoutAll", "revoke", "password" } :
          Set(r, [ NoRequest EXCEPT !.op = op, !.session = a.session,
                                    !.user = session[a.session].user ])
    BY <1>3 DEF Authenticate
  <2>. PICK h : h = [ NoRequest EXCEPT !.op = op, !.session = a.session,
                                       !.user = session[a.session].user ]
    OBVIOUS
  <2>2. a.session \in Sessions /\ session[a.session].state # "none"
        /\ session[a.session].user \in Users
    BY <1>0, <2>1 DEF TypeOK, AccessSound
  <2>3. /\ h \in Request /\ h.op = op /\ h.phase = "started" /\ h.session = a.session
        /\ h.user = session[a.session].user
    BY <2>2, NoRequestSound DEF NoRequest, Request
  <2>4. session' = session
    BY <1>3 DEF Authenticate
  <2> QED  BY <1>s, <2>1, <2>2, <2>3, <2>4 DEF HoldsAccount, HoldsSession
<1>4. CASE createSession(r)
  <2>1. PICK s \in Sessions :
          /\ Set(r, [ q EXCEPT !.phase = "done", !.session = s ])
          /\ session' = [ session EXCEPT ![s] =
               [ state |-> "live", user |-> q.user, token |-> 1, expired |-> FALSE,
                 checked |-> q.version, knows |-> q.password,
                 late |-> \/ q.version # user[q.user].version
                          \/ q.password # user[q.user].password ] ]
    BY <1>0, <1>4 DEF createSession
  <2>. PICK h : h = [ q EXCEPT !.phase = "done", !.session = s ]
    OBVIOUS
  <2>2. h \in Request /\ h.op = "login" /\ h.phase = "done" /\ h.session = s /\ h.user = q.user
    BY <1>0, <1>4 DEF createSession, At, Request
  <2>3. session'[s].state = "live" /\ session'[s].user = q.user /\ q.user \in Users
    BY <1>0, <1>4, <2>1, Typed DEF createSession, At, HoldsAccount
  <2> QED  BY <1>s, <2>1, <2>2, <2>3 DEF HoldsAccount, HoldsSession
<1>5. CASE rotate(r)
  <2>. PICK h : h = [ q EXCEPT !.phase = "done" ]
    OBVIOUS
  <2>1. Set(r, h) /\ q.op = "refresh"
    BY <1>0, <1>5 DEF rotate, At
  <2>2. /\ h \in Request /\ h.op = "refresh" /\ h.phase = "done" /\ h.session = q.session
        /\ h.user = q.user
    BY <1>0, <2>1 DEF Request
  <2>3. HoldsAccount(h)' /\ HoldsSession(h)'
    BY <1>0, <2>1, <2>2 DEF HoldsAccount, HoldsSession, RowsKept
  <2> QED  BY <1>s, <2>1, <2>2, <2>3
<1>6. CASE BeginChangePassword(r)
  <2>. PICK h : h = [ q EXCEPT !.phase = "checked" ]
    OBVIOUS
  <2>1. Set(r, h) /\ q.op = "password"
    BY <1>0, <1>6 DEF BeginChangePassword, At
  <2>2. /\ h \in Request /\ h.op = "password" /\ h.phase = "checked" /\ h.session = q.session
        /\ h.user = q.user
    BY <1>0, <2>1 DEF Request
  <2>3. HoldsAccount(h)' /\ HoldsSession(h)'
    BY <1>0, <2>1, <2>2 DEF HoldsAccount, HoldsSession, RowsKept
  <2> QED  BY <1>s, <2>1, <2>2, <2>3
<1>7. CASE \/ authResult(r) \/ revokeFamily(r) \/ logout(r) \/ logoutAll(r) \/ revokeSession(r)
           \/ changePassword(r) \/ Administer(r) \/ Abort(r)
  BY <1>f, <1>7 DEF authResult, revokeFamily, logout, logoutAll, revokeSession, changePassword,
                    Administer, Abort
<1> QED  BY <1>1, <1>2, <1>3, <1>4, <1>5, <1>6, <1>7 DEF RequestStep, Begin, Continue

-----------------------------------------------------------------------------
(* Access tokens and rotations *)

\* Only the end of a login or refresh hands out an access token, for the version read now.
LEMMA AccessByRequest ==
  ASSUME TypeOK, NEW r \in Requests, SoundRequest(request[r]), RequestStep(r)
  PROVE  \/ access' = access
         \/ \E s \in Sessions : /\ session[s].state # "none" /\ user' = user /\ session' = session
                                /\ access' = access \cup { [ session |-> s,
                                                  version |-> user[session[s].user].version ] }
<1>1. CASE authResult(r)
  <2>1. /\ request[r].session \in Sessions /\ session[request[r].session].state # "none"
        /\ session[request[r].session].user = request[r].user
    BY <1>1 DEF authResult, SoundRequest, HoldsSession
  <2> QED  BY <1>1, <2>1 DEF authResult
<1>2. CASE ~authResult(r)
  BY <1>2 DEF RequestStep, Begin, Continue, VerifyPassword, ReadSession, Authenticate,
              createSession, revokeFamily, rotate, logout, logoutAll, revokeSession,
              BeginChangePassword, changePassword, Administer, resetPassword, deactivate,
              reactivate, revokeUserSessions, Abort
<1> QED  BY <1>1, <1>2

LEMMA AccessKept ==
  ASSUME TypeOK, AccessSound, RowsTyped, RowsKept,
         \/ access' = access
         \/ \E s \in Sessions : /\ session[s].state # "none" /\ user' = user /\ session' = session
                                /\ access' = access \cup { [ session |-> s,
                                                  version |-> user[session[s].user].version ] }
  PROVE  access' \subseteq [ session : Sessions, version : Nat ] /\ AccessSound'
<1>1. ASSUME NEW a \in access
      PROVE  /\ session'[a.session].state # "none"
             /\ a.version <= user'[session'[a.session].user].version
  <2>1. /\ a.session \in Sessions /\ a.version \in Nat /\ session[a.session].state # "none"
        /\ a.version <= user[session[a.session].user].version
    BY DEF TypeOK, AccessSound
  <2>. PICK u : u = session[a.session].user
    OBVIOUS
  <2>2. /\ u \in Users /\ user[u].version \in Nat /\ user'[u].version \in Nat
        /\ user'[u].version >= user[u].version
    BY <2>1, Typed DEF RowsTyped, RowsKept, User
  <2>3. session'[a.session].state # "none" /\ session'[a.session].user = u
    BY <2>1 DEF RowsKept
  <2> QED  BY <2>1, <2>2, <2>3
<1>2. CASE access' = access
  BY <1>1, <1>2 DEF AccessSound, TypeOK
<1>3. ASSUME NEW s \in Sessions, session[s].state # "none", user' = user, session' = session,
             access' = access \cup { [ session |-> s, version |-> user[session[s].user].version ] }
      PROVE  access' \subseteq [ session : Sessions, version : Nat ] /\ AccessSound'
  <2>1. user[session[s].user].version \in Nat
    BY <1>3, Typed
  <2> QED  BY <1>1, <1>3, <2>1 DEF AccessSound, TypeOK
<1> QED  BY <1>2, <1>3

\* Only rotate exchanges a refresh token.
LEMMA RotationsByRequest ==
  ASSUME TypeOK, NEW r \in Requests, SoundRequest(request[r]), RequestStep(r)
  PROVE  \/ rotations' = rotations
         \/ \E s \in Sessions, from \in Nat :
              /\ session[s].state # "none" /\ from <= session[s].token
              /\ session'[s].token = session[s].token + 1
              /\ At(r, "refresh", "checked") /\ s = request[r].session /\ from = request[r].token
              /\ rotations' = rotations \cup
                   { [ session |-> s, from |-> from, to |-> session[s].token + 1 ] }
<1>1. CASE rotate(r)
  <2>. PICK s, from : s = request[r].session /\ from = request[r].token
    OBVIOUS
  <2>1. /\ s \in Sessions /\ session[s].state # "none" /\ from \in Nat
        /\ from <= session[s].token
    BY <1>1, Typed DEF rotate, At, SoundRequest, HoldsSession, HoldsToken, Request
  <2>2. /\ At(r, "refresh", "checked")
        /\ session' = [ session EXCEPT ![s].token = @ + 1, ![s].expired = FALSE ]
        /\ rotations' = rotations \cup
             { [ session |-> s, from |-> from, to |-> session[s].token + 1 ] }
    BY <1>1 DEF rotate
  <2>3. session'[s].token = session[s].token + 1
    BY <2>1, <2>2, Typed DEF Session
  <2> QED  BY <2>1, <2>2, <2>3
<1>2. CASE ~rotate(r)
  BY <1>2 DEF RequestStep, Begin, Continue, VerifyPassword, ReadSession, Authenticate,
              createSession, authResult, revokeFamily, logout, logoutAll, revokeSession,
              BeginChangePassword, changePassword, Administer, resetPassword, deactivate,
              reactivate, revokeUserSessions, Abort
<1> QED  BY <1>1, <1>2

\* The exchanged tokens of a session stay below its current one.
LEMMA RotationsKept ==
  ASSUME TypeOK, RotationsSound, RowsTyped, RowsKept, NEW r \in Requests,
         SoundRequest(request[r]), RequestStep(r)
  PROVE  /\ rotations' \subseteq [ session : Sessions, from : Nat, to : Nat ]
         /\ RotationsSound'
<1>1. ASSUME NEW x \in rotations
      PROVE  session'[x.session].state # "none" /\ x.from < session'[x.session].token
  <2>1. /\ x.session \in Sessions /\ x.from \in Nat /\ session[x.session].state # "none"
        /\ x.from < session[x.session].token
    BY DEF TypeOK, RotationsSound
  <2>2. /\ session'[x.session].state # "none"
        /\ session'[x.session].token >= session[x.session].token
    BY <2>1 DEF RowsKept
  <2>3. session[x.session].token \in Nat /\ session'[x.session].token \in Nat
    BY <2>1, Typed DEF RowsTyped, Session
  <2> QED  BY <2>1, <2>2, <2>3
<1>2. CASE rotations' = rotations
  BY <1>1, <1>2 DEF TypeOK, RotationsSound
<1>3. ASSUME NEW s \in Sessions, NEW from \in Nat, session[s].state # "none",
             from <= session[s].token, session'[s].token = session[s].token + 1,
             rotations' = rotations \cup
               { [ session |-> s, from |-> from, to |-> session[s].token + 1 ] }
      PROVE  /\ rotations' \subseteq [ session : Sessions, from : Nat, to : Nat ]
             /\ RotationsSound'
  <2>1. session[s].token \in Nat /\ session'[s].state # "none"
    BY <1>3, Typed DEF RowsKept
  <2>2. from < session'[s].token
    BY <1>3, <2>1
  <2> QED  BY <1>1, <1>3, <2>1, <2>2 DEF TypeOK, RotationsSound
<1> QED  BY <1>2, <1>3, RotationsByRequest

\* While requests follow one another the token given up is the current one, newer than
\* every token given up before.
LEMMA SpentOnceKept ==
  ASSUME TypeOK, RotationsSound, ComparedIsCurrent, TokensSpentOnceInOrder,
         NEW r \in Requests, SoundRequest(request[r]), RequestStep(r), ~overlapped
  PROVE  TokensSpentOnce'
<1>1. TokensSpentOnce
  BY DEF TokensSpentOnceInOrder
<1>2. CASE rotations' = rotations
  BY <1>1, <1>2 DEF TokensSpentOnce
<1>3. ASSUME NEW s \in Sessions, NEW from \in Nat, At(r, "refresh", "checked"),
             s = request[r].session, from = request[r].token,
             rotations' = rotations \cup
               { [ session |-> s, from |-> from, to |-> session[s].token + 1 ] }
      PROVE  TokensSpentOnce'
  <2>1. from = session[s].token
    BY <1>3 DEF ComparedIsCurrent
  <2>2. \A x \in rotations : x.session = s => x.from # from
    <3> SUFFICES ASSUME NEW x \in rotations, x.session = s, x.from = from
                 PROVE  FALSE
      OBVIOUS
    <3>1. from < session[s].token
      BY DEF RotationsSound
    <3> QED  BY <2>1, <3>1
  <2>3. \A a, b \in rotations' :
          a.session = b.session /\ a.from = b.from => a.to = b.to
    BY <1>1, <1>3, <2>2 DEF TokensSpentOnce
  <2> QED  BY <2>3 DEF TokensSpentOnce
<1> QED  BY <1>2, <1>3, RotationsByRequest

-----------------------------------------------------------------------------
(* The invariant *)

LEMMA RequestKeepsInvariant ==
  ASSUME IInv, NEW r \in Requests, RequestStep(r)
  PROVE  IInv' /\ RowsSound
<1>1. /\ TypeOK /\ AccessSound /\ RotationsSound /\ CurrentUnlessLate /\ ComparedIsCurrent
      /\ TokensSpentOnceInOrder /\ \A o \in Requests : SoundRequest(request[o])
  BY DEF IInv, RequestSound
<1>2. RowsSound
  BY <1>1, RowsByRequest
<1>3. RowsTyped /\ RowsKept /\ CurrentUnlessLate'
  BY <1>2 DEF RowsSound
<1>4. PICK q \in Request : Set(r, q) /\ SoundRequest(q)' /\ JustCompared(q)
  BY <1>1, <1>3, RequestMoves
<1>5. /\ request'[r] = q /\ \A o \in Requests : o # r => request'[o] = request[o]
      /\ request' \in [ Requests -> Request ] /\ overlapped' \in BOOLEAN
      /\ ~overlapped' => ~overlapped /\ \A o \in Requests : o # r => request[o] = NoRequest
  BY <1>1, <1>4, SetHolds
<1>6. /\ access' \subseteq [ session : Sessions, version : Nat ] /\ AccessSound'
  BY <1>1, <1>3, AccessByRequest, AccessKept
<1>7. /\ rotations' \subseteq [ session : Sessions, from : Nat, to : Nat ] /\ RotationsSound'
  BY <1>1, <1>3, RotationsKept
<1>8. TypeOK'
  BY <1>3, <1>5, <1>6, <1>7 DEF TypeOK, RowsTyped
<1>9. RequestSound'
  <2>1. ASSUME NEW o \in Requests, o # r
        PROVE  SoundRequest(request[o])'
    <3>. PICK h : h = request[o]
      OBVIOUS
    <3>1. h \in Request /\ SoundRequest(h)
      BY <1>1, Typed
    <3>2. SoundRequest(h)'
      BY <1>1, <1>3, <3>1, HeldStaysTrue
    <3>3. request'[o] = h
      BY <1>5, <2>1
    <3> QED  BY <3>2, <3>3 DEF SoundRequest, HoldsAccount, HoldsSession, HoldsToken
  <2>2. SoundRequest(request[r])'
    BY <1>4, <1>5 DEF SoundRequest, HoldsAccount, HoldsSession, HoldsToken
  <2> QED  BY <2>1, <2>2 DEF RequestSound
<1>10. ComparedIsCurrent'
  <2> SUFFICES ASSUME ~overlapped', NEW o \in Requests, At(o, "refresh", "checked")'
               PROVE  request'[o].token = session'[request'[o].session].token
    BY DEF ComparedIsCurrent
  <2>1. o = r
    BY <1>5 DEF At, NoRequest
  <2> QED  BY <1>4, <1>5, <2>1 DEF At, JustCompared
<1>11. TokensSpentOnceInOrder'
  BY <1>1, <1>5, SpentOnceKept DEF TokensSpentOnceInOrder
<1> QED  BY <1>2, <1>3, <1>6, <1>7, <1>8, <1>9, <1>10, <1>11 DEF IInv

LEMMA TimeKeepsInvariant ==
  ASSUME IInv, NEW s \in Sessions, Expire(s)
  PROVE  IInv' /\ RowsSound
<1>1. /\ TypeOK /\ AccessSound /\ RotationsSound /\ CurrentUnlessLate /\ ComparedIsCurrent
      /\ TokensSpentOnceInOrder /\ \A o \in Requests : SoundRequest(request[o])
  BY DEF IInv, RequestSound
<1>2. RowsSound
  BY <1>1, RowsByTime
<1>3. RowsTyped /\ RowsKept /\ CurrentUnlessLate'
  BY <1>2 DEF RowsSound
<1>4. /\ access' = access /\ rotations' = rotations /\ overlapped' = overlapped
      /\ request' = request /\ user' = user
  BY DEF Expire
<1>5. \A o \in Sessions : session'[o].token = session[o].token /\ session'[o].state = session[o].state
  BY <1>1, Typed DEF Expire, Session
<1>6. TypeOK'
  BY <1>1, <1>3, <1>4 DEF TypeOK, RowsTyped
<1>7. RequestSound'
  <2>1. ASSUME NEW o \in Requests
        PROVE  SoundRequest(request[o])'
    <3>. PICK h : h = request[o]
      OBVIOUS
    <3>1. h \in Request /\ SoundRequest(h)
      BY <1>1, Typed
    <3>2. SoundRequest(h)'
      BY <1>1, <1>3, <3>1, HeldStaysTrue
    <3> QED  BY <1>4, <3>2 DEF SoundRequest, HoldsAccount, HoldsSession, HoldsToken
  <2> QED  BY <2>1 DEF RequestSound
<1>8. AccessSound'
  BY <1>1, <1>3, <1>4, AccessKept
<1>9. RotationsSound'
  BY <1>1, <1>4, <1>5 DEF RotationsSound, TypeOK
<1>10. ComparedIsCurrent'
  <2> SUFFICES ASSUME ~overlapped, NEW o \in Requests, At(o, "refresh", "checked")
               PROVE  request[o].token = session'[request[o].session].token
    BY <1>4 DEF ComparedIsCurrent, At
  <2>1. request[o].session \in Sessions /\ request[o].token = session[request[o].session].token
    BY <1>1 DEF ComparedIsCurrent, SoundRequest, HoldsSession, At
  <2> QED  BY <1>5, <2>1
<1>11. TokensSpentOnceInOrder'
  BY <1>1, <1>4 DEF TokensSpentOnceInOrder, TokensSpentOnce
<1> QED  BY <1>2, <1>3, <1>6, <1>7, <1>8, <1>9, <1>10, <1>11 DEF IInv

LEMMA InitInvariant == Init => IInv
<1> SUFFICES ASSUME Init PROVE IInv
  OBVIOUS
<1>1. TypeOK
  BY NoRequestSound DEF Init, TypeOK, User, Session
<1>2. \A r \in Requests : request[r] = NoRequest
  BY DEF Init
<1>3. RequestSound /\ ComparedIsCurrent
  BY <1>2, NoRequestSound DEF RequestSound, ComparedIsCurrent, At
<1>4. AccessSound /\ RotationsSound /\ CurrentUnlessLate /\ TokensSpentOnceInOrder
  BY DEF Init, AccessSound, RotationsSound, CurrentUnlessLate, TokensSpentOnceInOrder, TokensSpentOnce
<1> QED  BY <1>1, <1>3, <1>4 DEF IInv

LEMMA StutterKeepsInvariant ==
  ASSUME IInv, UNCHANGED vars
  PROVE  IInv'
<1> USE DEF vars
<1>1. TypeOK'
  BY DEF IInv, TypeOK
<1>2. RequestSound' /\ ComparedIsCurrent'
  BY DEF IInv, RequestSound, SoundRequest, HoldsAccount, HoldsSession, HoldsToken,
         ComparedIsCurrent, At
<1>3. AccessSound' /\ RotationsSound' /\ CurrentUnlessLate' /\ TokensSpentOnceInOrder'
  BY DEF IInv, AccessSound, RotationsSound, CurrentUnlessLate, TokensSpentOnceInOrder, TokensSpentOnce
<1> QED  BY <1>1, <1>2, <1>3 DEF IInv

LEMMA NextInvariant == IInv /\ [Next]_vars => IInv'
<1> SUFFICES ASSUME IInv, [Next]_vars PROVE IInv'
  OBVIOUS
<1>1. CASE Next
  BY <1>1, RequestKeepsInvariant, TimeKeepsInvariant DEF Next, RequestStep
<1> QED  BY <1>1, StutterKeepsInvariant

\* Every step leaves the rows in order, a stuttering one included.
LEMMA NextRows == IInv /\ [Next]_vars => RowsSound
<1> SUFFICES ASSUME IInv, [Next]_vars PROVE RowsSound
  OBVIOUS
<1>1. CASE Next
  BY <1>1, RequestKeepsInvariant, TimeKeepsInvariant DEF Next, RequestStep
<1>2. CASE UNCHANGED vars
  BY <1>2, RowsUnchanged DEF IInv, vars
<1> QED  BY <1>1, <1>2

-----------------------------------------------------------------------------
(* The theorems *)

\* The inductive invariant holds of every behaviour.
THEOREM Invariance == Spec => []IInv
BY InitInvariant, NextInvariant, PTL DEF Spec

\* Every variable keeps its type, and every session that exists names an account.
THEOREM TypeCorrect == Spec => []TypeOK
<1>1. IInv => TypeOK
  BY DEF IInv
<1> QED  BY <1>1, Invariance, PTL

\* A live session has seen the last reset, deactivation and password of its account, unless
\* its login was checked before and inserted its row after (AuthService.login).
THEOREM LiveIsCurrent == Spec => []CurrentUnlessLate
<1>1. IInv => CurrentUnlessLate
  BY DEF IInv
<1> QED  BY <1>1, Invariance, PTL

\* A refresh token is exchanged at most once as long as no two requests overlap
\* (AuthService.refresh).
THEOREM SpentOnceInOrder == Spec => []TokensSpentOnceInOrder
<1>1. IInv => TokensSpentOnceInOrder
  BY DEF IInv
<1> QED  BY <1>1, Invariance, PTL

\* No step makes a revoked session valid again, not even a refresh that was checked before
\* the revocation and writes after it.
THEOREM RevocationFinal == Spec => RevocationIsFinal
<1>1. IInv /\ [Next]_vars => [RevokedForever]_vars
  BY NextRows DEF RowsSound, RowsKept, RevokedForever
<1> QED  BY <1>1, Invariance, PTL DEF Spec, RevocationIsFinal

\* An access token that AccessTokenGuard has a lasting reason to refuse, a revoked session
\* or an older security version, is refused ever after.
THEOREM RefusedForGood == Spec => AccessEnds
<1>1. IInv /\ [Next]_vars => [NeverAcceptedAgain]_vars
  <2> SUFFICES ASSUME IInv, [Next]_vars, NEW a \in access,
                      \/ session[a.session].state = "revoked"
                      \/ a.version # user[session[a.session].user].version
               PROVE  ~Accepts(a)'
    BY DEF NeverAcceptedAgain
  <2>1. RowsKept /\ RowsTyped
    BY NextRows DEF RowsSound
  <2>. PICK s, u : s = a.session /\ u = session[a.session].user
    OBVIOUS
  <2>2. /\ s \in Sessions /\ session[s].state # "none" /\ u \in Users
        /\ a.version \in Nat /\ a.version <= user[u].version
    BY Typed DEF IInv, TypeOK, AccessSound
  <2>3. CASE session[s].state = "revoked"
    BY <2>1, <2>2, <2>3 DEF RowsKept, Accepts
  <2>4. CASE a.version # user[u].version
    <3>1. /\ user[u].version \in Nat /\ user'[u].version \in Nat
          /\ user'[u].version >= user[u].version /\ session'[s].user = u
      BY <2>1, <2>2, Typed DEF IInv, RowsKept, RowsTyped, User
    <3>2. a.version # user'[u].version
      BY <2>2, <2>4, <3>1
    <3> QED  BY <3>1, <3>2 DEF Accepts
  <2> QED  BY <2>3, <2>4
<1> QED  BY <1>1, Invariance, PTL DEF Spec, AccessEnds

-----------------------------------------------------------------------------
(* The rate limit: how many attempts a window lets through *)

\* The attempts under way that will be let through.
Admissible == { r \in Attempts : attempt[r].count > 0 /\ attempt[r].count <= MAX }

\* The counts handed out in this window that are no more than the limit.
Granted == IF count <= MAX THEN count ELSE MAX

\* What was let through and what still will be: attempts granted in this window, and those
\* granted in an earlier one, which were all under way when the key expired.
RateInv ==
  /\ RateTypeOK
  /\ \A r \in Attempts : attempt[r].phase = "idle" => attempt[r].count = 0
  /\ \A r \in Attempts : attempt[r].phase # "idle" => attempt[r].count > 0
  /\ admitted + Cardinality(Admissible) <= Granted + Cardinality(Attempts)

LEMMA AdmissibleFinite ==
  /\ IsFiniteSet(Admissible) /\ Cardinality(Admissible) \in Nat
  /\ Cardinality(Attempts) \in Nat /\ Cardinality(Admissible) <= Cardinality(Attempts)
<1>1. Admissible \subseteq Attempts
  BY DEF Admissible
<1> QED  BY <1>1, RateLimitAssumption, FS_Subset, FS_CardinalityType

\* An attempt that is given a count, or is done with it.
LEMMA AttemptSet ==
  ASSUME RateInv, NEW r \in Attempts, NEW q \in [ phase : { "idle", "counted", "timed" }, count : Nat ],
         attempt' = [ attempt EXCEPT ![r] = q ],
         q.phase = "idle" <=> q.count = 0
  PROVE  /\ attempt' \in [ Attempts -> [ phase : { "idle", "counted", "timed" }, count : Nat ] ]
         /\ \A s \in Attempts : attempt'[s].phase = "idle" => attempt'[s].count = 0
         /\ \A s \in Attempts : attempt'[s].phase # "idle" => attempt'[s].count > 0
         /\ Cardinality(Admissible') \in Nat
         /\ Cardinality(Admissible') <= Cardinality(Admissible) + 1
         /\ ~(q.count > 0 /\ q.count <= MAX) =>
              /\ Cardinality(Admissible') <= Cardinality(Admissible)
              /\ r \in Admissible => Cardinality(Admissible') + 1 = Cardinality(Admissible)
<1>1. attempt'[r] = q /\ \A s \in Attempts : s # r => attempt'[s] = attempt[s]
  BY DEF RateInv, RateTypeOK
<1>2. attempt' \in [ Attempts -> [ phase : { "idle", "counted", "timed" }, count : Nat ] ]
  BY DEF RateInv, RateTypeOK
<1>3. \A s \in Attempts : s \in Admissible' <=>
        IF s = r THEN q.count > 0 /\ q.count <= MAX ELSE s \in Admissible
  BY <1>1 DEF Admissible
<1>4. Admissible' = IF q.count > 0 /\ q.count <= MAX THEN Admissible \cup {r}
                    ELSE Admissible \ {r}
  <2>1. Admissible \subseteq Attempts /\ Admissible' \subseteq Attempts
    BY DEF Admissible
  <2>2. CASE q.count > 0 /\ q.count <= MAX
    BY <1>3, <2>1, <2>2
  <2>3. CASE ~(q.count > 0 /\ q.count <= MAX)
    BY <1>3, <2>1, <2>3
  <2> QED  BY <2>2, <2>3
<1>. PICK n, more, less : /\ n = Cardinality(Admissible)
                          /\ more = Cardinality(Admissible \cup {r})
                          /\ less = Cardinality(Admissible \ {r})
  OBVIOUS
<1>5. n \in Nat /\ (r \in Admissible => n > 0)
  <2>1. r \in Admissible => Admissible # {}
    OBVIOUS
  <2> QED  BY <2>1, AdmissibleFinite, FS_EmptySet
<1>6. more = IF r \in Admissible THEN n ELSE n + 1
  BY AdmissibleFinite, FS_AddElement
<1>7. less = IF r \in Admissible THEN n - 1 ELSE n
  BY AdmissibleFinite, FS_RemoveElement
<1>8. Cardinality(Admissible') = IF q.count > 0 /\ q.count <= MAX THEN more ELSE less
  BY <1>4
<1>9. /\ Cardinality(Admissible') \in Nat
      /\ Cardinality(Admissible') <= n + 1
      /\ ~(q.count > 0 /\ q.count <= MAX) =>
           /\ Cardinality(Admissible') <= n
           /\ r \in Admissible => Cardinality(Admissible') + 1 = n
  BY <1>5, <1>6, <1>7, <1>8
<1> QED  BY <1>1, <1>2, <1>9 DEF RateInv

LEMMA RateInitInv == RateInit => RateInv
<1> SUFFICES ASSUME RateInit PROVE RateInv
  OBVIOUS
<1>1. /\ Idle \in [ phase : { "idle", "counted", "timed" }, count : Nat ]
      /\ Idle.phase = "idle" /\ Idle.count = 0
  BY DEF Idle
<1>2. attempt \in [ Attempts -> [ phase : { "idle", "counted", "timed" }, count : Nat ] ]
      /\ \A r \in Attempts : attempt[r] = Idle
  BY <1>1 DEF RateInit
<1>3. Admissible = {}
  BY <1>1, <1>2 DEF Admissible
<1>4. admitted + Cardinality(Admissible) <= Granted + Cardinality(Attempts)
  BY <1>3, AdmissibleFinite, FS_EmptySet, RateLimitAssumption DEF RateInit, Granted
<1> QED  BY <1>1, <1>2, <1>4 DEF RateInit, RateInv, RateTypeOK

LEMMA RateNextInv == RateInv /\ [RateNext]_rateVars => RateInv'
<1> SUFFICES ASSUME RateInv, [RateNext]_rateVars PROVE RateInv'
  OBVIOUS
<1>0. /\ count \in Nat /\ admitted \in Nat /\ MAX \in Nat
      /\ expires \in BOOLEAN /\ orphaned \in BOOLEAN
      /\ attempt \in [ Attempts -> [ phase : { "idle", "counted", "timed" }, count : Nat ] ]
      /\ \A r \in Attempts : attempt[r].count \in Nat
      /\ Granted \in Nat /\ Granted <= MAX
      /\ Cardinality(Admissible) \in Nat /\ Cardinality(Attempts) \in Nat
      /\ admitted + Cardinality(Admissible) <= Granted + Cardinality(Attempts)
      /\ Idle \in [ phase : { "idle", "counted", "timed" }, count : Nat ]
      /\ Idle.phase = "idle" /\ Idle.count = 0
  BY RateLimitAssumption, AdmissibleFinite DEF RateInv, RateTypeOK, Granted, Idle
<1>1. ASSUME NEW r \in Attempts, Incr(r) PROVE RateInv'
  <2>. PICK n : n = count + 1
    OBVIOUS
  <2>. PICK q : q = [ phase |-> "counted", count |-> n ]
    OBVIOUS
  <2>1. /\ n \in Nat /\ n > 0 /\ q \in [ phase : { "idle", "counted", "timed" }, count : Nat ]
        /\ q.count = n /\ q.phase = "counted"
    BY <1>0
  <2>2. /\ attempt' = [ attempt EXCEPT ![r] = q ] /\ count' = n
        /\ UNCHANGED <<expires, admitted, orphaned>> /\ attempt[r] = Idle
    BY <1>1 DEF Incr
  <2>3. r \notin Admissible
    BY <1>0, <2>2 DEF Admissible
  <2>4. /\ Cardinality(Admissible') \in Nat
        /\ Cardinality(Admissible') <=
             IF n <= MAX THEN Cardinality(Admissible) + 1 ELSE Cardinality(Admissible)
    <3>1. q.phase = "idle" <=> q.count = 0
      BY <2>1
    <3>2. /\ Cardinality(Admissible') \in Nat
          /\ Cardinality(Admissible') <= Cardinality(Admissible) + 1
          /\ ~(q.count > 0 /\ q.count <= MAX) => Cardinality(Admissible') <= Cardinality(Admissible)
      BY <2>1, <2>2, <3>1, AttemptSet
    <3> QED  BY <1>0, <2>1, <3>2
  <2>5. Granted' = IF n <= MAX THEN Granted + 1 ELSE MAX
    BY <1>0, <2>2 DEF Granted
  <2>6. admitted + Cardinality(Admissible') <= Granted' + Cardinality(Attempts)
    BY <1>0, <2>1, <2>4, <2>5
  <2> QED  BY <1>0, <2>1, <2>2, <2>6, AttemptSet DEF RateInv, RateTypeOK
<1>2. ASSUME NEW r \in Attempts, Pexpire(r) PROVE RateInv'
  <2>. PICK q : q = [ attempt[r] EXCEPT !.phase = "timed" ]
    OBVIOUS
  <2>1. /\ q \in [ phase : { "idle", "counted", "timed" }, count : Nat ]
        /\ q.count = attempt[r].count /\ q.phase = "timed" /\ q.count = 1
        /\ attempt' = [ attempt EXCEPT ![r] = q ] /\ expires' \in BOOLEAN
        /\ UNCHANGED <<count, admitted, orphaned>>
    BY <1>0, <1>2 DEF Pexpire
  <2>2. Admissible' = Admissible /\ Granted' = Granted
    <3>1. \A s \in Attempts : attempt'[s].count = attempt[s].count
      BY <1>0, <2>1
    <3> QED  BY <2>1, <3>1 DEF Admissible, Granted
  <2> QED  BY <1>0, <2>1, <2>2, AttemptSet DEF RateInv, RateTypeOK
<1>3. ASSUME NEW r \in Attempts, Decide(r) PROVE RateInv'
  <2>0. /\ Idle \in [ phase : { "idle", "counted", "timed" }, count : Nat ]
        /\ Idle.phase = "idle" <=> Idle.count = 0
        /\ ~(Idle.count > 0 /\ Idle.count <= MAX)
    BY <1>0
  <2>1. /\ attempt' = [ attempt EXCEPT ![r] = Idle ]
        /\ admitted' = IF r \in Admissible THEN admitted + 1 ELSE admitted
        /\ UNCHANGED <<count, expires, orphaned>>
    BY <1>0, <1>3 DEF Decide, Admissible, RateInv
  <2>2. Granted' = Granted
    BY <2>1 DEF Granted
  <2>3. /\ Cardinality(Admissible') \in Nat
        /\ Cardinality(Admissible') <= Cardinality(Admissible)
        /\ r \in Admissible => Cardinality(Admissible') + 1 = Cardinality(Admissible)
    BY <2>0, <2>1, AttemptSet
  <2>4. admitted' \in Nat /\ admitted' + Cardinality(Admissible') <= Granted + Cardinality(Attempts)
    BY <1>0, <2>1, <2>3
  <2> QED  BY <1>0, <2>1, <2>2, <2>4, AttemptSet DEF RateInv, RateTypeOK
<1>4. ASSUME NEW r \in Attempts, Crash(r) PROVE RateInv'
  <2>0. /\ Idle \in [ phase : { "idle", "counted", "timed" }, count : Nat ]
        /\ Idle.phase = "idle" <=> Idle.count = 0
        /\ ~(Idle.count > 0 /\ Idle.count <= MAX)
    BY <1>0
  <2>1. /\ attempt' = [ attempt EXCEPT ![r] = Idle ] /\ orphaned' \in BOOLEAN
        /\ UNCHANGED <<count, expires, admitted>>
    BY <1>0, <1>4 DEF Crash
  <2>2. Granted' = Granted
    BY <2>1 DEF Granted
  <2>3. Cardinality(Admissible') \in Nat /\ Cardinality(Admissible') <= Cardinality(Admissible)
    BY <2>0, <2>1, AttemptSet
  <2>4. admitted + Cardinality(Admissible') <= Granted + Cardinality(Attempts)
    BY <1>0, <2>3
  <2> QED  BY <1>0, <2>1, <2>2, <2>4, AttemptSet DEF RateInv, RateTypeOK
<1>5. CASE ExpireKey
  <2>1. /\ count' = 0 /\ expires' = FALSE /\ admitted' = 0 /\ orphaned' = FALSE
        /\ attempt' = attempt
    BY <1>5 DEF ExpireKey
  <2>2. Admissible' = Admissible /\ Granted' = 0
    BY <1>0, <2>1 DEF Admissible, Granted
  <2>3. admitted' + Cardinality(Admissible') <= Granted' + Cardinality(Attempts)
    BY <1>0, <2>1, <2>2, AdmissibleFinite
  <2> QED  BY <1>0, <2>1, <2>3 DEF RateInv, RateTypeOK
<1>6. CASE UNCHANGED rateVars
  BY <1>6 DEF rateVars, RateInv, RateTypeOK, Admissible, Granted
<1> QED  BY <1>1, <1>2, <1>3, <1>4, <1>5, <1>6 DEF RateNext, Proceed

\* A window lets through no more attempts than the limit and those that were under way
\* when it began, for any limit and any number of attempts at once, whoever dies in between
\* (AuthService.consumeRateLimit).
THEOREM LimitKept == RateSpec => []AttemptsBounded
<1>1. RateInv => AttemptsBounded
  <2> SUFFICES ASSUME RateInv PROVE AttemptsBounded
    OBVIOUS
  <2>1. admitted \in Nat /\ Granted \in Nat /\ Granted <= MAX /\ MAX \in Nat
    BY RateLimitAssumption DEF RateInv, RateTypeOK, Granted
  <2> QED  BY <2>1, AdmissibleFinite DEF RateInv, AttemptsBounded
<1> QED  BY <1>1, RateInitInv, RateNextInv, PTL DEF RateSpec
=============================================================================
