----------------------- MODULE BloggerConnectionsProofs -----------------------
(***************************************************************************)
(* What holds of BloggerConnections for every set of websites, rows, OAuth *)
(* states, blogs and requests.  Everything rests on what a late write can  *)
(* do to the row it has loaded: change its status, its credentials or its  *)
(* blog, but never take its revocation back, nor move it elsewhere.        *)
(***************************************************************************)
EXTENDS BloggerConnections, TLAPS

-----------------------------------------------------------------------------
(* The inductive invariant *)

InUseStatuses == { "CONNECTED", "DEGRADED", "EXPIRED" }

Uses == { "sites", "select", "refresh", "test", "disconnect" }

Created(c) == connection[c].status # "NONE"

\* A row comes from a consumed state; as long as it is not revoked it is in use, with
\* credentials.
RowSound ==
  \A c \in Connections :
    /\ ~Created(c) => connection[c].state = NoState /\ ~connection[c].revoked
    /\ Created(c) => oauth[connection[c].state].status = "consumed"
    /\ Created(c) /\ ~connection[c].revoked =>
         connection[c].credentials /\ connection[c].status \in InUseStatuses

StateSound == \A s \in States : oauth[s].status # "none" => oauth[s].website \in Websites

RequestChecked(q) ==
  /\ q.op \in Uses \/ (q.op = "start" /\ q.phase = "loaded") =>
       q.connection \in Connections /\ Created(q.connection)
  /\ q.op = "start" => q.website \in Websites
  /\ q.op = "callback" => q.state \in States /\ oauth[q.state].status # "none"
  /\ q.op = "callback" /\ q.phase = "consumed" =>
       /\ oauth[q.state].status = "consumed"
       /\ \A c \in Connections : connection[c].state # q.state
  /\ q.op = "select" /\ q.phase \in { "found", "checked" } => q.site \in Sites

RequestSound == \A r \in Requests : RequestChecked(request[r])

\* A state is consumed by one callback.
ConsumedByOne ==
  \A r, s \in Requests :
    At(r, "callback", "consumed") /\ At(s, "callback", "consumed")
      /\ request[r].state = request[s].state => r = s

\* Selections that do not overlap keep what they have checked.
SelectionSound ==
  ~overlapped =>
    \A r \in Requests : request[r].op = "select" =>
      /\ \A s \in Requests : request[s].op = "select" => s = r
      /\ request[r].phase = "checked" =>
           \A c \in Connections \ { request[r].connection } :
             InUse(c) => connection[c].site # request[r].site

Safe == OneConnectionInUse /\ StateUsedOnce /\ SiteAttachedOnce

IInv ==
  /\ TypeOK /\ RowSound /\ StateSound
  /\ RequestSound /\ ConsumedByOne /\ SelectionSound
  /\ Safe

-----------------------------------------------------------------------------
(* Requests *)

LEMMA IdleChecked == NoRequest \in Request /\ RequestChecked(NoRequest)
BY DEF NoRequest, Request, RequestChecked, Uses

\* The conjuncts about requests, after a step that changes one request: the new request
\* has to be sound, and what the others have checked must still hold.
LEMMA RequestStep ==
  ASSUME IInv, NEW r \in Requests, NEW q \in Request,
         request' = [ request EXCEPT ![r] = q ],
         RequestChecked(q)',
         \A p \in Request :
           RequestChecked(p) /\ (\E s \in Requests \ {r} : request[s] = p) => RequestChecked(p)',
         q.op = "callback" /\ q.phase = "consumed" =>
           \A s \in Requests \ {r} :
             At(s, "callback", "consumed") => request[s].state # q.state
  PROVE  /\ request' \in [ Requests -> Request ]
         /\ RequestSound'
         /\ ConsumedByOne'
<1>1. request \in [ Requests -> Request ]
  BY DEF IInv, TypeOK
<1>2. request'[r] = q /\ \A s \in Requests \ {r} : request'[s] = request[s]
  BY <1>1
<1>3. request' \in [ Requests -> Request ]
  BY <1>1
<1>4. RequestSound'
  <2>1. \A s \in Requests \ {r} : request[s] \in Request /\ RequestChecked(request[s])
    BY <1>1 DEF IInv, RequestSound
  <2>2. QED
    BY <1>2, <2>1 DEF RequestSound
<1>5. ConsumedByOne'
  BY <1>2 DEF IInv, ConsumedByOne, At
<1>6. QED
  BY <1>3, <1>4, <1>5

\* What the request that finishes leaves behind.
LEMMA FinishStep ==
  ASSUME IInv, NEW r \in Requests, Finish(r),
         \A p \in Request :
           RequestChecked(p) /\ (\E s \in Requests \ {r} : request[s] = p) => RequestChecked(p)'
  PROVE  /\ request' \in [ Requests -> Request ]
         /\ request'[r] = NoRequest
         /\ \A s \in Requests \ {r} : request'[s] = request[s]
         /\ RequestSound'
         /\ ConsumedByOne'
<1>1. NoRequest \in Request /\ NoRequest.op = "idle"
  BY IdleChecked DEF NoRequest
<1>2. RequestChecked(NoRequest)'
  BY DEF NoRequest, RequestChecked, Uses
<1>3. request' = [ request EXCEPT ![r] = NoRequest ]
  BY DEF Finish, Set
<1>4. request'[r] = NoRequest /\ \A s \in Requests \ {r} : request'[s] = request[s]
  BY <1>3 DEF IInv, TypeOK
<1>5. QED
  BY <1>1, <1>2, <1>3, <1>4, RequestStep

-----------------------------------------------------------------------------
(* Steps that leave the rows and the states alone *)

LEMMA RowsKept ==
  ASSUME IInv, UNCHANGED <<connection, oauth>>, overlapped => overlapped'
  PROVE  /\ RowSound' /\ StateSound' /\ Safe'
         /\ \A p \in Request : RequestChecked(p) => RequestChecked(p)'
<1>1. RowSound' /\ StateSound'
  BY DEF IInv, RowSound, StateSound, Created
<1>2. Safe'
  BY DEF IInv, Safe, OneConnectionInUse, StateUsedOnce, SiteAttachedOnce, Active, InUse
<1>3. \A p \in Request : RequestChecked(p) => RequestChecked(p)'
  BY DEF RequestChecked, Created
<1>4. QED
  BY <1>1, <1>2, <1>3

\* A request that is not a selection reads, or goes on.
LEMMA ReadStep ==
  ASSUME IInv, NEW r \in Requests, NEW q \in Request,
         UNCHANGED <<connection, oauth, overlapped>>,
         request' = [ request EXCEPT ![r] = q ],
         RequestChecked(q), q.op # "select", ~(q.op = "callback" /\ q.phase = "consumed")
  PROVE  IInv'
<1>1. /\ RowSound' /\ StateSound' /\ Safe'
      /\ \A p \in Request : RequestChecked(p) => RequestChecked(p)'
  BY RowsKept
<1>2. request' \in [ Requests -> Request ] /\ RequestSound' /\ ConsumedByOne'
  BY <1>1, RequestStep
<1>3. request'[r] = q /\ \A s \in Requests \ {r} : request'[s] = request[s]
  BY DEF IInv, TypeOK
<1>4. SelectionSound'
  <2>1. \A s \in Requests : request'[s].op = "select" => request'[s] = request[s] /\ s # r
    BY <1>3
  <2>2. \A c \in Connections : InUse(c)' = InUse(c)
    BY DEF InUse
  <2>3. QED
    BY <2>1, <2>2 DEF IInv, SelectionSound
<1>5. TypeOK'
  BY <1>2 DEF IInv, TypeOK
<1>6. QED
  BY <1>1, <1>2, <1>4, <1>5 DEF IInv

\* A selection goes on.
LEMMA SelectionAdvance ==
  ASSUME IInv, NEW r \in Requests, NEW q \in Request,
         UNCHANGED <<connection, oauth, overlapped>>,
         request' = [ request EXCEPT ![r] = q ],
         request[r].op = "select", q.op = "select", RequestChecked(q),
         q.phase = "checked" =>
           \A c \in Connections \ { q.connection } : InUse(c) => connection[c].site # q.site
  PROVE  IInv'
<1>1. /\ RowSound' /\ StateSound' /\ Safe'
      /\ \A p \in Request : RequestChecked(p) => RequestChecked(p)'
  BY RowsKept
<1>2. request' \in [ Requests -> Request ] /\ RequestSound' /\ ConsumedByOne'
  BY <1>1, RequestStep
<1>3. SelectionSound'
  <2>1. request'[r] = q /\ \A s \in Requests \ {r} : request'[s] = request[s]
    BY DEF IInv, TypeOK
  <2>2. \A c \in Connections : InUse(c)' = InUse(c)
    BY DEF InUse
  <2>3. QED
    BY <2>1, <2>2 DEF IInv, SelectionSound
<1>4. QED
  BY <1>1, <1>2, <1>3 DEF IInv, TypeOK

LEMMA SelectionStep ==
  ASSUME IInv, NEW r \in Requests, getSite(r) \/ FindDuplicate(r)
  PROVE  IInv'
<1>1. /\ request[r] \in Request /\ RequestChecked(request[r])
      /\ request[r].op = "select"
      /\ UNCHANGED <<connection, oauth, overlapped>>
  BY DEF IInv, TypeOK, RequestSound, getSite, FindDuplicate, At
<1>2. CASE getSite(r)
  <2>1. PICK s \in Sites :
          request' = [ request EXCEPT ![r] = [ request[r] EXCEPT !.phase = "found", !.site = s ] ]
    BY <1>2 DEF getSite, Set
  <2> DEFINE q == [ request[r] EXCEPT !.phase = "found", !.site = s ]
  <2>2. q \in Request /\ q.op = "select" /\ q.phase = "found" /\ RequestChecked(q)
    BY <1>1 DEF Request, RequestChecked, Uses
  <2>3. QED
    BY <1>1, <2>1, <2>2, SelectionAdvance
<1>3. CASE FindDuplicate(r)
  <2> DEFINE q == [ request[r] EXCEPT !.phase = "checked" ]
  <2>1. request' = [ request EXCEPT ![r] = q ] /\ request[r].phase = "found"
    BY <1>3 DEF FindDuplicate, Goto, Set, At
  <2>2. /\ q \in Request /\ q.op = "select"
        /\ q.connection = request[r].connection /\ q.site = request[r].site
    BY <1>1 DEF Request
  <2>3. RequestChecked(q)
    BY <1>1, <2>1, <2>2 DEF RequestChecked, Uses
  <2>4. \A c \in Connections \ { q.connection } : InUse(c) => connection[c].site # q.site
    BY <1>3, <2>2 DEF FindDuplicate
  <2>5. QED
    BY <1>1, <2>1, <2>2, <2>3, <2>4, SelectionAdvance
<1>4. QED
  BY <1>2, <1>3

LEMMA RequireStep ==
  ASSUME IInv, NEW r \in Requests, requireConnection(r)
  PROVE  IInv'
<1>1. PICK c \in Connections, op \in Uses :
        /\ \E w \in Websites : Active(c, w)
        /\ request' = [ request EXCEPT ![r] = [ NoRequest EXCEPT !.op = op, !.connection = c ] ]
        /\ overlapped' =
             (overlapped \/ (op = "select" /\ \E o \in Requests : request[o].op = "select"))
  BY DEF requireConnection, Set, Uses
<1> DEFINE q == [ NoRequest EXCEPT !.op = op, !.connection = c ]
<1>2. q \in Request /\ RequestChecked(q) /\ q.op = op /\ q.phase = "loaded" /\ op # "callback"
  BY <1>1 DEF NoRequest, Request, RequestChecked, Uses, Active, InUse, Created
<1> HIDE DEF q
<1>3. request' = [ request EXCEPT ![r] = q ] /\ UNCHANGED <<connection, oauth>>
  BY <1>1 DEF q, requireConnection
<1>4. /\ RowSound' /\ StateSound' /\ Safe'
      /\ \A p \in Request : RequestChecked(p) => RequestChecked(p)'
  BY <1>1, <1>3, RowsKept
<1>5. request' \in [ Requests -> Request ] /\ RequestSound' /\ ConsumedByOne'
  BY <1>2, <1>3, <1>4, RequestStep
<1>6. SelectionSound'
  <2>1. request'[r] = q /\ \A s \in Requests \ {r} : request'[s] = request[s]
    BY <1>3 DEF IInv, TypeOK
  <2>2. request[r].op = "idle"
    BY DEF requireConnection, NoRequest
  <2>3. \A d \in Connections : InUse(d)' = InUse(d)
    BY <1>3 DEF InUse
  <2>4. ~overlapped' =>
          /\ ~overlapped
          /\ op = "select" => \A o \in Requests : request[o].op # "select"
    BY <1>1
  <2>5. q.op = op /\ q.phase = "loaded"
    BY <1>2
  <2>6. connection' = connection
    BY <1>3
  <2>7. QED
    BY <2>1, <2>2, <2>3, <2>4, <2>5, <2>6 DEF IInv, SelectionSound
<1>7. overlapped' \in BOOLEAN
  BY <1>1 DEF IInv, TypeOK
<1>8. QED
  BY <1>3, <1>4, <1>5, <1>6, <1>7 DEF IInv, TypeOK

-----------------------------------------------------------------------------
(* Late writes *)

\* What a handler may do to the row c it has loaded: it leaves the row where it is, does
\* not take back a revocation, and what it does not revoke it leaves in use.
LateWrite(c, row) ==
  /\ connection' = [ connection EXCEPT ![c] = row ]
  /\ row \in Connection
  /\ row.website = connection[c].website
  /\ row.state = connection[c].state
  /\ row.status # "NONE"
  /\ ~row.revoked => ~connection[c].revoked /\ row.credentials /\ row.status \in InUseStatuses

LEMMA LateWriteStep ==
  ASSUME IInv, NEW c \in Connections, Created(c), NEW row, LateWrite(c, row), UNCHANGED oauth
  PROVE  /\ connection' \in [ Connections -> Connection ]
         /\ \A d \in Connections :
              /\ d # c => connection'[d] = connection[d]
              /\ Created(d)' = Created(d)
              /\ connection'[d].website = connection[d].website
              /\ connection'[d].state = connection[d].state
              /\ InUse(d)' => InUse(d)
         /\ RowSound' /\ StateSound' /\ OneConnectionInUse' /\ StateUsedOnce'
         /\ \A p \in Request : RequestChecked(p) => RequestChecked(p)'
<1>1. connection \in [ Connections -> Connection ] /\ RowSound
  BY DEF IInv, TypeOK
<1>2. connection'[c] = row /\ \A d \in Connections : d # c => connection'[d] = connection[d]
  BY <1>1 DEF LateWrite
<1>3. connection' \in [ Connections -> Connection ]
  BY <1>1 DEF LateWrite
<1>4. \A d \in Connections :
        /\ Created(d)' = Created(d)
        /\ connection'[d].website = connection[d].website
        /\ connection'[d].state = connection[d].state
        /\ InUse(d)' => InUse(d)
  BY <1>1, <1>2 DEF LateWrite, Created, RowSound, InUse, InUseStatuses
<1>5. RowSound'
  BY <1>1, <1>2, <1>4 DEF LateWrite, RowSound, Created
<1>6. OneConnectionInUse' /\ StateUsedOnce' /\ StateSound'
  BY <1>4 DEF IInv, Safe, OneConnectionInUse, StateUsedOnce, StateSound, Active, Created
<1>7. \A p \in Request : RequestChecked(p) => RequestChecked(p)'
  BY <1>4 DEF RequestChecked
<1>8. QED
  BY <1>2, <1>3, <1>4, <1>5, <1>6, <1>7

\* A late write that leaves the blog alone, and the request that makes it.
LEMMA LateWriteSafe ==
  ASSUME IInv, NEW r \in Requests, NEW q \in Request,
         request' = [ request EXCEPT ![r] = q ],
         RequestChecked(q), q.op \notin { "select", "callback" },
         NEW c \in Connections, Created(c), NEW row, LateWrite(c, row),
         row.site = connection[c].site, UNCHANGED <<oauth, overlapped>>
  PROVE  IInv'
<1>1. /\ connection' \in [ Connections -> Connection ]
      /\ \A d \in Connections :
           /\ d # c => connection'[d] = connection[d]
           /\ Created(d)' = Created(d)
           /\ connection'[d].website = connection[d].website
           /\ connection'[d].state = connection[d].state
           /\ InUse(d)' => InUse(d)
      /\ RowSound' /\ StateSound' /\ OneConnectionInUse' /\ StateUsedOnce'
      /\ \A p \in Request : RequestChecked(p) => RequestChecked(p)'
  BY LateWriteStep
<1>2. \A d \in Connections : connection'[d].site = connection[d].site
  BY <1>1 DEF IInv, TypeOK, LateWrite
<1>3. request' \in [ Requests -> Request ] /\ RequestSound' /\ ConsumedByOne'
  BY <1>1, RequestStep
<1>4. request'[r] = q /\ \A s \in Requests \ {r} : request'[s] = request[s]
  BY DEF IInv, TypeOK
<1>5. SelectionSound'
  BY <1>1, <1>2, <1>4 DEF IInv, SelectionSound
<1>6. SiteAttachedOnce'
  BY <1>1, <1>2 DEF IInv, Safe, SiteAttachedOnce
<1>7. TypeOK'
  BY <1>1, <1>3 DEF IInv, TypeOK, Created
<1>8. QED
  BY <1>1, <1>3, <1>5, <1>6, <1>7 DEF IInv, Safe

LEMMA WriteStep ==
  ASSUME IInv, NEW r \in Requests,
         \/ ReplaceExisting(r) \/ disconnect(r) \/ testConnection(r) \/ refresh(r)
         \/ markError(r)
  PROVE  IInv'
<1> DEFINE c == request[r].connection
<1>1. request[r] \in Request /\ RequestChecked(request[r])
  BY DEF IInv, TypeOK, RequestSound
<1>2. c \in Connections /\ Created(c)
  BY <1>1 DEF RequestChecked, Uses, ReplaceExisting, disconnect, testConnection, refresh,
     markError, At
<1>3. connection[c] \in Connection
      /\ (~connection[c].revoked =>
            connection[c].credentials /\ connection[c].status \in InUseStatuses)
  BY <1>2 DEF IInv, TypeOK, RowSound
<1>4. NoRequest \in Request /\ RequestChecked(NoRequest)
      /\ NoRequest.op \notin { "select", "callback" }
  BY IdleChecked DEF NoRequest
<1>5. ASSUME NEW row, LateWrite(c, row), row.site = connection[c].site, Finish(r),
             UNCHANGED <<oauth, overlapped>>
      PROVE  IInv'
  BY <1>2, <1>4, <1>5, LateWriteSafe DEF Finish, Set
<1>6. CASE ReplaceExisting(r)
  <2> DEFINE q == [ request[r] EXCEPT !.phase = "cleared" ]
  <2>1. request' = [ request EXCEPT ![r] = q ] /\ request[r].op = "start"
        /\ UNCHANGED <<oauth, overlapped>>
    BY <1>6 DEF ReplaceExisting, Goto, Set, At
  <2>2. q \in Request /\ q.op \notin { "select", "callback" } /\ RequestChecked(q)
    BY <1>1, <2>1 DEF Request, RequestChecked, Uses
  <2>3. LateWrite(c, Disconnected(c)) /\ Disconnected(c).site = connection[c].site
    BY <1>3, <1>6 DEF ReplaceExisting, Write, LateWrite, Disconnected, Connection
  <2>4. QED
    BY <1>2, <2>1, <2>2, <2>3, LateWriteSafe
<1>7. CASE disconnect(r)
  <2>1. LateWrite(c, Disconnected(c)) /\ Disconnected(c).site = connection[c].site
    BY <1>3, <1>7 DEF disconnect, Write, LateWrite, Disconnected, Connection
  <2>2. QED
    BY <1>5, <1>7, <2>1 DEF disconnect
<1>8. CASE testConnection(r)
  <2> DEFINE row == [ connection[c] EXCEPT !.status = "CONNECTED" ]
  <2>1. LateWrite(c, row) /\ row.site = connection[c].site
    BY <1>3, <1>8 DEF testConnection, Write, LateWrite, Connection, InUseStatuses
  <2>2. QED
    BY <1>5, <1>8, <2>1 DEF testConnection
<1>9. CASE refresh(r)
  <2> DEFINE row == [ connection[c] EXCEPT !.credentials = TRUE, !.status = "CONNECTED" ]
  <2>1. LateWrite(c, row) /\ row.site = connection[c].site
    BY <1>3, <1>9 DEF refresh, Write, LateWrite, Connection, InUseStatuses
  <2>2. QED
    BY <1>5, <1>9, <2>1 DEF refresh
<1>10. CASE markError(r)
  <2>1. PICK status \in { "DEGRADED", "EXPIRED" } :
          Write(c, [ connection[c] EXCEPT !.status = status ])
    BY <1>10 DEF markError
  <2> DEFINE row == [ connection[c] EXCEPT !.status = status ]
  <2>2. LateWrite(c, row) /\ row.site = connection[c].site
    BY <1>3, <2>1 DEF Write, LateWrite, Connection, InUseStatuses
  <2>3. QED
    BY <1>5, <1>10, <2>2 DEF markError
<1>11. QED
  BY <1>6, <1>7, <1>8, <1>9, <1>10

\* The one write that changes the blog: by the only selection, if none ever overlapped.
LEMMA SelectStep ==
  ASSUME IInv, NEW r \in Requests, selectSite(r)
  PROVE  IInv'
<1> DEFINE c == request[r].connection
           row == [ connection[c] EXCEPT !.site = request[r].site, !.status = "CONNECTED" ]
<1>1. /\ request[r] \in Request /\ RequestChecked(request[r])
      /\ request[r].op = "select" /\ request[r].phase = "checked"
      /\ Finish(r) /\ UNCHANGED <<oauth, overlapped>>
  BY DEF IInv, TypeOK, RequestSound, selectSite, At
<1>2. c \in Connections /\ Created(c) /\ request[r].site \in Sites
  BY <1>1 DEF RequestChecked, Uses
<1>3. connection[c] \in Connection
      /\ (~connection[c].revoked => connection[c].credentials)
  BY <1>2 DEF IInv, TypeOK, RowSound
<1>4. LateWrite(c, row) /\ row.site = request[r].site
  BY <1>2, <1>3 DEF selectSite, Write, LateWrite, Connection, InUseStatuses
<1>5. /\ connection' \in [ Connections -> Connection ]
      /\ \A d \in Connections :
           /\ d # c => connection'[d] = connection[d]
           /\ Created(d)' = Created(d)
           /\ connection'[d].website = connection[d].website
           /\ connection'[d].state = connection[d].state
           /\ InUse(d)' => InUse(d)
      /\ RowSound' /\ StateSound' /\ OneConnectionInUse' /\ StateUsedOnce'
      /\ \A p \in Request : RequestChecked(p) => RequestChecked(p)'
  BY <1>1, <1>2, <1>4, LateWriteStep
<1>6. connection'[c].site = request[r].site
  BY <1>2, <1>4 DEF LateWrite, IInv, TypeOK
<1> HIDE DEF c, row
<1>7. /\ request' \in [ Requests -> Request ] /\ request'[r] = NoRequest
      /\ \A s \in Requests \ {r} : request'[s] = request[s]
      /\ RequestSound' /\ ConsumedByOne'
  BY <1>1, <1>5, FinishStep
<1>8. ~overlapped => \A s \in Requests \ {r} : request[s].op # "select"
  BY <1>1 DEF IInv, SelectionSound
<1>9. SelectionSound'
  BY <1>1, <1>7, <1>8 DEF SelectionSound, NoRequest
<1>10. SiteAttachedOnce'
  <2>1. ~overlapped => \A d \in Connections \ {c} : InUse(d) => connection[d].site # request[r].site
    BY <1>1 DEF IInv, SelectionSound, c
  <2>2. QED
    BY <1>1, <1>2, <1>5, <1>6, <2>1 DEF IInv, Safe, SiteAttachedOnce
<1>11. TypeOK'
  BY <1>1, <1>5, <1>7 DEF IInv, TypeOK, Created
<1>12. QED
  BY <1>5, <1>7, <1>9, <1>10, <1>11 DEF IInv, Safe

-----------------------------------------------------------------------------
(* States *)

\* A state moves on, to be issued, consumed or expired; no row was made with it.
LEMMA StateStep ==
  ASSUME IInv, NEW s \in States, NEW o \in OAuthState,
         oauth' = [ oauth EXCEPT ![s] = o ],
         o.status # "none", o.website \in Websites, oauth[s].status # "consumed",
         UNCHANGED <<connection, overlapped>>
  PROVE  /\ oauth' \in [ States -> OAuthState ] /\ oauth'[s] = o
         /\ RowSound' /\ StateSound' /\ Safe'
         /\ \A c \in Connections : connection[c].state # s
         /\ \A p \in Request : RequestChecked(p) => RequestChecked(p)'
<1>1. oauth \in [ States -> OAuthState ] /\ RowSound /\ StateSound
  BY DEF IInv, TypeOK
<1>2. oauth' \in [ States -> OAuthState ] /\ oauth'[s] = o
      /\ \A t \in States \ {s} : oauth'[t] = oauth[t]
  BY <1>1
<1>3. \A c \in Connections : Created(c) => connection[c].state \in States
  BY DEF IInv, TypeOK, Created
<1>4. \A c \in Connections : connection[c].state # s
  BY <1>1, ConnectionsAssumption DEF RowSound
<1>5. RowSound'
  BY <1>1, <1>2, <1>3, <1>4 DEF RowSound, Created
<1>6. StateSound'
  BY <1>1, <1>2 DEF StateSound
<1>7. Safe'
  BY DEF IInv, Safe, OneConnectionInUse, StateUsedOnce, SiteAttachedOnce, Active, InUse
<1>8. \A p \in Request : RequestChecked(p) => RequestChecked(p)'
  BY <1>2 DEF RequestChecked, Created
<1>9. QED
  BY <1>2, <1>4, <1>5, <1>6, <1>7, <1>8

LEMMA IssueStep ==
  ASSUME IInv, NEW r \in Requests, IssueState(r)
  PROVE  IInv'
<1>1. request[r] \in Request /\ RequestChecked(request[r]) /\ request[r].op = "start"
  BY DEF IInv, TypeOK, RequestSound, IssueState, At
<1>2. request[r].website \in Websites
  BY <1>1 DEF RequestChecked
<1> DEFINE o == [ status |-> "issued", website |-> request[r].website ]
<1>3. PICK s \in States : oauth[s].status = "none" /\ oauth' = [ oauth EXCEPT ![s] = o ]
  BY DEF IssueState
<1>4. o \in OAuthState /\ o.status # "none" /\ o.website \in Websites
  BY <1>2 DEF OAuthState
<1> HIDE DEF o
<1>5. Finish(r) /\ UNCHANGED <<connection, overlapped>>
  BY DEF IssueState
<1>6. /\ oauth' \in [ States -> OAuthState ] /\ RowSound' /\ StateSound' /\ Safe'
      /\ \A p \in Request : RequestChecked(p) => RequestChecked(p)'
  BY <1>3, <1>4, <1>5, StateStep
<1>7. /\ request' \in [ Requests -> Request ] /\ request'[r] = NoRequest
      /\ \A q \in Requests \ {r} : request'[q] = request[q]
      /\ RequestSound' /\ ConsumedByOne'
  BY <1>5, <1>6, FinishStep
<1>8. SelectionSound'
  BY <1>5, <1>7 DEF IInv, SelectionSound, InUse, NoRequest
<1>9. QED
  BY <1>5, <1>6, <1>7, <1>8 DEF IInv, TypeOK

LEMMA ExpireStep ==
  ASSUME IInv, NEW s \in States, Expire(s)
  PROVE  IInv'
<1> DEFINE o == [ oauth[s] EXCEPT !.status = "expired" ]
<1>1. oauth[s] \in OAuthState /\ oauth[s].status = "issued" /\ oauth[s].website \in Websites
  BY DEF IInv, TypeOK, StateSound, Expire
<1>2. o \in OAuthState /\ o.status # "none" /\ o.website \in Websites
      /\ oauth' = [ oauth EXCEPT ![s] = o ]
  BY <1>1 DEF Expire, OAuthState
<1>3. UNCHANGED <<connection, overlapped, request>>
  BY DEF Expire
<1> HIDE DEF o
<1>4. /\ oauth' \in [ States -> OAuthState ] /\ RowSound' /\ StateSound' /\ Safe'
      /\ \A p \in Request : RequestChecked(p) => RequestChecked(p)'
  BY <1>1, <1>2, <1>3, StateStep
<1>5. RequestSound' /\ ConsumedByOne' /\ SelectionSound'
  BY <1>3, <1>4 DEF IInv, TypeOK, RequestSound, ConsumedByOne, SelectionSound, At, InUse
<1>6. QED
  BY <1>3, <1>4, <1>5 DEF IInv, TypeOK

LEMMA ConsumeStep ==
  ASSUME IInv, NEW r \in Requests, ConsumeState(r)
  PROVE  IInv'
<1> DEFINE s == request[r].state
           o == [ oauth[s] EXCEPT !.status = "consumed" ]
<1>1. /\ request[r] \in Request /\ RequestChecked(request[r])
      /\ request[r].op = "callback" /\ UNCHANGED <<connection, overlapped>>
  BY DEF IInv, TypeOK, RequestSound, ConsumeState, At
<1>2. s \in States
  BY <1>1 DEF RequestChecked
<1>3. CASE oauth[s].status = "issued"
  <2>1. PICK q \in Request : q = [ request[r] EXCEPT !.phase = "consumed" ]
    BY <1>1 DEF Request
  <2>2. /\ oauth' = [ oauth EXCEPT ![s] = o ] /\ request' = [ request EXCEPT ![r] = q ]
        /\ o \in OAuthState /\ o.status = "consumed" /\ o.website \in Websites
        /\ q.op = "callback" /\ q.phase = "consumed" /\ q.state = s
    <3>1. oauth' = [ oauth EXCEPT ![s] = o ] /\ request' = [ request EXCEPT ![r] = q ]
      BY <1>3, <2>1 DEF ConsumeState, Goto, Set
    <3>2. o \in OAuthState /\ o.status = "consumed" /\ o.website \in Websites
      BY <1>2, <1>3 DEF IInv, TypeOK, StateSound, OAuthState
    <3>3. q.op = "callback" /\ q.phase = "consumed" /\ q.state = s
      BY <1>1, <2>1 DEF Request
    <3>4. QED
      BY <3>1, <3>2, <3>3
  <2> HIDE DEF o, s
  <2>3. /\ oauth' \in [ States -> OAuthState ] /\ oauth'[s] = o
        /\ RowSound' /\ StateSound' /\ Safe'
        /\ \A c \in Connections : connection[c].state # s
        /\ \A p \in Request : RequestChecked(p) => RequestChecked(p)'
    BY <1>1, <1>2, <1>3, <2>2, StateStep
  <2>4. oauth'[q.state].status = "consumed"
        /\ \A c \in Connections : connection'[c].state # q.state
    BY <1>1, <2>2, <2>3
  <2>5. RequestChecked(q)'
    BY <1>2, <2>2, <2>4 DEF RequestChecked, Uses
  <2>6. \A t \in Requests : At(t, "callback", "consumed") => request[t].state # s
    BY <1>3 DEF IInv, RequestSound, RequestChecked, At
  <2>7. request' \in [ Requests -> Request ] /\ RequestSound' /\ ConsumedByOne'
    BY <2>2, <2>3, <2>5, <2>6, RequestStep
  <2>8. request'[r] = q /\ \A t \in Requests \ {r} : request'[t] = request[t]
    BY <2>2 DEF IInv, TypeOK
  <2>9. SelectionSound'
    BY <1>1, <2>2, <2>8 DEF IInv, SelectionSound, InUse
  <2>10. QED
    BY <1>1, <2>3, <2>7, <2>9 DEF IInv, TypeOK
<1>4. CASE oauth[s].status # "issued"
  <2>1. Finish(r) /\ UNCHANGED <<connection, oauth, overlapped>>
    BY <1>4 DEF ConsumeState
  <2>2. request' = [ request EXCEPT ![r] = NoRequest ] /\ NoRequest \in Request
        /\ RequestChecked(NoRequest) /\ NoRequest.op = "idle"
    BY <2>1, IdleChecked DEF Finish, Set, NoRequest
  <2>3. QED
    BY <2>1, <2>2, ReadStep
<1>5. QED
  BY <1>3, <1>4

LEMMA CreateStep ==
  ASSUME IInv, NEW r \in Requests, CreateConnection(r)
  PROVE  IInv'
<1> DEFINE s == request[r].state
           w == oauth[s].website
           row == [ status |-> "CONNECTED", revoked |-> FALSE, credentials |-> TRUE,
                    website |-> w, site |-> NoSite, state |-> s ]
<1>1. /\ request[r] \in Request /\ RequestChecked(request[r])
      /\ At(r, "callback", "consumed") /\ request[r].op = "callback"
      /\ Finish(r) /\ UNCHANGED <<oauth, overlapped>>
      /\ \A c \in Connections : ~Active(c, w)
  BY DEF IInv, TypeOK, RequestSound, CreateConnection, At
<1>2. /\ s \in States /\ oauth[s].status = "consumed"
      /\ \A c \in Connections : connection[c].state # s
  BY <1>1 DEF RequestChecked, At
<1>3. w \in Websites
  BY <1>2 DEF IInv, StateSound
<1>4. PICK c \in Connections : ~Created(c) /\ connection' = [ connection EXCEPT ![c] = row ]
  BY DEF CreateConnection, Write, Created
<1>5. /\ row \in Connection /\ row.status = "CONNECTED" /\ row.credentials
      /\ ~row.revoked /\ row.website = w /\ row.state = s /\ row.site = NoSite
  BY <1>2, <1>3 DEF Connection
<1>6. /\ connection' \in [ Connections -> Connection ] /\ connection'[c] = row
      /\ \A d \in Connections \ {c} : connection'[d] = connection[d]
  BY <1>4, <1>5 DEF IInv, TypeOK
<1> HIDE DEF s, w, row
<1>7. RowSound' /\ StateSound'
  BY <1>1, <1>2, <1>5, <1>6 DEF IInv, RowSound, StateSound, Created, InUseStatuses
<1>8. OneConnectionInUse'
  BY <1>1, <1>5, <1>6 DEF IInv, Safe, OneConnectionInUse, Active, InUse
<1>9. StateUsedOnce'
  <2>1. \A d \in Connections : Created(d) => connection[d].state \in States
    BY DEF IInv, TypeOK, Created
  <2>2. connection[c].state = NoState /\ NoState \notin States
    BY <1>4, ConnectionsAssumption DEF IInv, RowSound
  <2>3. QED
    BY <1>2, <1>5, <1>6, <2>1, <2>2 DEF IInv, Safe, StateUsedOnce, Created
<1>10. SiteAttachedOnce'
  BY <1>1, <1>5, <1>6 DEF IInv, Safe, SiteAttachedOnce, InUse
\* No other callback has consumed the state of the new row.
<1>11. \A p \in Request :
         RequestChecked(p) /\ (\E q \in Requests \ {r} : request[q] = p) => RequestChecked(p)'
  <2>1. \A q \in Requests \ {r} : At(q, "callback", "consumed") => request[q].state # s
    BY <1>1 DEF IInv, ConsumedByOne, s
  <2>2. \A d \in Connections : Created(d) => Created(d)'
    BY <1>4, <1>6 DEF Created
  <2>3. QED
    BY <1>1, <1>5, <1>6, <2>1, <2>2 DEF RequestChecked, At
<1>12. /\ request' \in [ Requests -> Request ] /\ request'[r] = NoRequest
       /\ \A q \in Requests \ {r} : request'[q] = request[q]
       /\ RequestSound' /\ ConsumedByOne'
  BY <1>1, <1>11, FinishStep
<1>13. SelectionSound'
  <2>1. \A q \in Requests : request[q].op = "select" /\ request[q].phase = "checked" =>
          request[q].site # NoSite
    BY ConnectionsAssumption DEF IInv, RequestSound, RequestChecked
  <2>2. \A d \in Connections \ {c} : InUse(d)' = InUse(d)
    BY <1>6 DEF InUse
  <2>3. NoRequest.op # "select"
    BY DEF NoRequest
  <2>4. QED
    BY <1>1, <1>5, <1>6, <1>12, <2>1, <2>2, <2>3 DEF IInv, SelectionSound
<1>14. TypeOK'
  BY <1>1, <1>2, <1>3, <1>5, <1>6, <1>12 DEF IInv, TypeOK
<1>15. QED
  BY <1>7, <1>8, <1>9, <1>10, <1>12, <1>13, <1>14 DEF IInv, Safe

-----------------------------------------------------------------------------
(* Invariance *)

\* The steps that begin or end a request and change nothing else.
LEMMA OtherStep ==
  ASSUME IInv, NEW r \in Requests, BeginStart(r) \/ FindState(r) \/ End(r)
  PROVE  IInv'
<1> UNCHANGED <<connection, oauth, overlapped>>
  BY DEF BeginStart, FindState, End
<1>1. CASE BeginStart(r)
  <2>1. PICK w \in Websites :
          \/ request' = [ request EXCEPT ![r] =
                 [ NoRequest EXCEPT !.op = "start", !.phase = "cleared", !.website = w ] ]
          \/ \E c \in Connections :
               /\ Active(c, w)
               /\ request' = [ request EXCEPT ![r] =
                      [ NoRequest EXCEPT !.op = "start", !.website = w, !.connection = c ] ]
    BY <1>1 DEF BeginStart, Set
  <2>2. CASE request' = [ request EXCEPT ![r] =
                 [ NoRequest EXCEPT !.op = "start", !.phase = "cleared", !.website = w ] ]
    <3> DEFINE q == [ NoRequest EXCEPT !.op = "start", !.phase = "cleared", !.website = w ]
    <3>1. q \in Request /\ RequestChecked(q) /\ q.op = "start"
      BY DEF NoRequest, Request, RequestChecked, Uses
    <3>2. QED
      BY <2>2, <3>1, ReadStep
  <2>3. ASSUME NEW c \in Connections, Active(c, w),
               request' = [ request EXCEPT ![r] =
                 [ NoRequest EXCEPT !.op = "start", !.website = w, !.connection = c ] ]
        PROVE  IInv'
    <3> DEFINE q == [ NoRequest EXCEPT !.op = "start", !.website = w, !.connection = c ]
    <3>1. Created(c)
      BY <2>3 DEF Active, InUse, Created
    <3>2. q \in Request /\ RequestChecked(q) /\ q.op = "start"
      BY <3>1 DEF NoRequest, Request, RequestChecked, Uses
    <3>3. QED
      BY <2>3, <3>2, ReadStep
  <2>4. QED
    BY <2>1, <2>2, <2>3
<1>2. CASE FindState(r)
  <2>1. PICK s \in States :
          /\ oauth[s].status = "issued"
          /\ request' = [ request EXCEPT ![r] = [ NoRequest EXCEPT !.op = "callback", !.state = s ] ]
    BY <1>2 DEF FindState, Set
  <2> DEFINE q == [ NoRequest EXCEPT !.op = "callback", !.state = s ]
  <2>2. q \in Request /\ RequestChecked(q) /\ q.op = "callback" /\ q.phase = "loaded"
    BY <2>1 DEF NoRequest, Request, RequestChecked, Uses
  <2>3. QED
    BY <2>1, <2>2, ReadStep
<1>3. CASE End(r)
  <2>1. request' = [ request EXCEPT ![r] = NoRequest ]
    BY <1>3 DEF End, Finish, Set
  <2>2. NoRequest \in Request /\ RequestChecked(NoRequest) /\ NoRequest.op = "idle"
    BY IdleChecked DEF NoRequest
  <2>3. QED
    BY <2>1, <2>2, ReadStep
<1>4. QED
  BY <1>1, <1>2, <1>3

LEMMA IInvInit == Init => IInv
<1> SUFFICES ASSUME Init PROVE IInv
  OBVIOUS
<1>1. \A c \in Connections :
        /\ connection[c] \in Connection /\ connection[c].status = "NONE"
        /\ connection[c].state = NoState /\ ~connection[c].revoked
  BY DEF Init, Connection
<1>2. \A s \in States : oauth[s] \in OAuthState /\ oauth[s].status = "none"
  BY DEF Init, OAuthState
<1>3. \A r \in Requests : request[r] = NoRequest
  BY DEF Init
<1>4. NoRequest.op = "idle"
  BY DEF NoRequest
<1>5. TypeOK
  BY <1>1, <1>2, IdleChecked DEF Init, TypeOK
<1>6. RowSound /\ StateSound
  BY <1>1, <1>2 DEF RowSound, StateSound, Created
<1>7. RequestSound /\ ConsumedByOne /\ SelectionSound
  BY <1>3, <1>4, IdleChecked DEF RequestSound, ConsumedByOne, SelectionSound, At
<1>8. Safe
  BY <1>1 DEF Safe, OneConnectionInUse, StateUsedOnce, SiteAttachedOnce, Active, InUse
<1>9. QED
  BY <1>5, <1>6, <1>7, <1>8 DEF IInv

LEMMA IInvStep == IInv /\ [Next]_vars => IInv'
<1> SUFFICES ASSUME IInv, [Next]_vars PROVE IInv'
  OBVIOUS
<1>1. ASSUME NEW r \in Requests, Step(r) PROVE IInv'
  BY <1>1, OtherStep, WriteStep, IssueStep, ConsumeStep, CreateStep, RequireStep,
     SelectionStep, SelectStep DEF Step
<1>2. ASSUME NEW s \in States, Expire(s) PROVE IInv'
  BY <1>2, ExpireStep
<1>3. CASE UNCHANGED vars
  <2>1. RowSound' /\ StateSound' /\ Safe'
        /\ \A p \in Request : RequestChecked(p) => RequestChecked(p)'
    BY <1>3, RowsKept DEF vars
  <2>2. RequestSound' /\ ConsumedByOne' /\ SelectionSound'
    BY <1>3, <2>1 DEF vars, IInv, TypeOK, RequestSound, ConsumedByOne, SelectionSound, At, InUse
  <2>3. QED
    BY <1>3, <2>1, <2>2 DEF vars, IInv, TypeOK
<1>4. QED
  BY <1>1, <1>2, <1>3 DEF Next

LEMMA Invariance == Spec => []IInv
  BY IInvInit, IInvStep, PTL DEF Spec

-----------------------------------------------------------------------------
(* Theorems *)

\* Rows, states and requests keep their types, and every row its website and its state.
THEOREM TypeCorrect == Spec => []TypeOK
<1>1. IInv => TypeOK
  BY DEF IInv
<1>2. QED
  BY <1>1, Invariance, PTL

\* A website has at most one connection in use, whatever late requests write.
THEOREM ConnectionUnique == Spec => []OneConnectionInUse
<1>1. IInv => OneConnectionInUse
  BY DEF IInv, Safe
<1>2. QED
  BY <1>1, Invariance, PTL

\* A connection that can be found has its credentials: they are erased by the write that
\* revokes it, and nothing takes the revocation back.
THEOREM CredentialsThere == Spec => []InUseHasCredentials
<1>1. IInv => InUseHasCredentials
  BY DEF IInv, RowSound, InUseHasCredentials, InUse, Created
<1>2. QED
  BY <1>1, Invariance, PTL

\* An OAuth state makes at most one connection, for any number of callbacks.
THEOREM StatesOnce == Spec => []StateUsedOnce
<1>1. IInv => StateUsedOnce
  BY DEF IInv, Safe
<1>2. QED
  BY <1>1, Invariance, PTL

\* A blog is attached to one connection in use as long as selections did not overlap.
THEOREM SitesOnce == Spec => []SiteAttachedOnce
<1>1. IInv => SiteAttachedOnce
  BY DEF IInv, Safe
<1>2. QED
  BY <1>1, Invariance, PTL

\* A revoked connection that nobody has loaded is never loaded or written again.
LEMMA LeftAloneStep == IInv /\ [Next]_vars => LeftAlone
<1> SUFFICES ASSUME IInv, [Next]_vars,
                    NEW c \in Connections, connection[c].revoked,
                    \A r \in Requests : request[r].connection # c
             PROVE  connection'[c] = connection[c]
                    /\ \A r \in Requests : request'[r].connection # c
  BY DEF LeftAlone
<1>0. /\ c # NoConnection /\ NoRequest.connection = NoConnection
      /\ \A w \in Websites : ~Active(c, w)
      /\ request \in [ Requests -> Request ] /\ connection \in [ Connections -> Connection ]
  BY ConnectionsAssumption DEF NoRequest, Active, InUse, IInv, TypeOK
<1>1. ASSUME NEW r \in Requests, NEW q,
             request' = [ request EXCEPT ![r] = q ], q.connection # c
      PROVE  \A s \in Requests : request'[s].connection # c
  BY <1>0, <1>1
<1>2. ASSUME NEW r \in Requests, Finish(r) PROVE \A s \in Requests : request'[s].connection # c
  BY <1>0, <1>1, <1>2 DEF Finish, Set
<1>3. ASSUME NEW r \in Requests, NEW phase, Goto(r, phase)
      PROVE  \A s \in Requests : request'[s].connection # c
  <2>1. [ request[r] EXCEPT !.phase = phase ].connection = request[r].connection
    BY <1>0 DEF Request
  <2>2. QED
    BY <1>1, <1>3, <2>1 DEF Goto, Set
<1>4. ASSUME NEW r \in Requests, NEW d \in Connections, NEW row, Write(d, row), d # c
      PROVE  connection'[c] = connection[c]
  BY <1>0, <1>4 DEF Write
<1>5. ASSUME NEW r \in Requests, BeginStart(r) \/ FindState(r) \/ requireConnection(r)
      PROVE  \A s \in Requests : request'[s].connection # c
  <2>1. CASE BeginStart(r)
    <3>1. PICK w \in Websites :
            \/ request' = [ request EXCEPT ![r] =
                   [ NoRequest EXCEPT !.op = "start", !.phase = "cleared", !.website = w ] ]
            \/ \E d \in Connections :
                 /\ Active(d, w)
                 /\ request' = [ request EXCEPT ![r] =
                        [ NoRequest EXCEPT !.op = "start", !.website = w, !.connection = d ] ]
      BY <2>1 DEF BeginStart, Set
    <3>2. [ NoRequest EXCEPT !.op = "start", !.phase = "cleared", !.website = w ].connection # c
      BY <1>0 DEF NoRequest
    <3>3. \A d \in Connections : Active(d, w) =>
            d # c /\ [ NoRequest EXCEPT !.op = "start", !.website = w,
                                        !.connection = d ].connection = d
      BY <1>0 DEF NoRequest
    <3>4. CASE request' = [ request EXCEPT ![r] =
                   [ NoRequest EXCEPT !.op = "start", !.phase = "cleared", !.website = w ] ]
      BY <1>1, <3>2, <3>4
    <3>5. ASSUME NEW d \in Connections, Active(d, w),
                 request' = [ request EXCEPT ![r] =
                   [ NoRequest EXCEPT !.op = "start", !.website = w, !.connection = d ] ]
          PROVE  \A s \in Requests : request'[s].connection # c
      <4>1. [ NoRequest EXCEPT !.op = "start", !.website = w, !.connection = d ].connection # c
        BY <3>3, <3>5
      <4>2. QED
        BY <1>1, <3>5, <4>1
    <3>6. QED
      BY <3>1, <3>4, <3>5
  <2>2. CASE FindState(r)
    <3>1. PICK s \in States :
            request' = [ request EXCEPT ![r] = [ NoRequest EXCEPT !.op = "callback", !.state = s ] ]
      BY <2>2 DEF FindState, Set
    <3>2. [ NoRequest EXCEPT !.op = "callback", !.state = s ].connection # c
      BY <1>0 DEF NoRequest
    <3>3. QED
      BY <1>1, <3>1, <3>2
  <2>3. CASE requireConnection(r)
    <3>1. PICK d \in Connections, op \in Uses :
            /\ \E w \in Websites : Active(d, w)
            /\ request' = [ request EXCEPT ![r] =
                               [ NoRequest EXCEPT !.op = op, !.connection = d ] ]
      BY <2>3 DEF requireConnection, Set, Uses
    <3>2. d # c /\ [ NoRequest EXCEPT !.op = op, !.connection = d ].connection = d
      BY <1>0, <3>1 DEF NoRequest
    <3>3. QED
      BY <1>1, <3>1, <3>2
  <2>4. QED
    BY <1>5, <2>1, <2>2, <2>3
<1>6. ASSUME NEW r \in Requests, getSite(r) PROVE \A s \in Requests : request'[s].connection # c
  <2>1. PICK site \in Sites :
          request' = [ request EXCEPT ![r] =
                         [ request[r] EXCEPT !.phase = "found", !.site = site ] ]
    BY <1>6 DEF getSite, Set
  <2>2. [ request[r] EXCEPT !.phase = "found", !.site = site ].connection = request[r].connection
    BY <1>0 DEF Request
  <2>3. QED
    BY <1>1, <2>1, <2>2
\* The rows that are written were loaded before, or are new.
<1>7. ASSUME NEW r \in Requests,
             \/ ReplaceExisting(r) \/ disconnect(r) \/ selectSite(r) \/ testConnection(r)
             \/ refresh(r) \/ markError(r)
      PROVE  connection'[c] = connection[c] /\ \A s \in Requests : request'[s].connection # c
  <2>1. request[r].connection # c
    OBVIOUS
  <2>2. \E row : Write(request[r].connection, row)
    BY <1>7 DEF ReplaceExisting, disconnect, selectSite, testConnection, refresh, markError
  <2>3. connection'[c] = connection[c]
    BY <1>0, <2>1, <2>2 DEF Write
  <2>4. \A s \in Requests : request'[s].connection # c
    BY <1>2, <1>3, <1>7 DEF ReplaceExisting, disconnect, selectSite, testConnection, refresh,
       markError
  <2>5. QED
    BY <2>3, <2>4
<1>8. ASSUME NEW r \in Requests, CreateConnection(r)
      PROVE  connection'[c] = connection[c] /\ \A s \in Requests : request'[s].connection # c
  <2>1. PICK d \in Connections : ~Created(d) /\ \E row : Write(d, row)
    BY <1>8 DEF CreateConnection, Created
  <2>2. d # c
    BY <2>1 DEF IInv, RowSound
  <2>3. Finish(r)
    BY <1>8 DEF CreateConnection
  <2>4. QED
    BY <1>2, <1>4, <2>1, <2>2, <2>3
<1>9. ASSUME NEW r \in Requests, IssueState(r) \/ ConsumeState(r) \/ FindDuplicate(r) \/ End(r)
      PROVE  connection' = connection /\ \A s \in Requests : request'[s].connection # c
  BY <1>2, <1>3, <1>9 DEF IssueState, ConsumeState, FindDuplicate, End
<1>10. ASSUME NEW r \in Requests, BeginStart(r) \/ FindState(r) \/ requireConnection(r) \/ getSite(r)
       PROVE  connection' = connection
  BY <1>10 DEF BeginStart, FindState, requireConnection, getSite
<1>11. CASE \E s \in States : Expire(s)
  BY <1>11 DEF Expire
<1>12. CASE UNCHANGED vars
  BY <1>12 DEF vars
<1>13. QED
  BY <1>5, <1>6, <1>7, <1>8, <1>9, <1>10, <1>11, <1>12 DEF Next, Step

\* Disconnecting is final for whoever comes later, whatever those who came before write.
THEOREM RevokedStays == Spec => RevokedIsLeftAlone
  BY Invariance, LeftAloneStep, PTL DEF Spec, RevokedIsLeftAlone
=============================================================================
