-------------------------- MODULE BloggerConnections --------------------------
(***************************************************************************)
(* BloggerConnectionsService: the Blogger connections of the websites and  *)
(* the one-time OAuth states they are made with.                           *)
(*                                                                         *)
(* A handler loads the active connection of its website, talks to Blogger, *)
(* and writes the row it has loaded, by id, whatever has become of the row *)
(* meanwhile.  The sync worker and the publication services use the rows   *)
(* in the same way.  One action per await.                                 *)
(*                                                                         *)
(* Abstractions: live mode (a mock connection persists no token);          *)
(* credentials are there or not; a blog is its id; one workspace.  A       *)
(* refused request changes nothing.                                        *)
(***************************************************************************)
EXTENDS Naturals

CONSTANTS
  Websites,
  Connections,  \* bound: the connection rows that are ever inserted
  States,       \* bound: the OAuth states that are ever issued
  Sites,        \* the blogs on Blogger
  Requests,     \* requests in flight at the same time
  NoWebsite, NoConnection, NoState, NoSite

ASSUME ConnectionsAssumption ==
  /\ NoWebsite \notin Websites
  /\ NoConnection \notin Connections
  /\ NoState \notin States
  /\ NoSite \notin Sites

VARIABLES
  connection,   \* the website_connections rows
  oauth,        \* the oauth_states rows
  overlapped,   \* history: whether two requests ever selected a site at the same time
  request       \* what each request in flight has read

vars == <<connection, oauth, overlapped, request>>

\* state is history: the OAuth state the row was made with.
Connection ==
  [ status : { "NONE", "CONNECTED", "DEGRADED", "EXPIRED", "DISCONNECTED" },
    revoked : BOOLEAN, credentials : BOOLEAN,
    website : Websites \cup {NoWebsite}, site : Sites \cup {NoSite},
    state : States \cup {NoState} ]

OAuthState ==
  [ status : { "none", "issued", "consumed", "expired" },
    website : Websites \cup {NoWebsite} ]

Request ==
  [ op : { "idle", "start", "callback", "sites", "select", "refresh", "test", "disconnect" },
    phase : { "loaded", "cleared", "consumed", "found", "checked" },
    website : Websites \cup {NoWebsite}, connection : Connections \cup {NoConnection},
    state : States \cup {NoState}, site : Sites \cup {NoSite} ]

NoRequest ==
  [ op |-> "idle", phase |-> "loaded", website |-> NoWebsite,
    connection |-> NoConnection, state |-> NoState, site |-> NoSite ]

TypeOK ==
  /\ connection \in [ Connections -> Connection ]
  /\ oauth \in [ States -> OAuthState ]
  /\ overlapped \in BOOLEAN
  /\ request \in [ Requests -> Request ]
  /\ \A c \in Connections :
       connection[c].status # "NONE" =>
         /\ connection[c].website \in Websites
         /\ connection[c].state \in States

Init ==
  /\ connection = [ c \in Connections |->
       [ status |-> "NONE", revoked |-> FALSE, credentials |-> FALSE,
         website |-> NoWebsite, site |-> NoSite, state |-> NoState ] ]
  /\ oauth = [ s \in States |-> [ status |-> "none", website |-> NoWebsite ] ]
  /\ overlapped = FALSE
  /\ request = [ r \in Requests |-> NoRequest ]

-----------------------------------------------------------------------------

\* Faulty variant: goes by the status alone.
InUseByStatus(c) == connection[c].status \in { "CONNECTED", "DEGRADED", "EXPIRED" }

\* What activeConnection looks for, and what the partial unique index is about.
InUse(c) ==
  /\ ~connection[c].revoked
  /\ connection[c].status \in { "CONNECTED", "DEGRADED", "EXPIRED" }

Active(c, w) == InUse(c) /\ connection[c].website = w

Set(r, q) == request' = [ request EXCEPT ![r] = q ]
Goto(r, phase) == Set(r, [ request[r] EXCEPT !.phase = phase ])
Finish(r) == Set(r, NoRequest)

At(r, op, phase) == request[r].op = op /\ request[r].phase = phase

\* update ... where id
Write(c, row) == connection' = [ connection EXCEPT ![c] = row ]

Disconnected(c) ==
  [ connection[c] EXCEPT !.status = "DISCONNECTED", !.revoked = TRUE,
                         !.credentials = FALSE ]

-----------------------------------------------------------------------------
(* start and callback *)

\* A website that has an active connection keeps it unless the client asks to replace it.
BeginStart(r) ==
  /\ request[r] = NoRequest
  /\ \E w \in Websites :
       \/ /\ \A c \in Connections : ~Active(c, w)
          /\ Set(r, [ NoRequest EXCEPT !.op = "start", !.phase = "cleared", !.website = w ])
       \/ \E c \in Connections :
            /\ Active(c, w)
            /\ Set(r, [ NoRequest EXCEPT !.op = "start", !.website = w, !.connection = c ])
  /\ UNCHANGED <<connection, oauth, overlapped>>

ReplaceExisting(r) ==
  /\ At(r, "start", "loaded")
  /\ Write(request[r].connection, Disconnected(request[r].connection))
  /\ Goto(r, "cleared")
  /\ UNCHANGED <<oauth, overlapped>>

\* Faulty variant: the state does not say what it was issued for.
IssueUnboundState(r) ==
  /\ At(r, "start", "cleared")
  /\ \E s \in States :
       /\ oauth[s].status = "none"
       /\ oauth' = [ oauth EXCEPT ![s].status = "issued" ]
  /\ Finish(r)
  /\ UNCHANGED <<connection, overlapped>>

IssueState(r) ==
  /\ At(r, "start", "cleared")
  /\ \E s \in States :
       /\ oauth[s].status = "none"
       /\ oauth' = [ oauth EXCEPT ![s] =
                       [ status |-> "issued", website |-> request[r].website ] ]
  /\ Finish(r)
  /\ UNCHANGED <<connection, overlapped>>

FindState(r) ==
  /\ request[r] = NoRequest
  /\ \E s \in States :
       /\ oauth[s].status = "issued"
       /\ Set(r, [ NoRequest EXCEPT !.op = "callback", !.state = s ])
  /\ UNCHANGED <<connection, oauth, overlapped>>

\* Faulty variant: trusts the state as it was found.
ConsumeFoundState(r) ==
  /\ At(r, "callback", "loaded")
  /\ oauth' = [ oauth EXCEPT ![request[r].state].status = "consumed" ]
  /\ Goto(r, "consumed")
  /\ UNCHANGED <<connection, overlapped>>

\* updateMany ... where consumedAt is null and it has not expired.
ConsumeState(r) ==
  /\ At(r, "callback", "loaded")
  /\ IF oauth[request[r].state].status = "issued"
     THEN /\ oauth' = [ oauth EXCEPT ![request[r].state].status = "consumed" ]
          /\ Goto(r, "consumed")
     ELSE Finish(r) /\ UNCHANGED oauth
  /\ UNCHANGED <<connection, overlapped>>

\* Faulty variant: nothing but start keeps a website to one connection.
CreateAnother(r) ==
  /\ At(r, "callback", "consumed")
  /\ \E c \in Connections :
       /\ connection[c].status = "NONE"
       /\ Write(c, [ status |-> "CONNECTED", revoked |-> FALSE, credentials |-> TRUE,
                     website |-> oauth[request[r].state].website, site |-> NoSite,
                     state |-> request[r].state ])
  /\ Finish(r)
  /\ UNCHANGED <<oauth, overlapped>>

\* Google has exchanged the code for credentials: INSERT under the partial unique index.
CreateConnection(r) ==
  LET w == oauth[request[r].state].website IN
  /\ At(r, "callback", "consumed")
  /\ \A c \in Connections : ~Active(c, w)
  /\ \E c \in Connections :
       /\ connection[c].status = "NONE"
       /\ Write(c, [ status |-> "CONNECTED", revoked |-> FALSE, credentials |-> TRUE,
                     website |-> w, site |-> NoSite, state |-> request[r].state ])
  /\ Finish(r)
  /\ UNCHANGED <<oauth, overlapped>>

-----------------------------------------------------------------------------
(* Requests that use a connection *)

\* requireConnection, requireSelectedConnection: also what the sync worker and the
\* publication services begin with.
requireConnection(r) ==
  /\ request[r] = NoRequest
  /\ \E c \in Connections, op \in { "sites", "select", "refresh", "test", "disconnect" } :
       /\ \E w \in Websites : Active(c, w)
       /\ op = "test" => connection[c].site # NoSite
       /\ Set(r, [ NoRequest EXCEPT !.op = op, !.connection = c ])
       /\ overlapped' =
            (overlapped \/ (op = "select" /\ \E o \in Requests : request[o].op = "select"))
  /\ UNCHANGED <<connection, oauth>>

\* Faulty variant: the row keeps its place in the history without being revoked.
DisconnectByStatus(r) ==
  /\ At(r, "disconnect", "loaded")
  /\ Write(request[r].connection,
           [ connection[request[r].connection] EXCEPT !.status = "DISCONNECTED",
                                                      !.credentials = FALSE ])
  /\ Finish(r)
  /\ UNCHANGED <<oauth, overlapped>>

disconnect(r) ==
  /\ At(r, "disconnect", "loaded")
  /\ Write(request[r].connection, Disconnected(request[r].connection))
  /\ Finish(r)
  /\ UNCHANGED <<oauth, overlapped>>

getSite(r) ==
  /\ At(r, "select", "loaded")
  /\ \E s \in Sites : Set(r, [ request[r] EXCEPT !.phase = "found", !.site = s ])
  /\ UNCHANGED <<connection, oauth, overlapped>>

\* Faulty variant: a connection with an error does not count.
NoHealthyDuplicate(r) ==
  /\ At(r, "select", "found")
  /\ \A c \in Connections \ { request[r].connection } :
       InUse(c) /\ connection[c].status = "CONNECTED" => connection[c].site # request[r].site
  /\ Goto(r, "checked")
  /\ UNCHANGED <<connection, oauth, overlapped>>

\* No other connection in use, of any website, has the site.
FindDuplicate(r) ==
  /\ At(r, "select", "found")
  /\ \A c \in Connections \ { request[r].connection } :
       InUse(c) => connection[c].site # request[r].site
  /\ Goto(r, "checked")
  /\ UNCHANGED <<connection, oauth, overlapped>>

selectSite(r) ==
  LET c == request[r].connection IN
  /\ At(r, "select", "checked")
  /\ Write(c, [ connection[c] EXCEPT !.site = request[r].site, !.status = "CONNECTED" ])
  /\ Finish(r)
  /\ UNCHANGED <<oauth, overlapped>>

\* test; a completed sync writes the same.
testConnection(r) ==
  LET c == request[r].connection IN
  /\ At(r, "test", "loaded")
  /\ Write(c, [ connection[c] EXCEPT !.status = "CONNECTED" ])
  /\ Finish(r)
  /\ UNCHANGED <<oauth, overlapped>>

\* New credentials, for the row that was loaded.
refresh(r) ==
  LET c == request[r].connection IN
  /\ At(r, "refresh", "loaded")
  /\ Write(c, [ connection[c] EXCEPT !.credentials = TRUE, !.status = "CONNECTED" ])
  /\ Finish(r)
  /\ UNCHANGED <<oauth, overlapped>>

\* Blogger, or the way there, fails: the row is degraded, or has to be authorized again.
markError(r) ==
  LET c == request[r].connection IN
  /\ request[r].op \in { "sites", "refresh", "test" }
  /\ \E status \in { "DEGRADED", "EXPIRED" } :
       Write(c, [ connection[c] EXCEPT !.status = status ])
  /\ Finish(r)
  /\ UNCHANGED <<oauth, overlapped>>

\* Everything that ends a request without a write: an error answer, a list of sites, a
\* process that dies.
End(r) ==
  /\ request[r] # NoRequest
  /\ Finish(r)
  /\ UNCHANGED <<connection, oauth, overlapped>>

Expire(s) ==
  /\ oauth[s].status = "issued"
  /\ oauth' = [ oauth EXCEPT ![s].status = "expired" ]
  /\ UNCHANGED <<connection, overlapped, request>>

Step(r) ==
  \/ BeginStart(r) \/ ReplaceExisting(r) \/ IssueState(r)
  \/ FindState(r) \/ ConsumeState(r) \/ CreateConnection(r)
  \/ requireConnection(r) \/ disconnect(r)
  \/ getSite(r) \/ FindDuplicate(r) \/ selectSite(r)
  \/ testConnection(r) \/ refresh(r) \/ markError(r)
  \/ End(r)

Next == (\E r \in Requests : Step(r)) \/ (\E s \in States : Expire(s))

Spec == Init /\ [][Next]_vars

-----------------------------------------------------------------------------
(* Properties *)

\* A website has at most one connection in use.  Inserts are guarded by the index; no
\* write by id that was in flight brings an old row back beside a new one.
OneConnectionInUse ==
  \A w \in Websites, c, d \in Connections : Active(c, w) /\ Active(d, w) => c = d

\* A connection that can be loaded has the credentials to use it.
InUseHasCredentials == \A c \in Connections : InUse(c) => connection[c].credentials

\* An OAuth state makes at most one connection, however often its callback is called.
StateUsedOnce ==
  \A c, d \in Connections :
    connection[c].status # "NONE" /\ connection[c].state = connection[d].state => c = d

\* A connection that was revoked, and that no request in flight had loaded before, is
\* left alone for good: whatever status late requests have written, none finds it again.
LeftAlone ==
  \A c \in Connections :
    connection[c].revoked /\ (\A r \in Requests : request[r].connection # c) =>
      /\ connection'[c] = connection[c]
      /\ \A r \in Requests : request'[r].connection # c
RevokedIsLeftAlone == [][LeftAlone]_vars

\* A blog belongs to at most one connection in use, although its selection is checked
\* before it is written and no index backs it: as long as no two selections were under
\* way at the same time.  (With two, both may find no duplicate and both write.)
SiteAttachedOnce ==
  ~overlapped =>
    \A c, d \in Connections :
      InUse(c) /\ InUse(d) /\ connection[c].site = connection[d].site
        /\ connection[c].site # NoSite => c = d
=============================================================================
