--------------------------- MODULE TestPublication ---------------------------
(***************************************************************************)
(* Controlled test publication: BloggerPublicationService creates, shows,  *)
(* updates, publishes and deletes one test draft per website.  There is no *)
(* row for that draft: findCurrentLocal derives it from the journal of     *)
(* operations (provider_publications) and the local copies of the posts    *)
(* (external_posts), which the sync worker writes too.                     *)
(*                                                                         *)
(* One action is one await of a handler: other requests, the sync worker,  *)
(* changes made on Blogger and crashes happen between any two.             *)
(*                                                                         *)
(* Abstractions: one connection, which stays selected, and one site; the   *)
(* texts of a post are left out, so that a request hash is its kind and    *)
(* post; a refused check changes nothing but the request; BloggerSync      *)
(* models the syncs, here they just write; audit and connection errors are *)
(* left out.                                                               *)
(***************************************************************************)
EXTENDS Sequences, FiniteSets, Naturals

CONSTANTS
  Requests,   \* API requests in flight at the same time
  Keys,       \* idempotency keys that clients send
  NoKey,
  Modes,      \* the providers a connection may use
  Enabled,    \* what the server's configuration allows of PUBLISH and DELETE
  Failures,   \* what the environment may do: see FailureKinds
  MaxSyncs    \* bound: local copies that the sync worker writes

FailureKinds ==
  { "refuse",     \* the provider refuses a call, or cannot be reached
    "lose",       \* the call took effect, but its answer never arrives
    "hide",       \* Blogger's direct lookup answers 404 for a draft
    "external",   \* posts are published or deleted on Blogger itself
    "crash" }     \* the API process dies

ASSUME TestPublicationAssumption ==
  /\ NoKey \notin Keys
  /\ Modes \subseteq { "LIVE", "MOCK" }
  /\ Enabled \subseteq { "PUBLISH", "DELETE" }
  /\ Failures \subseteq FailureKinds
  /\ MaxSyncs \in Nat

VARIABLES
  mode,         \* of the connection
  journal,      \* the provider_publications rows, in the order of createdAt
  reconciled,   \* the CREATE rows that have a reconcile-missing row
  posts,        \* at the provider: the posts this system created, by post id
  local,        \* status of the external_posts rows, by post id
  request,      \* what each handler in flight holds
  syncs,        \* how many local copies the sync worker has written
  causes        \* history of what may lead to a second draft: see Causes

vars == <<mode, journal, reconciled, posts, local, request, syncs, causes>>
storeVars == <<journal, reconciled, local>>
outside == <<mode, syncs>>

Causes ==
  { "missing",    \* the local copy of a draft was marked DELETED
    "overlap" }   \* a create was reserved while another was in progress

Mutations == { "CREATE", "UPDATE", "PUBLISH", "DELETE" }
Kinds == Mutations \cup { "CURRENT", "GET" }
PostStates == { "DRAFT", "PUBLISHED", "DELETED" }

\* Post 0 is no post, row 0 no row.
Row ==
  [ key : Keys, kind : Mutations, status : { "PENDING", "COMPLETED", "FAILED" }, post : Nat ]

Request ==
  [ phase : { "idle", "start", "reading", "current", "calling", "listing", "answered",
              "snapped", "restoring", "failed", "missing" },
    kind : Kinds \cup { "NONE" }, key : Keys \cup {NoKey},
    row : Nat, retry : BOOLEAN,                   \* what reserve answered
    open : SUBSET Nat, marked : SUBSET Nat,       \* what findCurrentLocal has read
    create : Nat, post : Nat, recover : BOOLEAN,  \* what it selected
    seen : PostStates, notFound : BOOLEAN ]       \* what the provider answered

NoRequest ==
  [ phase |-> "idle", kind |-> "NONE", key |-> NoKey, row |-> 0, retry |-> FALSE,
    open |-> {}, marked |-> {}, create |-> 0, post |-> 0, recover |-> FALSE,
    seen |-> "DRAFT", notFound |-> FALSE ]

TypeOK ==
  /\ mode \in Modes
  /\ journal \in Seq(Row)
  /\ reconciled \subseteq DOMAIN journal
  /\ posts \in Seq([ key : Keys, state : PostStates ])
  /\ local \in [ DOMAIN posts -> PostStates \cup { "NONE" } ]
  /\ request \in [ Requests -> Request ]
  /\ syncs \in 0 .. MaxSyncs
  /\ causes \subseteq Causes

\* No test draft yet, or one that exists although it was reconciled as missing: the direct
\* lookup used to be final.
Missing(created) ==
  /\ journal = [ i \in DOMAIN created |-> [ key |-> created[i], kind |-> "CREATE",
                                            status |-> "COMPLETED", post |-> i ] ]
  /\ posts = [ p \in DOMAIN created |-> [ key |-> created[p], state |-> "DRAFT" ] ]
  /\ local = [ p \in DOMAIN created |-> "DELETED" ]
  /\ reconciled = DOMAIN created
  /\ causes = IF created = <<>> THEN {} ELSE { "missing" }

Init ==
  /\ mode \in Modes
  /\ Missing(<<>>) \/ \E key \in Keys : Missing(<<key>>)
  /\ request = [ r \in Requests |-> NoRequest ]
  /\ syncs = 0

Set(r, held) == request' = [ request EXCEPT ![r] = held ]
Goto(r, phase) == Set(r, [ request[r] EXCEPT !.phase = phase ])
Finish(r) == Set(r, NoRequest)

RowsOf(key) == { i \in DOMAIN journal : journal[i].key = key }

\* Marks the local copy of p; a draft marked DELETED is remembered as a false alarm.
Mark(p, status) ==
  /\ local' = [ local EXCEPT ![p] = status ]
  /\ causes' = IF status = "DELETED" /\ posts[p].state = "DRAFT"
               THEN causes \cup { "missing" } ELSE causes

-----------------------------------------------------------------------------
(* findCurrentLocal and reserve *)

\* The creates whose post was neither published nor deleted by a completed operation.
OpenCreates ==
  { c \in DOMAIN journal :
      /\ journal[c].kind = "CREATE" /\ journal[c].status = "COMPLETED"
      /\ ~ \E i \in DOMAIN journal :
             /\ journal[i].kind \in { "PUBLISH", "DELETE" }
             /\ journal[i].status = "COMPLETED"
             /\ journal[i].post = journal[c].post }

\* findCurrentLocal reads the journal first ...
Reading(held) ==
  [ held EXCEPT !.phase = "reading", !.open = OpenCreates,
                !.marked = OpenCreates \cap reconciled ]

\* publish and delete are refused unless the server's configuration allows them.
Permitted(kind) == kind \in { "PUBLISH", "DELETE" } => kind \in Enabled

\* A create has reserved its key before, everything else begins with it.
ReadJournal(r, kind, key) ==
  /\ \/ /\ request[r] = NoRequest
        /\ kind # "CREATE" /\ Permitted(kind) /\ (key = NoKey) = (kind \in { "CURRENT", "GET" })
        /\ Set(r, Reading([ NoRequest EXCEPT !.kind = kind, !.key = key ]))
     \/ /\ request[r].phase = "start"
        /\ kind = request[r].kind /\ key = request[r].key
        /\ Set(r, Reading(request[r]))
  /\ UNCHANGED <<storeVars, posts, outside, causes>>

\* ... then the local copies: one marked DELETED counts only if it was reconciled.
Candidates(r) ==
  { c \in request[r].open :
      local[journal[c].post] # "DELETED" \/ c \in request[r].marked }

\* The newest candidate is the current draft.
Current(r, c) == c \in Candidates(r) /\ \A d \in Candidates(r) : d <= c

\* Faulty variant: the check is left to the client, which does not offer the button.
NeverRefused(r) == FALSE

\* A create is refused when there is one; everything else needs it.
CreateRefused(r) == Candidates(r) # {}

SelectCurrent(r) ==
  /\ request[r].phase = "reading"
  /\ IF request[r].kind = "CREATE"
     THEN IF CreateRefused(r)
          THEN /\ Finish(r)
               /\ journal' = [ journal EXCEPT ![request[r].row].status = "FAILED" ]
          ELSE /\ Set(r, [ request[r] EXCEPT !.phase = "calling", !.open = {}, !.marked = {} ])
               /\ UNCHANGED journal
     ELSE /\ IF Candidates(r) = {}
             THEN Finish(r)
             ELSE \E c \in Candidates(r) :
                  /\ Current(r, c)
                  /\ Set(r, [ request[r] EXCEPT
                                !.phase = IF request[r].kind \in Mutations THEN "current" ELSE "calling",
                                !.open = {}, !.marked = {},
                                !.create = c, !.post = journal[c].post,
                                !.recover = request[r].kind = "CURRENT"
                                              /\ local[journal[c].post] = "DELETED" ])
          /\ UNCHANGED journal
  /\ UNCHANGED <<reconciled, local, posts, outside, causes>>

\* Faulty variant: whatever is not in progress may be tried again.
AnyRetry(held, i) == journal[i].status # "PENDING"

\* Only a deletion that failed is carried out again under its key.
Retried(held, i) ==
  /\ held.kind = "DELETE"
  /\ journal[i].kind = "DELETE" /\ journal[i].post = held.post
  /\ journal[i].status = "FAILED"

\* reserve: the key is unique per connection, whatever becomes of its row.
Reserve(r, held, next) ==
  IF RowsOf(held.key) = {}
  THEN /\ journal' = Append(journal, [ key |-> held.key, kind |-> held.kind,
                                       status |-> "PENDING", post |-> held.post ])
       /\ Set(r, [ held EXCEPT !.phase = next, !.row = Len(journal) + 1 ])
  ELSE \E i \in RowsOf(held.key) :
       /\ IF Retried(held, i)
          THEN Set(r, [ held EXCEPT !.phase = next, !.row = i, !.retry = TRUE ])
          ELSE Finish(r)
       /\ UNCHANGED journal

\* A create begins by reserving its key, the other operations have selected the draft.
reserve(r, key) ==
  /\ \/ /\ request[r] = NoRequest /\ key \in Keys
        /\ Reserve(r, [ NoRequest EXCEPT !.kind = "CREATE", !.key = key ], "start")
        /\ causes' = IF \E other \in Requests : request[other].kind = "CREATE"
                     THEN causes \cup { "overlap" } ELSE causes
     \/ /\ request[r].phase = "current" /\ key = request[r].key
        /\ Reserve(r, request[r], "calling")
        /\ UNCHANGED causes
  /\ UNCHANGED <<reconciled, local, posts, outside>>

-----------------------------------------------------------------------------
(* The calls: neither provider is given a way to recognize a repetition that *)
(* the journal let through; Blogger itself ignores the key.                  *)

Calls(r, kinds) == request[r].phase = "calling" /\ request[r].kind \in kinds
Gone(p) == posts[p].state = "DELETED"

Answered(r, p, state) ==
  Set(r, [ request[r] EXCEPT !.phase = "answered", !.post = p, !.seen = state ])

\* What the call does to Blogger, and the state that its answer shows.
Possible(r) == request[r].kind # "CREATE" => ~ Gone(request[r].post)

StateAfter(r) ==
  CASE request[r].kind = "CREATE" -> "DRAFT"
    [] request[r].kind = "PUBLISH" -> "PUBLISHED"
    [] request[r].kind = "DELETE" -> "DELETED"
    [] OTHER -> posts[request[r].post].state

CalledPost(r) == IF request[r].kind = "CREATE" THEN Len(posts) + 1 ELSE request[r].post

NewPost(r) == [ key |-> request[r].key, state |-> "DRAFT" ]

\* A new post has no local copy yet.
Effect(r) ==
  /\ Calls(r, Mutations) /\ Possible(r)
  /\ IF request[r].kind = "CREATE"
     THEN /\ posts' = Append(posts, NewPost(r))
          /\ local' = Append(local, "NONE")
     ELSE /\ posts' = [ posts EXCEPT ![request[r].post].state = StateAfter(r) ]
          /\ UNCHANGED local
  /\ UNCHANGED <<journal, reconciled, outside, causes>>

Mutate(r) ==
  /\ Effect(r)
  /\ Answered(r, CalledPost(r), StateAfter(r))

\* The transport times out after the call took effect.
LoseAnswer(r) ==
  /\ "lose" \in Failures
  /\ Effect(r)
  /\ Goto(r, "failed")

\* A post that is gone: the mock provider says so, but the live one takes every 404 of
\* these calls for a missing blog.
MutateMissing(r) ==
  /\ Calls(r, Mutations \ { "CREATE" })
  /\ Gone(request[r].post)
  /\ Set(r, [ request[r] EXCEPT !.phase = "failed", !.notFound = (mode = "MOCK") ])
  /\ UNCHANGED <<storeVars, posts, outside, causes>>

\* A failed lookup ends the request, a failed call is recorded.
Refuse(r) ==
  /\ "refuse" \in Failures
  /\ request[r].phase \in { "calling", "listing" }
  /\ IF request[r].kind \in Mutations THEN Goto(r, "failed") ELSE Finish(r)
  /\ UNCHANGED <<storeVars, posts, outside, causes>>

\* current() and get() look the post up; the live provider searches the list of drafts
\* when it gets a 404.
NotFound(r) == IF request[r].kind = "CURRENT" THEN Goto(r, "missing") ELSE Finish(r)

getPost(r) ==
  /\ Calls(r, { "CURRENT", "GET" })
  /\ LET state == posts[request[r].post].state IN
     \/ state # "DELETED" /\ Answered(r, request[r].post, state)
     \/ /\ state = "DELETED" \/ ("hide" \in Failures /\ mode = "LIVE" /\ state = "DRAFT")
        /\ IF mode = "LIVE" THEN Goto(r, "listing") ELSE NotFound(r)
  /\ UNCHANGED <<storeVars, posts, outside, causes>>

\* Faulty variant: the answer to the direct lookup is final.
DirectLookupOnly(r) ==
  /\ request[r].phase = "listing"
  /\ NotFound(r)
  /\ UNCHANGED <<storeVars, posts, outside, causes>>

findDraftInAdminList(r) ==
  /\ request[r].phase = "listing"
  /\ IF posts[request[r].post].state = "DRAFT"
     THEN Answered(r, request[r].post, "DRAFT")
     ELSE NotFound(r)
  /\ UNCHANGED <<storeVars, posts, outside, causes>>

-----------------------------------------------------------------------------
(* What is recorded *)

\* The local copy takes the state the provider showed, however long ago.
snapshot(r) ==
  /\ request[r].phase = "answered" /\ request[r].kind # "DELETE"
  /\ Mark(request[r].post, request[r].seen)
  /\ CASE request[r].kind \in Mutations -> Goto(r, "snapped")
       [] request[r].kind = "CURRENT" /\ request[r].seen = "DRAFT" /\ request[r].recover ->
            Goto(r, "restoring")
       [] OTHER -> Finish(r)
  /\ UNCHANGED <<journal, reconciled, posts, outside>>

restoreReconciledDraft(r) ==
  /\ request[r].phase = "restoring"
  /\ Mark(request[r].post, "DRAFT")
  /\ Finish(r)
  /\ UNCHANGED <<journal, reconciled, posts, outside>>

Completed(r) ==
  journal' = [ journal EXCEPT ![request[r].row].status = "COMPLETED",
                              ![request[r].row].post = request[r].post ]

complete(r) ==
  /\ request[r].phase = "snapped"
  /\ Completed(r)
  /\ Finish(r)
  /\ UNCHANGED <<reconciled, local, posts, outside, causes>>

\* A deletion and its record are one transaction; a post that was gone already counts.
DeletionRecorded(r) ==
  /\ request[r].kind = "DELETE"
  /\ request[r].phase = "answered" \/ (request[r].phase = "failed" /\ request[r].notFound)
  /\ Completed(r)
  /\ Mark(request[r].post, "DELETED")
  /\ Finish(r)
  /\ UNCHANGED <<reconciled, posts, outside>>

\* The failure is written over whatever the row says by now.
fail(r) ==
  /\ request[r].phase = "failed"
  /\ ~ (request[r].kind = "DELETE" /\ request[r].notFound)
  /\ journal' = [ journal EXCEPT ![request[r].row].status = "FAILED" ]
  /\ IF request[r].notFound THEN Goto(r, "missing") ELSE Finish(r)
  /\ UNCHANGED <<reconciled, local, posts, outside, causes>>

reconcileMissing(r) ==
  /\ request[r].phase = "missing"
  /\ reconciled' = reconciled \cup { request[r].create }
  /\ Mark(request[r].post, "DELETED")
  /\ Finish(r)
  /\ UNCHANGED <<journal, posts, outside>>

-----------------------------------------------------------------------------
(* Around the handlers *)

\* A sync imports a post, or marks it DELETED, from a listing of the site that may be as
\* old as the post or older; the worker's mock provider knows nothing of the API's posts.
SyncWrites(p) ==
  /\ syncs < MaxSyncs
  /\ syncs' = syncs + 1
  /\ \E status \in { "DRAFT", posts[p].state, "DELETED" } : Mark(p, status)
  /\ UNCHANGED <<mode, journal, reconciled, posts, request>>

ChangeOnBlogger(p) ==
  /\ "external" \in Failures /\ mode = "LIVE"
  /\ ~ Gone(p)
  /\ \E state \in { "PUBLISHED", "DELETED" } \ { posts[p].state } :
       posts' = [ posts EXCEPT ![p].state = state ]
  /\ UNCHANGED <<storeVars, request, outside, causes>>

\* The API process dies, and with it the handlers and the mock provider's posts.
Crash ==
  /\ "crash" \in Failures
  /\ request' = [ r \in Requests |-> NoRequest ]
  /\ posts' = IF mode = "LIVE" THEN posts
              ELSE [ p \in DOMAIN posts |-> [ posts[p] EXCEPT !.state = "DELETED" ] ]
  /\ UNCHANGED <<storeVars, outside, causes>>

Next ==
  \/ \E r \in Requests :
       \/ \E kind \in Kinds, key \in Keys \cup {NoKey} : ReadJournal(r, kind, key)
       \/ \E key \in Keys : reserve(r, key)
       \/ SelectCurrent(r)
       \/ Mutate(r) \/ LoseAnswer(r) \/ MutateMissing(r) \/ Refuse(r)
       \/ getPost(r) \/ findDraftInAdminList(r)
       \/ snapshot(r) \/ restoreReconciledDraft(r) \/ complete(r)
       \/ DeletionRecorded(r) \/ fail(r) \/ reconcileMissing(r)
  \/ \E p \in DOMAIN posts : SyncWrites(p) \/ ChangeOnBlogger(p)
  \/ Crash

Spec == Init /\ [][Next]_vars

-----------------------------------------------------------------------------
(* Properties *)

\* An idempotency key makes at most one post, whatever fails, crashes or is sent again,
\* and a completed create names the post its own call made.
KeyMakesOnePost ==
  /\ \A p, q \in DOMAIN posts : posts[p].key = posts[q].key => p = q
  /\ \A i \in DOMAIN journal :
       journal[i].kind = "CREATE" /\ journal[i].status = "COMPLETED"
         => posts[journal[i].post].key = journal[i].key

\* The drafts on Blogger that the journal knows of.
TrackedDrafts ==
  { p \in DOMAIN posts :
      /\ posts[p].state = "DRAFT"
      /\ \E i \in DOMAIN journal : /\ journal[i].kind = "CREATE"
                                   /\ journal[i].status = "COMPLETED" /\ journal[i].post = p }

\* "One active draft" is checked before the call, by two reads, and enforced by nothing.
\* Yet a second one takes creates that overlap, or a draft that was taken for missing: no
\* failure, crash or change made on Blogger is enough.
SecondDraftHasCause == Cardinality(TrackedDrafts) > 1 => causes # {}

\* A draft that exists is never reconciled as missing, even when Blogger's direct lookup
\* denies it; what is reconciled was deleted, or published while it was looked for.
ReconciledIsNoDraft ==
  [][ \A c \in reconciled' \ reconciled : posts[journal[c].post].state # "DRAFT" ]_vars

Ended(p) ==
  \E i \in DOMAIN journal : /\ journal[i].kind \in { "PUBLISH", "DELETE" }
                            /\ journal[i].status = "COMPLETED" /\ journal[i].post = p

\* A test publication whose end is recorded never becomes current again, with one
\* exception: the late failure of a deletion that was retried is written over a completed
\* retry.
EndedStaysEnded ==
  [][ \A p \in DOMAIN posts : Ended(p) =>
        \/ Ended(p)'
        \/ \E r \in Requests : /\ request[r].phase = "failed" /\ request[r].retry
                               /\ request[r].kind = "DELETE" /\ request[r].post = p ]_vars

\* "A clean create path after the API reconciles a provider-side deletion"
\* (apps/web/test/blogger-ui.spec.tsx): no create is refused on account of a draft that
\* is gone and was reconciled.
ReconciledAllowsCreate ==
  [][ \A r \in Requests :
        /\ request[r].phase = "reading" /\ request[r].kind = "CREATE"
        /\ journal'[request[r].row].status = "FAILED"
        => ~ \E c \in reconciled : Current(r, c) /\ Gone(journal[c].post) ]_vars
=============================================================================
