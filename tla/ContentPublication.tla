------------------------- MODULE ContentPublication -------------------------
(***************************************************************************)
(* The draft handoff of one content item to Blogger:                       *)
(* ContentPublicationService over the binding (content_publications), the  *)
(* operation journal (provider_publications) and the posts at the          *)
(* provider.  The item itself lives by ContentLifecycle.                   *)
(*                                                                         *)
(* One action is one await of synchronize() or state(): other requests,    *)
(* edits, deletions made on Blogger and crashes happen between any two.    *)
(*                                                                         *)
(* Abstractions: one connection, to one site, whose expiry is one more way *)
(* to be refused; a revision fixes its title, text and labels, so that a   *)
(* request hash is its kind and revision; a refused check changes nothing  *)
(* but the request; the local copy of the post and the audit trail, whose  *)
(* errors are swallowed, are left out.                                     *)
(***************************************************************************)
EXTENDS ContentLifecycle, Sequences, FiniteSets

CONSTANTS
  Requests,    \* API requests in flight at the same time
  Keys,        \* idempotency keys that clients send
  NoKey,
  Failures,    \* what the environment may do: see FailureKinds
  MaxVersion,  \* bound: the item is not written any more at this version
  AheadTo      \* bound: the statuses that a client that runs ahead leaves it in

FailureKinds ==
  { "refuse",     \* the provider refuses a call, or cannot be reached
    "lose",       \* the call took effect, but its answer or the transaction fails
    "external",   \* posts are published or deleted on Blogger itself
    "elsewhere",  \* a key serves another item, or a test publication, of the connection
    "database",   \* a query fails where the handler does not catch it
    "crash" }     \* the API process dies

ASSUME PublicationAssumption ==
  /\ NoKey \notin Keys
  /\ Failures \subseteq FailureKinds
  /\ MaxVersion \in Nat
  /\ AheadTo \subseteq ContentEditorialStatus

VARIABLES
  publicationStatus,   \* of the content item
  binding,             \* the content_publications row of the item and site
  operations,          \* the provider_publications rows, by idempotency key
  posts,               \* Blogger: the posts this system created, by post id
  request,             \* what each handler in flight holds
  causes               \* history of what may go wrong later: see Causes

publicationVars == <<publicationStatus, binding, operations, posts, request, causes>>
vars == <<version, status, body, approved, ahead, publicationStatus, binding, operations, posts,
          request, causes>>

Causes ==
  { "orphaned",   \* a handler left the binding it had reserved as it was
    "doubted" }   \* a check of the linked post marked the binding ERROR or MISSING

\* Post 0 is no post; revision 0 is none.
Binding ==
  [ status : { "NONE", "PENDING", "ACTIVE", "ERROR", "MISSING" }, post : Nat, revision : Nat ]

Operation ==
  [ status : { "NONE", "PENDING", "COMPLETED", "FAILED", "ELSEWHERE" },
    kind : { "NONE", "CREATE", "UPDATE" }, revision : Nat ]

Post ==
  [ key : Keys, revision : Nat, body : Nat, state : { "DRAFT", "PUBLISHED", "DELETED" } ]

Request ==
  [ phase : { "idle", "loaded", "unbound", "bound", "reserved", "confirmed", "failed",
              "checking", "seen", "missing" },
    kind : { "NONE", "CREATE", "UPDATE" }, key : Keys \cup {NoKey},
    revision : Nat, body : Nat, post : Nat,
    error : BOOLEAN, seen : { "DRAFT", "PUBLISHED", "DELETED", "ERROR" } ]

NoRequest ==
  [ phase |-> "idle", kind |-> "NONE", key |-> NoKey, revision |-> 0, body |-> 0,
    post |-> 0, error |-> FALSE, seen |-> "DRAFT" ]

TypeOK ==
  /\ LifecycleTypeOK
  /\ publicationStatus \in { "NOT_PUBLISHED", "DRAFT_SENT", "FAILED" }
  /\ binding \in Binding
  /\ operations \in [Keys -> Operation]
  /\ posts \in Seq(Post)
  /\ request \in [Requests -> Request]
  /\ causes \subseteq Causes

Init ==
  /\ LifecycleInit
  /\ publicationStatus = "NOT_PUBLISHED"
  /\ binding = [ status |-> "NONE", post |-> 0, revision |-> 0 ]
  /\ operations = [ k \in Keys |-> [ status |-> "NONE", kind |-> "NONE", revision |-> 0 ] ]
  /\ posts = <<>>
  /\ request = [ r \in Requests |-> NoRequest ]
  /\ causes = {}

\* The key belongs to an operation of this binding.
Ours(k) == operations[k].status \notin { "NONE", "ELSEWHERE" }

Set(r, held) == request' = [ request EXCEPT ![r] = held ]
Goto(r, phase) == Set(r, [ request[r] EXCEPT !.phase = phase ])
Finish(r) == Set(r, NoRequest)

-----------------------------------------------------------------------------
(* synchronize: the checks *)

\* Faulty variant: the handoff takes any item that is not archived.
NotArchived == version > 0 /\ status # "ARCHIVED"

Ready == status = "READY_TO_PUBLISH"

\* The handler holds the revision it loaded, the one the client asked for, from here on.

synchronize(r, kind, key) ==
  /\ request[r] = NoRequest
  /\ Ready
  /\ Set(r, [ NoRequest EXCEPT !.phase = "loaded", !.kind = kind, !.key = key,
                               !.revision = version, !.body = body ])
  /\ UNCHANGED <<lifecycleVars, publicationStatus, binding, operations, posts, causes>>

\* CREATE: a linked post, or a reservation in progress, ends the request.
FindBindingForCreate(r) ==
  /\ request[r].phase = "loaded" /\ request[r].kind = "CREATE"
  /\ CASE binding.status = "NONE" -> Goto(r, "unbound")
       [] binding.post = 0 /\ binding.status = "ERROR" -> Goto(r, "bound")
       [] OTHER -> Finish(r)
  /\ UNCHANGED <<lifecycleVars, publicationStatus, binding, operations, posts, causes>>

\* UPDATE: needs a linked post that is not known to be missing or already up to date.
FindBindingForUpdate(r) ==
  /\ request[r].phase = "loaded" /\ request[r].kind = "UPDATE"
  /\ IF \/ binding.post = 0
        \/ binding.status = "MISSING"
        \/ binding.revision = request[r].revision
     THEN Finish(r)
     ELSE Set(r, [ request[r] EXCEPT !.phase = "bound", !.post = binding.post ])
  /\ UNCHANGED <<lifecycleVars, publicationStatus, binding, operations, posts, causes>>

\* Faulty variant: a reservation in progress does not stop the loser.
LoserWaitsForNobody(r) ==
  ~ (binding.status = "ACTIVE" /\ binding.revision = request[r].revision)

\* The loser of the race for the binding goes on unless the winner is still at it, or
\* has synchronized this revision.
LoserGoesOn(r) ==
  /\ binding.status # "PENDING"
  /\ ~ (binding.status = "ACTIVE" /\ binding.revision = request[r].revision)

\* The binding is unique per item and site: the first insert wins.
reserveBinding(r) ==
  /\ request[r].phase = "unbound"
  /\ IF binding.status = "NONE"
     THEN /\ binding' = [ binding EXCEPT !.status = "PENDING" ]
          /\ Goto(r, "bound")
     ELSE /\ IF LoserGoesOn(r) THEN Goto(r, "bound") ELSE Finish(r)
          /\ UNCHANGED binding
  /\ UNCHANGED <<lifecycleVars, publicationStatus, operations, posts, causes>>

\* Faulty variant: a key whose attempt failed may be used again.
FailedKeyIsFree(key) == operations[key].status \in { "NONE", "FAILED" }

KeyIsFree(key) == operations[key].status = "NONE"

\* Faulty variant: the journal is written after the call, not before.
CallBeforeReserving(r) ==
  LET q == request[r] IN
  /\ q.phase = "bound"
  /\ IF KeyIsFree(q.key) THEN Goto(r, "reserved") ELSE Finish(r)
  /\ UNCHANGED <<lifecycleVars, publicationStatus, binding, operations, posts, causes>>

\* The handler ends without another write: a binding that it has reserved, and neither
\* linked nor marked ERROR, stays PENDING.
Leave(r) ==
  /\ causes' = IF /\ binding.status = "PENDING" /\ request[r].kind = "CREATE"
                  /\ request[r].phase \in { "bound", "reserved", "confirmed", "failed" }
               THEN causes \cup { "orphaned" } ELSE causes
  /\ Finish(r)

\* The journal row, unique per key and connection.  A used key ends the request, whether
\* it is refused (another request's, pending, failed, of another item) or answered
\* (completed); nothing takes back the reservation of the binding.
reserveOperation(r) ==
  LET q == request[r] IN
  /\ q.phase = "bound"
  /\ IF KeyIsFree(q.key)
     THEN /\ operations' = [ operations EXCEPT ![q.key] =
                [ status |-> "PENDING", kind |-> q.kind, revision |-> q.revision ] ]
          /\ Goto(r, "reserved")
          /\ UNCHANGED causes
     ELSE Leave(r) /\ UNCHANGED operations
  /\ UNCHANGED <<lifecycleVars, publicationStatus, binding, posts>>

-----------------------------------------------------------------------------
(* synchronize: the provider *)

\* Live Blogger knows no idempotency key: every create makes a new post.
ProviderCreatesDraft(r) ==
  LET q == request[r] IN
  /\ q.phase = "reserved" /\ q.kind = "CREATE"
  /\ posts' = Append(posts, [ key |-> q.key, revision |-> q.revision, body |-> q.body,
                              state |-> "DRAFT" ])
  /\ Set(r, [ q EXCEPT !.phase = "confirmed", !.post = Len(posts) + 1 ])
  /\ UNCHANGED <<lifecycleVars, publicationStatus, binding, operations, causes>>

\* A post that was made public meanwhile is overwritten all the same, then reported.
ProviderUpdatesPost(r) ==
  LET q == request[r] IN
  /\ q.phase = "reserved" /\ q.kind = "UPDATE"
  /\ IF posts[q.post].state = "DELETED"
     THEN Goto(r, "failed") /\ UNCHANGED posts
     ELSE /\ posts' = [ posts EXCEPT ![q.post].revision = q.revision,
                                     ![q.post].body = q.body ]
          /\ Goto(r, IF posts[q.post].state = "DRAFT" THEN "confirmed" ELSE "failed")
  /\ UNCHANGED <<lifecycleVars, publicationStatus, binding, operations, causes>>

ProviderRefuses(r) ==
  /\ "refuse" \in Failures
  /\ request[r].phase = "reserved"
  /\ Goto(r, "failed")
  /\ UNCHANGED <<lifecycleVars, publicationStatus, binding, operations, posts, causes>>

\* The answer is lost after the call took effect: a timeout, or the transaction fails.
LoseAnswer(r) ==
  /\ "lose" \in Failures
  /\ request[r].phase = "confirmed"
  /\ Goto(r, "failed")
  /\ UNCHANGED <<lifecycleVars, publicationStatus, binding, operations, posts, causes>>

-----------------------------------------------------------------------------
(* synchronize: the outcome *)

\* Faulty variant: the binding does not learn which revision was sent.
CompleteWithoutRevision(r) ==
  LET q == request[r] IN
  /\ q.phase = "confirmed"
  /\ binding' = [ binding EXCEPT !.status = "ACTIVE", !.post = q.post ]
  /\ operations' = [ operations EXCEPT ![q.key].status = "COMPLETED" ]
  /\ UNCHANGED publicationStatus
  /\ Finish(r)
  /\ UNCHANGED <<lifecycleVars, posts, causes>>

\* One transaction; the item is marked only where it still has the version sent.
CompleteSync(r) ==
  LET q == request[r] IN
  /\ q.phase = "confirmed"
  /\ binding' = [ status |-> "ACTIVE", post |-> q.post, revision |-> q.revision ]
  /\ operations' = [ operations EXCEPT ![q.key].status = "COMPLETED" ]
  /\ publicationStatus' = IF version = q.revision THEN "DRAFT_SENT" ELSE publicationStatus
  /\ Finish(r)
  /\ UNCHANGED <<lifecycleVars, posts, causes>>

\* Faulty variant: the binding gets the status of the journal row.
RecordJournalStatus(r) ==
  /\ request[r].phase = "failed"
  /\ operations' = [ operations EXCEPT ![request[r].key].status = "FAILED" ]
  /\ binding' = [ binding EXCEPT !.status = "FAILED" ]
  /\ publicationStatus' = "FAILED"
  /\ Finish(r)
  /\ UNCHANGED <<lifecycleVars, posts, causes>>

\* Faulty variant: a failure is journalled but not shown on the binding.
RecordOperationFailureOnly(r) ==
  /\ request[r].phase = "failed"
  /\ operations' = [ operations EXCEPT ![request[r].key].status = "FAILED" ]
  /\ publicationStatus' = "FAILED"
  /\ Finish(r)
  /\ UNCHANGED <<lifecycleVars, binding, posts, causes>>

\* One transaction, whatever else happened to the binding and to the item meanwhile.
RecordFailure(r) ==
  /\ request[r].phase = "failed"
  /\ operations' = [ operations EXCEPT ![request[r].key].status = "FAILED" ]
  /\ binding' = [ binding EXCEPT !.status = "ERROR" ]
  /\ publicationStatus' = "FAILED"
  /\ Finish(r)
  /\ UNCHANGED <<lifecycleVars, posts, causes>>

-----------------------------------------------------------------------------
(* state: read the post back, repair or degrade the binding *)

state(r) ==
  /\ request[r] = NoRequest
  /\ binding.status \in { "ACTIVE", "ERROR" } /\ binding.post # 0
  /\ Set(r, [ NoRequest EXCEPT !.phase = "checking", !.post = binding.post,
                               !.error = (binding.status = "ERROR") ])
  /\ UNCHANGED <<lifecycleVars, publicationStatus, binding, operations, posts, causes>>

getPost(r) ==
  /\ request[r].phase = "checking"
  /\ \E seen \in { posts[request[r].post].state }
                 \cup (IF "refuse" \in Failures THEN { "ERROR" } ELSE {}) :
       Set(r, [ request[r] EXCEPT !.phase = "seen", !.seen = seen ])
  /\ UNCHANGED <<lifecycleVars, publicationStatus, binding, operations, posts, causes>>

\* A post found as a draft clears the error that was read; a public one, or a provider
\* error, sets one; an absent post marks the binding MISSING.
ApplyState(r) ==
  LET q == request[r] IN
  /\ q.phase = "seen"
  /\ CASE q.seen = "DRAFT" ->
            binding' = [ binding EXCEPT !.status = IF q.error THEN "ACTIVE" ELSE @ ]
       [] q.seen = "DELETED" -> binding' = [ binding EXCEPT !.status = "MISSING" ]
       [] OTHER -> binding' = [ binding EXCEPT !.status = "ERROR" ]
  /\ causes' = IF q.seen = "DRAFT" THEN causes ELSE causes \cup { "doubted" }
  /\ IF q.seen = "DELETED" THEN Goto(r, "missing") ELSE Finish(r)
  /\ UNCHANGED <<lifecycleVars, publicationStatus, operations, posts>>

MarkItemFailed(r) ==
  /\ request[r].phase = "missing"
  /\ publicationStatus' = "FAILED"
  /\ Finish(r)
  /\ UNCHANGED <<lifecycleVars, binding, operations, posts, causes>>

-----------------------------------------------------------------------------

\* Somebody publishes or deletes a post on Blogger.
ChangeOnBlogger ==
  /\ "external" \in Failures
  /\ \E p \in DOMAIN posts, s \in { "PUBLISHED", "DELETED" } :
       /\ posts[p].state # "DELETED" /\ posts[p].state # s
       /\ posts' = [ posts EXCEPT ![p].state = s ]
  /\ UNCHANGED <<lifecycleVars, publicationStatus, binding, operations, request, causes>>

\* The client's key, or one like it, is used for something else on the connection.
UseKeyElsewhere(k) ==
  /\ "elsewhere" \in Failures
  /\ operations[k].status = "NONE"
  /\ operations' = [ operations EXCEPT ![k].status = "ELSEWHERE" ]
  /\ UNCHANGED <<lifecycleVars, publicationStatus, binding, posts, request, causes>>

\* A query throws: everywhere but between the reservation of the key and the outcome this
\* ends the handler, the transaction that records a failure included.
HandlerThrows(r) ==
  /\ "database" \in Failures
  /\ request[r].phase \notin { "idle", "reserved", "confirmed" }
  /\ Leave(r)
  /\ UNCHANGED <<lifecycleVars, publicationStatus, binding, operations, posts>>

Crash(r) ==
  /\ "crash" \in Failures
  /\ request[r] # NoRequest
  /\ Leave(r)
  /\ UNCHANGED <<lifecycleVars, publicationStatus, binding, operations, posts>>

EditorialStep ==
  /\ version < MaxVersion
  /\ LifecycleNext
  /\ ahead' # ahead => status' \in AheadTo
  /\ UNCHANGED publicationVars

\* The next await of a handler in flight.
Continue(r) ==
  \/ FindBindingForCreate(r)
  \/ FindBindingForUpdate(r)
  \/ reserveBinding(r)
  \/ reserveOperation(r)
  \/ ProviderCreatesDraft(r)
  \/ ProviderUpdatesPost(r)
  \/ ProviderRefuses(r)
  \/ LoseAnswer(r)
  \/ CompleteSync(r)
  \/ RecordFailure(r)
  \/ getPost(r)
  \/ ApplyState(r)
  \/ MarkItemFailed(r)

Next ==
  \/ EditorialStep
  \/ ChangeOnBlogger
  \/ \E k \in Keys : UseKeyElsewhere(k)
  \/ \E r \in Requests :
       \/ \E kind \in { "CREATE", "UPDATE" }, key \in Keys : synchronize(r, kind, key)
       \/ state(r)
       \/ Continue(r)
       \/ HandlerThrows(r)
       \/ Crash(r)

Spec == Init /\ [][Next]_vars

\* A handler that started goes on: provider calls have a timeout, and nothing but an error
\* or a crash ends it early.  Nothing is assumed of users, editors or Blogger.
FairSpec == Spec /\ \A r \in Requests : WF_vars(Continue(r))

-----------------------------------------------------------------------------
(* Properties *)

\* An idempotency key reaches Blogger's create at most once, whatever fails, crashes or
\* is sent again; the provider itself would not notice the repetition.
KeyCreatesOnce ==
  \A p, q \in DOMAIN posts : posts[p].key = posts[q].key => p = q

\* Nothing appears on Blogger that the journal cannot account for, crashes included: a
\* post was announced by the CREATE of its key, and the revision it carries by some
\* operation, before the call.
JournalCoversBlogger ==
  \A p \in DOMAIN posts :
    /\ operations[posts[p].key].kind = "CREATE"
    /\ \E k \in Keys : Ours(k) /\ operations[k].revision = posts[p].revision

\* What the binding claims really happened: the linked post exists, was created by a
\* completed operation, and the revision shown as synchronized was sent by one.
BindingHonest ==
  binding.post # 0 =>
    /\ binding.post \in DOMAIN posts
    /\ operations[posts[binding.post].key].status = "COMPLETED"
    /\ \E k \in Keys : operations[k].status = "COMPLETED"
                       /\ operations[k].revision = binding.revision

\* An item whose draft was sent, or failed to be, is past review for good: it can never
\* again be overwritten by a machine draft, which promises NOT_PUBLISHED items.  Only a
\* client that ran ahead can have brought it back.
GeneratableIsNotPublished ==
  status \in generatableStatuses /\ ahead = {} => publicationStatus = "NOT_PUBLISHED"

\* However many requests race and die, they make one draft as long as no handoff fails, no
\* check doubts the link and nobody edits the item: a second post needs a failed operation,
\* a binding marked ERROR or MISSING, or operations on two different revisions (one that
\* found no binding goes on when another has synchronized a newer revision).
SecondDraftHasCause ==
  Len(posts) > 1 /\ "doubted" \notin causes =>
    \E j, k \in Keys :
      /\ Ours(j) /\ Ours(k)
      /\ \/ operations[j].revision # operations[k].revision
         \/ operations[j].status = "FAILED"

\* A reserved binding does not stay PENDING, unless the handler that reserved it ended in
\* one of the ways that leave it so, after which nothing in the code ever releases it: the
\* process died; a query failed before the provider was called or while the failure was
\* being recorded; the client's key was in use for something else on the connection.
ReservationEnds ==
  binding.status = "PENDING" ~> binding.status # "PENDING" \/ "orphaned" \in causes

\* One draft per item: ADR-013, even when a timeout made a client retry; ADR-016, even
\* when handoffs are repeated.
NoDuplicateDrafts == Len(posts) <= 1

\* What present() reports as SYNCHRONIZED.
ShownSynchronized ==
  binding.status = "ACTIVE" /\ binding.post # 0 /\ binding.revision = version

\* When no handler is at work, an item shown as synchronized (A jour) has its current text
\* in the linked draft.
SynchronizedIsTrue ==
  ShownSynchronized /\ (\A r \in Requests : request[r] = NoRequest)
    => posts[binding.post].body = body
=============================================================================
