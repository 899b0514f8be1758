------------------------------ MODULE Editorial ------------------------------
(***************************************************************************)
(* One content item under concurrent API requests: ContentsService,        *)
(* ContentReviewService.decide and ArticleGenerationService.               *)
(*                                                                         *)
(* A handler runs in two steps with an await between them.  It loads the   *)
(* row and checks role, ownership, status and version on what it loaded    *)
(* (Begin...); later it opens a serializable transaction that writes the   *)
(* row where the version is still the one the client sent, and appends a   *)
(* revision (Commit...).  Other requests commit in between.  A request     *)
(* whose transaction finds another version, fails or dies with its process *)
(* leaves no trace (Abort).                                                *)
(*                                                                         *)
(* Abstractions: a text is named by the version that wrote it; a refused   *)
(* check changes nothing and is no action; a slug conflict or an inactive  *)
(* profile is one more way for a request to be refused or aborted; a       *)
(* client may send any version: at most MaxLag behind the row the handler  *)
(* loads, at most MaxLead ahead of it.                                     *)
(***************************************************************************)
EXTENDS Naturals, FiniteSets, ContentDomain

CONSTANTS
  Users,        \* members of the workspace
  RoleOf,       \* the role each of them has
  Requests,     \* API requests in flight at the same time
  Candidates,   \* machine drafts, one per idempotency key
  NoUser, NoCandidate,
  UpdateFields, \* bound: the combinations of fields that updates send
  MaxVersion,   \* bound: no request starts at this version, or aims to write beyond it
  MaxLag,       \* bound: how far a version that is sent may be behind the row
  MaxLead       \* bound: and how far ahead of it

Fields == { "general", "seo", "assignment" }

ASSUME EditorialAssumption ==
  /\ RoleOf \in [Users -> Roles]
  /\ NoUser \notin Users
  /\ NoCandidate \notin Candidates
  /\ UpdateFields \subseteq SUBSET Fields
  /\ MaxVersion \in Nat
  /\ MaxLag \in Nat /\ MaxLead \in Nat

VARIABLES
  item,         \* the content_items row; version 0 before it is created
  revisions,    \* the content_revisions rows
  reviews,      \* the content_reviews rows
  candidates,   \* the ai_generation_candidates rows
  request       \* what each request in flight has checked and is about to write

vars == <<item, revisions, reviews, candidates, request>>

Item ==
  [ version : Nat, status : ContentEditorialStatus, body : Nat,
    creator : Users \cup {NoUser}, assignee : Users \cup {NoUser} ]

\* checked and sent are history: the version of the row that the writer's checks were
\* made on, and the version that the client sent (0 for a creation).
Revision ==
  [ number : Nat, status : ContentEditorialStatus, body : Nat,
    candidate : Candidates \cup {NoCandidate}, base : Nat, checked : Nat, sent : Nat ]

Review == [ revision : Nat, decision : ContentReviewDecision, reviewer : Users ]

CandidateStatus == { "NONE", "PENDING", "READY", "FAILED", "APPLIED", "DISCARDED" }

Candidate == [ status : CandidateStatus, base : Nat, applied : Nat ]

Request ==
  [ op : { "idle", "update", "move", "review", "generate", "apply" },
    user : Users \cup {NoUser}, loaded : Nat, expected : Nat,
    next : ContentEditorialStatus,
    fields : SUBSET Fields, assignee : Users \cup {NoUser},
    candidate : Candidates \cup {NoCandidate} ]

NoRequest ==
  [ op |-> "idle", user |-> NoUser, loaded |-> 0, expected |-> 0, next |-> "IDEA",
    fields |-> {}, assignee |-> NoUser, candidate |-> NoCandidate ]

TypeOK ==
  /\ item \in Item
  /\ revisions \subseteq Revision
  /\ reviews \subseteq Review
  /\ candidates \in [Candidates -> Candidate]
  /\ request \in [Requests -> Request]
  /\ \A r \in Requests :
       request[r].op = "review" =>
         request[r].next \in ContentReviewDecision /\ request[r].user \in Users

Init ==
  /\ item = [ version |-> 0, status |-> "IDEA", body |-> 0,
              creator |-> NoUser, assignee |-> NoUser ]
  /\ revisions = {}
  /\ reviews = {}
  /\ candidates = [ c \in Candidates |-> [ status |-> "NONE", base |-> 0, applied |-> 0 ] ]
  /\ request = [ r \in Requests |-> NoRequest ]

-----------------------------------------------------------------------------
(* Checks a handler makes on the row it has loaded. *)

Can(u, permission) == permission \in ROLE_PERMISSIONS[RoleOf[u]]

\* A writer touches only an editable item that they created or are assigned to.
assertWriterCanEdit(u) ==
  RoleOf[u] = "WRITER" =>
    /\ item.status \in writerEditableStatuses
    /\ u \in { item.creator, item.assignee }

assertRoleTransition(u, next) ==
  /\ Can(u, "contents.transition")
  /\ RoleOf[u] = "WRITER" => <<item.status, next>> \in writerTransitions
  /\ RoleOf[u] = "REVIEWER" => <<item.status, next>> \in reviewerTransitions

\* validateReferences: who an item may be assigned to, if to anybody.
Assignees == Users \cup {NoUser}

\* expectedVersion is any integer from 1 on.  update, transition and archive never
\* compare it with the row they have loaded, so it may name a version that is yet to be
\* written; the other handlers do compare it.
SentVersions == { v \in 1 .. (item.version + MaxLead) : item.version <= v + MaxLag }

Start(r, checked) ==
  /\ checked.expected < MaxVersion
  /\ request' = [ request EXCEPT ![r] = [ checked EXCEPT !.loaded = item.version ] ]

Finish(r) == request' = [ request EXCEPT ![r] = NoRequest ]

-----------------------------------------------------------------------------
(* What a transaction writes. *)

\* The snapshot createRevision stores of the row just written on behalf of q.
Snapshot(row, c, base, q) ==
  [ number |-> row.version, status |-> row.status, body |-> row.body,
    candidate |-> c, base |-> base, checked |-> q.loaded, sent |-> q.expected ]

\* Faulty variant: no revision when the text stays the same.
WriteTextChangesOnly(row, c, base, q) ==
  /\ item' = row
  /\ revisions' = IF row.body = item.body THEN revisions
                  ELSE revisions \cup { Snapshot(row, c, base, q) }

Write(row, c, base, q) ==
  /\ item' = row
  /\ revisions' = revisions \cup { Snapshot(row, c, base, q) }

\* Faulty variant: the write forgets the optimistic lock.
AnyVersionMatches(r) == item.version >= request[r].expected

\* updateMany ... where version = expectedVersion
VersionMatches(r) == item.version = request[r].expected

-----------------------------------------------------------------------------
(* Creation *)

create(u, initial, assignee) ==
  /\ item.version = 0
  /\ Can(u, "contents.create")
  /\ assignee # NoUser => Can(u, "contents.assign")
  /\ initial \in { "IDEA", "DRAFT" }
  /\ Write([ version |-> 1, status |-> initial, body |-> 1,
             creator |-> u, assignee |-> assignee ], NoCandidate, 0, NoRequest)
  /\ UNCHANGED <<reviews, candidates, request>>

-----------------------------------------------------------------------------
(* update, transition, archive: checks, then updateWithRevision *)

\* Faulty variant: an archived item may still be edited.
BeginUpdateOfArchived(r, u, sent, fields, assignee) ==
  /\ item.version > 0
  /\ fields # {}
  /\ "general" \in fields => Can(u, "contents.update")
  /\ "seo" \in fields => Can(u, "contents.seo.update")
  /\ "assignment" \in fields => Can(u, "contents.assign")
  /\ assertWriterCanEdit(u)
  /\ Start(r, [ NoRequest EXCEPT !.op = "update", !.user = u, !.expected = sent,
                                 !.fields = fields, !.assignee = assignee ])
  /\ UNCHANGED <<item, revisions, reviews, candidates>>

BeginUpdate(r, u, sent, fields, assignee) ==
  /\ item.version > 0
  /\ item.status # "ARCHIVED"
  /\ fields # {}
  /\ "general" \in fields => Can(u, "contents.update")
  /\ "seo" \in fields => Can(u, "contents.seo.update")
  /\ "assignment" \in fields => Can(u, "contents.assign")
  /\ assertWriterCanEdit(u)
  /\ Start(r, [ NoRequest EXCEPT !.op = "update", !.user = u, !.expected = sent,
                                 !.fields = fields, !.assignee = assignee ])
  /\ UNCHANGED <<item, revisions, reviews, candidates>>

\* Faulty variant: the generic transition also takes the review edges.
BeginTransitionWithDecisions(r, u, sent, next) ==
  /\ item.version > 0
  /\ next # "ARCHIVED"
  /\ assertWriterCanEdit(u)
  /\ assertRoleTransition(u, next)
  /\ canTransitionEditorialStatus(item.status, next)
  /\ Start(r, [ NoRequest EXCEPT !.op = "move", !.user = u,
                                 !.expected = sent, !.next = next ])
  /\ UNCHANGED <<item, revisions, reviews, candidates>>

BeginTransition(r, u, sent, next) ==
  /\ item.version > 0
  /\ ~ (item.status = "IN_REVIEW" /\ next \in ContentReviewDecision)
  /\ next # "ARCHIVED"
  /\ assertWriterCanEdit(u)
  /\ assertRoleTransition(u, next)
  /\ canTransitionEditorialStatus(item.status, next)
  /\ Start(r, [ NoRequest EXCEPT !.op = "move", !.user = u,
                                 !.expected = sent, !.next = next ])
  /\ UNCHANGED <<item, revisions, reviews, candidates>>

BeginArchive(r, u, sent) ==
  /\ item.version > 0
  /\ Can(u, "contents.archive")
  /\ canTransitionEditorialStatus(item.status, "ARCHIVED")
  /\ Start(r, [ NoRequest EXCEPT !.op = "move", !.user = u,
                                 !.expected = sent, !.next = "ARCHIVED" ])
  /\ UNCHANGED <<item, revisions, reviews, candidates>>

CommitUpdate(r) ==
  /\ request[r].op = "update"
  /\ VersionMatches(r)
  /\ LET new == item.version + 1
         rewritten == request[r].fields \cap { "general", "seo" } # {}
         assigned == "assignment" \in request[r].fields
     IN Write([ item EXCEPT !.version = new,
                            !.body = IF rewritten THEN new ELSE @,
                            !.assignee = IF assigned THEN request[r].assignee ELSE @ ],
              NoCandidate, 0, request[r])
  /\ Finish(r)
  /\ UNCHANGED <<reviews, candidates>>

CommitMove(r) ==
  /\ request[r].op = "move"
  /\ VersionMatches(r)
  /\ Write([ item EXCEPT !.version = @ + 1, !.status = request[r].next ],
           NoCandidate, 0, request[r])
  /\ Finish(r)
  /\ UNCHANGED <<reviews, candidates>>

-----------------------------------------------------------------------------
(* Review decisions *)

\* decideReview: the permission of the edge, then the version the reviewer read.
BeginReview(r, u, decision, reviewed) ==
  /\ item.version > 0
  /\ assertRoleTransition(u, decision)
  /\ canTransitionEditorialStatus(item.status, decision)
  /\ item.version = reviewed
  /\ Start(r, [ NoRequest EXCEPT !.op = "review", !.user = u,
                                 !.expected = reviewed, !.next = decision ])
  /\ UNCHANGED <<item, revisions, reviews, candidates>>

\* ContentReviewService asks for the permission of the decision before.
decide(r, u, decision, reviewed) ==
  /\ Can(u, IF decision = "APPROVED" THEN "contents.reviews.approve"
                                     ELSE "contents.reviews.requestChanges")
  /\ BeginReview(r, u, decision, reviewed)

\* Faulty variant: the decision is stored without its author.
AnonymousReviewRow(r) ==
  [ revision |-> request[r].expected, decision |-> request[r].next, reviewer |-> NoUser ]

ReviewRow(r) ==
  [ revision |-> request[r].expected, decision |-> request[r].next,
    reviewer |-> request[r].user ]

CommitReview(r) ==
  /\ request[r].op = "review"
  /\ \E row \in revisions : row.number = request[r].expected
  /\ VersionMatches(r)
  /\ item.status = "IN_REVIEW"
  /\ Write([ item EXCEPT !.version = @ + 1, !.status = request[r].next ],
           NoCandidate, 0, request[r])
  /\ reviews' = reviews \cup { ReviewRow(r) }
  /\ Finish(r)
  /\ UNCHANGED candidates

-----------------------------------------------------------------------------
(* Machine drafts: generate, then apply or discard *)

\* Faulty variant: a draft may be generated for an item in any status but the archive.
AlwaysGeneratable == item.status # "ARCHIVED"

Generatable == item.status \in generatableStatuses

\* generate: the row must be generatable and at the version the client sent.
BeginGenerate(r, u, c, sent) ==
  /\ item.version > 0
  /\ Can(u, "contents.ai.generate")
  /\ Generatable
  /\ item.version = sent
  /\ candidates[c].status = "NONE"
  /\ Start(r, [ NoRequest EXCEPT !.op = "generate", !.user = u,
                                 !.expected = sent, !.candidate = c ])
  /\ UNCHANGED <<item, revisions, reviews, candidates>>

\* The insert, unique per key: a concurrent insert of the same key wins at most once.
InsertCandidate(r) ==
  LET c == request[r].candidate IN
  /\ request[r].op = "generate"
  /\ candidates[c].status = "NONE"
  /\ candidates' = [ candidates EXCEPT ![c] =
                       [ status |-> "PENDING", base |-> request[r].expected, applied |-> 0 ] ]
  /\ Finish(r)
  /\ UNCHANGED <<item, revisions, reviews>>

\* The provider's answer passed validation; if the process dies the row stays PENDING.
CompleteGeneration(c) ==
  /\ candidates[c].status = "PENDING"
  /\ candidates' = [ candidates EXCEPT ![c].status = "READY" ]
  /\ UNCHANGED <<item, revisions, reviews, request>>

FailGeneration(c) ==
  /\ candidates[c].status = "PENDING"
  /\ candidates' = [ candidates EXCEPT ![c].status = "FAILED" ]
  /\ UNCHANGED <<item, revisions, reviews, request>>

\* discard writes only where the status is READY or FAILED; on PENDING it does nothing.
discard(u, c) ==
  /\ Can(u, "contents.ai.generate")
  /\ candidates[c].status \in { "READY", "FAILED" }
  /\ candidates' = [ candidates EXCEPT ![c].status = "DISCARDED" ]
  /\ UNCHANGED <<item, revisions, reviews, request>>

BeginApply(r, u, c) ==
  /\ item.version > 0
  /\ Can(u, "contents.ai.apply")
  /\ candidates[c].status = "READY"
  /\ item.version = candidates[c].base
  /\ item.status # "ARCHIVED"
  /\ Start(r, [ NoRequest EXCEPT !.op = "apply", !.user = u,
                                 !.expected = candidates[c].base, !.candidate = c ])
  /\ UNCHANGED <<item, revisions, reviews, candidates>>

\* Faulty variant: the candidate is claimed before, and outside, the transaction.
CommitApplyClaimedFirst(r) ==
  LET c == request[r].candidate
      new == item.version + 1
  IN
  /\ request[r].op = "apply"
  /\ candidates[c].status = "READY"
  /\ IF VersionMatches(r)
     THEN Write([ item EXCEPT !.version = new, !.status = "DRAFT", !.body = new ],
                c, request[r].expected, request[r])
     ELSE UNCHANGED <<item, revisions>>
  /\ candidates' = [ candidates EXCEPT ![c].status = "APPLIED",
                                       ![c].applied = request[r].expected + 1 ]
  /\ Finish(r)
  /\ UNCHANGED reviews

\* One transaction claims the candidate, overwrites its base version and records
\* the revision; it sets DRAFT without asking for the current status.
CommitApply(r) ==
  LET c == request[r].candidate
      new == item.version + 1
  IN
  /\ request[r].op = "apply"
  /\ candidates[c].status = "READY"
  /\ VersionMatches(r)
  /\ Write([ item EXCEPT !.version = new, !.status = "DRAFT", !.body = new ],
           c, request[r].expected, request[r])
  /\ candidates' = [ candidates EXCEPT ![c].status = "APPLIED",
                                       ![c].applied = request[r].expected + 1 ]
  /\ Finish(r)
  /\ UNCHANGED reviews

-----------------------------------------------------------------------------

\* Refused by the transaction, a serialization failure, a crash: nothing is written.
Abort(r) ==
  /\ request[r] # NoRequest
  /\ Finish(r)
  /\ UNCHANGED <<item, revisions, reviews, candidates>>

BeginAny(r, u) ==
  /\ request[r] = NoRequest /\ item.version < MaxVersion
  /\ \/ \E sent \in SentVersions :
          \/ \E fields \in UpdateFields :
               \E a \in IF "assignment" \in fields THEN Assignees ELSE {NoUser} :
                 BeginUpdate(r, u, sent, fields, a)
          \/ \E next \in ContentEditorialStatus : BeginTransition(r, u, sent, next)
          \/ BeginArchive(r, u, sent)
          \/ \E decision \in ContentReviewDecision : decide(r, u, decision, sent)
          \/ \E c \in Candidates : BeginGenerate(r, u, c, sent)
     \/ \E c \in Candidates : BeginApply(r, u, c)

CommitAny(r) ==
  \/ CommitUpdate(r)
  \/ CommitMove(r)
  \/ CommitReview(r)
  \/ InsertCandidate(r)
  \/ CommitApply(r)

Next ==
  \/ \E u \in Users, initial \in { "IDEA", "DRAFT" }, a \in Assignees :
       create(u, initial, a)
  \/ \E r \in Requests : CommitAny(r) \/ Abort(r) \/ (\E u \in Users : BeginAny(r, u))
  \/ \E c \in Candidates :
       \/ CompleteGeneration(c)
       \/ FailGeneration(c)
       \/ \E u \in Users : discard(u, c)

Spec == Init /\ [][Next]_vars

-----------------------------------------------------------------------------
(* Properties *)

\* What the checks of a request in flight are worth: the revision of the row it loaded
\* still carries what it checked there, whatever other requests commit meanwhile.  Only
\* where the version it will test is not ahead of that row is this, at the write, a
\* check of the row written: then the writer's scope, which no revision keeps, holds too.
CheckStillGood(q) ==
  /\ q.user \in Users
  /\ q.loaded \in 1 .. item.version
  /\ q.expected > 0
  /\ q.op \in { "review", "generate", "apply" } =>
       q.expected = q.loaded /\ RoleOf[q.user] # "WRITER"
  /\ \E row \in revisions :
       /\ row.number = q.loaded
       /\ q.op = "update" => row.status # "ARCHIVED"
       /\ q.op = "move" =>
            /\ canTransitionEditorialStatus(row.status, q.next)
            /\ row.status = "IN_REVIEW" => q.next = "ARCHIVED"
       /\ q.op = "generate" => row.status \in generatableStatuses
  /\ q.expected = item.version /\ q.expected <= q.loaded /\ RoleOf[q.user] = "WRITER" =>
       /\ item.status \in writerEditableStatuses
       /\ q.user \in { item.creator, item.assignee }
  /\ q.op = "generate" => q.candidate \in Candidates
  /\ q.op = "apply" =>
       /\ q.candidate \in Candidates
       /\ candidates[q.candidate].status # "NONE"
       /\ q.expected = candidates[q.candidate].base

RequestSound ==
  \A r \in Requests : request[r].op # "idle" => CheckStillGood(request[r])

\* A machine draft was requested for a revision that was still being written.
CandidateSound ==
  \A c \in Candidates :
    candidates[c].status # "NONE" =>
      \E row \in revisions :
        row.number = candidates[c].base /\ row.status \in generatableStatuses

\* The history has no gap and no duplicate: exactly one revision per version up to
\* the current one, and the newest is the row itself.  (The unique index on item and
\* revision number is never what saves a write.)
RevisionHistory ==
  /\ { row.number : row \in revisions } = 1 .. item.version
  /\ \A x, y \in revisions : x.number = y.number => x = y
  /\ \A row \in revisions :
       row.number = item.version => row.status = item.status /\ row.body = item.body

\* The client named a version that was ahead of the row its request was checked on.
Ahead(row) == row.sent > row.checked

\* The revision whose status a write has to start from lawfully: the one just before,
\* unless the client ran ahead, and then the one its request was checked on.
StartsFrom(x, y) == IF Ahead(y) THEN y.checked ELSE x.number

\* Read along the history, the item takes edges of the life cycle only, although every
\* commit trusts a status check made on an earlier read and applying a machine draft
\* checks no edge at all: it never pulls an item out of review or revives one.  A client
\* that runs ahead can carry an edge over to a later row, but still only a lawful edge
\* of the older row that was checked.
LawfulHistory ==
  \A x, y \in revisions :
    y.number = x.number + 1 =>
      \E z \in revisions :
        /\ z.number = StartsFrom(x, y) /\ z.number <= x.number
        /\ z.status # "ARCHIVED"
        /\ x.status = y.status \/ canTransitionEditorialStatus(z.status, y.status)

\* What the decision records ask of clients, to send the version they have loaded, is
\* not enforced: this holds of such clients only.
LawfulWithoutLead ==
  \A x, y \in revisions :
    y.number = x.number + 1 =>
      /\ x.status # "ARCHIVED"
      /\ x.status = y.status \/ canTransitionEditorialStatus(x.status, y.status)

\* A review is about the text its reviewer read: the reviewed revision stood in review,
\* and the revision the decision created carries that decision and the very same text.
ReviewBinding ==
  \A v \in reviews :
    \E x, y \in revisions :
      /\ x.number = v.revision /\ y.number = v.revision + 1
      /\ x.status = "IN_REVIEW" /\ y.status = v.decision
      /\ x.body = y.body

\* No way around the review centre: each time an item becomes APPROVED or
\* CHANGES_REQUESTED there is exactly one review, of the revision just before.
OnlyReviewsDecide ==
  \A x, y \in revisions :
    ( /\ y.number = x.number + 1
      /\ x.status # y.status
      /\ y.status \in ContentReviewDecision )
    => \E v \in reviews :
         /\ v.revision = x.number /\ v.decision = y.status
         /\ \A w \in reviews : w.revision = x.number => w = v

\* A machine draft is used at most once and is used whole: an applied candidate has
\* exactly the revision it names, built on its base; a candidate that was not applied,
\* stale ones included, left no revision and is not consumed.
CandidateProvenance ==
  /\ \A c \in Candidates :
       candidates[c].status = "APPLIED" <=> \E row \in revisions : row.candidate = c
  /\ \A row \in revisions :
       row.candidate # NoCandidate =>
         /\ row.number = candidates[row.candidate].applied
         /\ row.base = candidates[row.candidate].base
         /\ row.number = row.base + 1
         /\ row.status = "DRAFT"

\* The step commits what request r had in flight.
Commits(r) == request[r] # NoRequest /\ request'[r] = NoRequest /\ item' # item

WriterStaysInScope ==
  \A r \in Requests :
    ( /\ Commits(r)
      /\ RoleOf[request[r].user] = "WRITER"
      /\ request[r].expected <= request[r].loaded ) =>
      /\ item.status \in writerEditableStatuses
      /\ request[r].user \in { item.creator, item.assignee }

\* A writer's write lands only on an item that, at that moment and not just when it was
\* loaded, is editable and theirs, if the version sent was not ahead of the row loaded.
WriterScope == [][WriterStaysInScope]_vars

\* Whoever runs ahead, an item is only ever approved, ready or published if a review has
\* approved it at some time.
ReadyWasApproved ==
  (\E row \in revisions : row.status \in approvedStatuses)
    => \E v \in reviews : v.decision = "APPROVED"

\* The detailed services implement the life cycle: approved is the set of texts of the
\* revisions that have an approving review, ahead the versions written by clients that
\* had run ahead.
ApprovedTexts ==
  { row.body : row \in { x \in revisions :
      \E v \in reviews : v.revision = x.number /\ v.decision = "APPROVED" } }

AheadVersions == { row.number : row \in { x \in revisions : Ahead(x) } }

Lifecycle == INSTANCE ContentLifecycle
  WITH version <- item.version, status <- item.status, body <- item.body,
       approved <- ApprovedTexts, ahead <- AheadVersions

ImplementsLifecycle == Lifecycle!LifecycleSpec
=============================================================================
