--------------------------- MODULE EditorialProofs ---------------------------
(***************************************************************************)
(* What holds of Editorial for every set of users, requests and machine    *)
(* drafts and every bound: types, an unbroken history along lawful edges,  *)
(* reviews bound to the text they read, machine drafts used at most once,  *)
(* writers confined to their own editable items, and the implementation of *)
(* ContentLifecycle.                                                       *)
(*                                                                         *)
(* The second part is about WebEditor, the pages that edit the item: what  *)
(* an accepted save may drop, what a page at rest shows and what becomes   *)
(* of what was typed, for every set of pages and edits.                    *)
(***************************************************************************)
EXTENDS Editorial, WebEditor, TLAPS

-----------------------------------------------------------------------------
(* Types *)

LEMMA RequestTypes ==
  /\ NoRequest \in Request
  /\ ContentReviewDecision \subseteq ContentEditorialStatus
  /\ generatableStatuses \subseteq ContentEditorialStatus
BY DEF NoRequest, Request, ContentReviewDecision, ContentEditorialStatus,
       generatableStatuses

LEMMA SentVersionTypes ==
  ASSUME TypeOK
  PROVE  \A v \in SentVersions : v \in Nat /\ v > 0
BY EditorialAssumption DEF TypeOK, Item, SentVersions

\* A transaction that writes a well-typed row leaves well-typed tables.
LEMMA WriteTypes ==
  ASSUME TypeOK, NEW row \in Item, NEW c \in Candidates \cup {NoCandidate}, NEW base \in Nat,
         NEW q \in Request, Write(row, c, base, q)
  PROVE  item' \in Item /\ revisions' \subseteq Revision
BY DEF TypeOK, Write, Snapshot, Item, Revision, Request

\* Starting and finishing a request keep the types of the requests.
RequestsTyped ==
  /\ request \in [Requests -> Request]
  /\ \A r \in Requests :
       request[r].op = "review" =>
         request[r].next \in ContentReviewDecision /\ request[r].user \in Users

LEMMA StartTypes ==
  ASSUME TypeOK, NEW r \in Requests, NEW q \in Request, Start(r, q),
         q.op = "review" => q.next \in ContentReviewDecision /\ q.user \in Users
  PROVE  RequestsTyped'
<1> DEFINE new == [ q EXCEPT !.loaded = item.version ]
<1>1. new \in Request /\ new.op = q.op /\ new.next = q.next /\ new.user = q.user
  BY DEF TypeOK, Item, Request
<1> HIDE DEF new
<1>2. request' = [ request EXCEPT ![r] = new ]
  BY DEF Start, new
<1>3. QED
  BY <1>1, <1>2 DEF TypeOK, RequestsTyped

LEMMA FinishTypes ==
  ASSUME TypeOK, NEW r \in Requests, Finish(r)
  PROVE  RequestsTyped'
BY RequestTypes DEF TypeOK, Finish, RequestsTyped, NoRequest

LEMMA TypeStep == TypeOK /\ [Next]_vars => TypeOK'
<1> SUFFICES ASSUME TypeOK, [Next]_vars PROVE TypeOK'
  OBVIOUS
<1>1. ASSUME NEW u \in Users, NEW initial \in { "IDEA", "DRAFT" },
             NEW a \in Assignees, create(u, initial, a)
      PROVE  TypeOK'
  <2>1. [ version |-> 1, status |-> initial, body |-> 1,
          creator |-> u, assignee |-> a ] \in Item
    BY DEF Item, Assignees, ContentEditorialStatus
  <2>2. QED
    BY <1>1, <2>1, RequestTypes, WriteTypes DEF create, TypeOK
<1>2. ASSUME NEW r \in Requests, NEW u \in Users, BeginAny(r, u)
      PROVE  TypeOK'
  <2> \A v \in SentVersions : v \in Nat
    BY SentVersionTypes
  <2>1. ASSUME NEW sent \in SentVersions, NEW fields \in UpdateFields,
               NEW a \in Assignees \cup {NoUser}, BeginUpdate(r, u, sent, fields, a)
        PROVE  TypeOK'
    <3>1. [ NoRequest EXCEPT !.op = "update", !.user = u, !.expected = sent,
                             !.fields = fields, !.assignee = a ] \in Request
      BY EditorialAssumption DEF NoRequest, Request, Assignees, ContentEditorialStatus
    <3>2. QED
      BY <2>1, <3>1, StartTypes DEF BeginUpdate, TypeOK, RequestsTyped, NoRequest
  <2>2. ASSUME NEW sent \in SentVersions, NEW next \in ContentEditorialStatus,
               BeginTransition(r, u, sent, next)
        PROVE  TypeOK'
    <3>1. [ NoRequest EXCEPT !.op = "move", !.user = u,
                             !.expected = sent, !.next = next ] \in Request
      BY DEF NoRequest, Request, ContentEditorialStatus
    <3>2. QED
      BY <2>2, <3>1, StartTypes DEF BeginTransition, TypeOK, RequestsTyped, NoRequest
  <2>3. ASSUME NEW sent \in SentVersions, BeginArchive(r, u, sent)
        PROVE  TypeOK'
    <3>1. [ NoRequest EXCEPT !.op = "move", !.user = u,
                             !.expected = sent, !.next = "ARCHIVED" ] \in Request
      BY DEF NoRequest, Request, ContentEditorialStatus
    <3>2. QED
      BY <2>3, <3>1, StartTypes DEF BeginArchive, TypeOK, RequestsTyped, NoRequest
  <2>4. ASSUME NEW sent \in SentVersions, NEW decision \in ContentReviewDecision,
               decide(r, u, decision, sent)
        PROVE  TypeOK'
    <3>1. [ NoRequest EXCEPT !.op = "review", !.user = u,
                             !.expected = sent, !.next = decision ] \in Request
      BY RequestTypes DEF NoRequest, Request, ContentEditorialStatus
    <3>2. QED
      BY <2>4, <3>1, StartTypes DEF decide, BeginReview, TypeOK, RequestsTyped, NoRequest
  <2>5. ASSUME NEW sent \in SentVersions, NEW c \in Candidates,
               BeginGenerate(r, u, c, sent)
        PROVE  TypeOK'
    <3>1. [ NoRequest EXCEPT !.op = "generate", !.user = u,
                             !.expected = sent, !.candidate = c ] \in Request
      BY DEF NoRequest, Request, ContentEditorialStatus
    <3>2. QED
      BY <2>5, <3>1, StartTypes DEF BeginGenerate, TypeOK, RequestsTyped, NoRequest
  <2>6. ASSUME NEW c \in Candidates, BeginApply(r, u, c)
        PROVE  TypeOK'
    <3>1. [ NoRequest EXCEPT !.op = "apply", !.user = u,
                             !.expected = candidates[c].base, !.candidate = c ] \in Request
      BY DEF NoRequest, Request, TypeOK, Candidate, ContentEditorialStatus
    <3>2. QED
      BY <2>6, <3>1, StartTypes DEF BeginApply, TypeOK, RequestsTyped, NoRequest
  <2>7. QED
    BY <1>2, <2>1, <2>2, <2>3, <2>4, <2>5, <2>6 DEF BeginAny
<1>3. ASSUME NEW r \in Requests, CommitAny(r)
      PROVE  TypeOK'
  <2> request[r] \in Request /\ item \in Item /\ item.version + 1 \in Nat
    BY DEF TypeOK, Item
  <2>1. CASE CommitUpdate(r)
    <3> DEFINE new == item.version + 1
               b == IF request[r].fields \cap { "general", "seo" } # {}
                    THEN new ELSE item.body
               a == IF "assignment" \in request[r].fields
                    THEN request[r].assignee ELSE item.assignee
               row == [ item EXCEPT !.version = new, !.body = b, !.assignee = a ]
    <3>1. row \in Item
      BY DEF Item, Request
    <3>2. Write(row, NoCandidate, 0, request[r])
      BY <2>1 DEF CommitUpdate
    <3>3. QED
      BY <2>1, <3>1, <3>2, WriteTypes, FinishTypes DEF CommitUpdate, TypeOK, RequestsTyped
  <2>2. CASE CommitMove(r)
    <3>1. [ item EXCEPT !.version = @ + 1, !.status = request[r].next ] \in Item
      BY DEF Item, Request
    <3>2. QED
      BY <2>2, <3>1, WriteTypes, FinishTypes DEF CommitMove, TypeOK, RequestsTyped
  <2>3. CASE CommitReview(r)
    <3>1. [ item EXCEPT !.version = @ + 1, !.status = request[r].next ] \in Item
      BY DEF Item, Request
    <3>2. item' \in Item /\ revisions' \subseteq Revision
      BY <2>3, <3>1, WriteTypes DEF CommitReview
    <3>3. QED
      BY <2>3, <3>2, FinishTypes DEF CommitReview, ReviewRow, Review, TypeOK, RequestsTyped,
         Request
  <2>4. CASE InsertCandidate(r)
    BY <2>4, FinishTypes DEF InsertCandidate, TypeOK, RequestsTyped, Candidate, CandidateStatus, Request
  <2>5. CASE CommitApply(r)
    <3>1. [ item EXCEPT !.version = item.version + 1, !.status = "DRAFT",
                        !.body = item.version + 1 ] \in Item
      BY DEF Item, ContentEditorialStatus
    <3>2. item' \in Item /\ revisions' \subseteq Revision
      BY <2>5, <3>1, WriteTypes DEF CommitApply, Request
    <3>3. candidates' \in [Candidates -> Candidate]
      <4> DEFINE c == request[r].candidate
      <4>1. c \in Candidates => candidates[c] \in Candidate
        BY DEF TypeOK
      <4>2. candidates' = [ candidates EXCEPT ![c] =
              [ candidates[c] EXCEPT !.status = "APPLIED",
                                     !.applied = request[r].expected + 1 ] ]
        BY <2>5 DEF CommitApply, TypeOK
      <4>3. c \in Candidates =>
              [ candidates[c] EXCEPT !.status = "APPLIED",
                                     !.applied = request[r].expected + 1 ] \in Candidate
        <5>1. request[r].expected + 1 \in Nat
          BY DEF Request
        <5> HIDE DEF c
        <5>2. QED
          BY <4>1, <5>1 DEF Candidate, CandidateStatus
      <4> HIDE DEF c
      <4>4. QED
        BY <4>2, <4>3 DEF TypeOK
    <3>4. QED
      BY <2>5, <3>2, <3>3, FinishTypes DEF CommitApply, TypeOK, RequestsTyped
  <2>6. QED
    BY <1>3, <2>1, <2>2, <2>3, <2>4, <2>5 DEF CommitAny
<1>4. ASSUME NEW r \in Requests, Abort(r)
      PROVE  TypeOK'
  BY <1>4, FinishTypes DEF Abort, TypeOK, RequestsTyped
<1>5. ASSUME NEW c \in Candidates, CompleteGeneration(c) \/ FailGeneration(c)
      PROVE  TypeOK'
  BY <1>5 DEF CompleteGeneration, FailGeneration, TypeOK, Candidate, CandidateStatus
<1>6. ASSUME NEW c \in Candidates, NEW u \in Users, discard(u, c)
      PROVE  TypeOK'
  BY <1>6 DEF discard, TypeOK, Candidate, CandidateStatus
<1>7. CASE UNCHANGED vars
  BY <1>7 DEF vars, TypeOK
<1>8. QED
  BY <1>1, <1>2, <1>3, <1>4, <1>5, <1>6, <1>7 DEF Next

-----------------------------------------------------------------------------
(* The life cycle *)

\* Facts about the edges that the steps below need.
LEMMA Edges ==
  ASSUME NEW s \in ContentEditorialStatus, NEW t \in ContentEditorialStatus,
         canTransitionEditorialStatus(s, t)
  PROVE  /\ s # "ARCHIVED"
         /\ t \in ContentReviewDecision => s = "IN_REVIEW"
BY DEF canTransitionEditorialStatus, ALLOWED_EDITORIAL_TRANSITIONS, ContentReviewDecision,
       ContentEditorialStatus

\* Whatever may be generated for may return to DRAFT.
LEMMA GeneratableToDraft ==
  ASSUME NEW s \in generatableStatuses
  PROVE  /\ s # "ARCHIVED" /\ s # "IN_REVIEW"
         /\ s = "DRAFT" \/ canTransitionEditorialStatus(s, "DRAFT")
BY DEF generatableStatuses, canTransitionEditorialStatus, ALLOWED_EDITORIAL_TRANSITIONS

LEMMA DecisionEdges ==
  ASSUME NEW d \in ContentReviewDecision
  PROVE  canTransitionEditorialStatus("IN_REVIEW", d) /\ d # "IN_REVIEW"
BY DEF ContentReviewDecision, canTransitionEditorialStatus, ALLOWED_EDITORIAL_TRANSITIONS

-----------------------------------------------------------------------------
(* The history *)

\* RevisionHistory without the set of numbers.
LEMMA HistoryForm ==
  ASSUME TypeOK
  PROVE  RevisionHistory <=>
           /\ \A row \in revisions : row.number \in 1 .. item.version
           /\ \A n \in 1 .. item.version : \E row \in revisions : row.number = n
           /\ \A x, y \in revisions : x.number = y.number => x = y
           /\ \A row \in revisions :
                row.number = item.version =>
                  row.status = item.status /\ row.body = item.body
BY DEF RevisionHistory

\* What a row may become in one write on behalf of q.
LawfulWrite(row, q) ==
  /\ row.version = item.version + 1
  /\ item.version > 0 =>
       \E z \in revisions :
         /\ z.number = (IF q.expected > q.loaded THEN q.loaded ELSE item.version)
         /\ z.number <= item.version
         /\ z.status # "ARCHIVED"
         /\ item.status = row.status \/ canTransitionEditorialStatus(z.status, row.status)

\* A request whose version is current is not behind the row it loaded.
LEMMA LoadedIsCurrent ==
  ASSUME TypeOK, NEW r \in Requests, CheckStillGood(request[r]), VersionMatches(r)
  PROVE  /\ request[r].loaded \in Nat /\ request[r].expected \in Nat /\ item.version \in Nat
         /\ request[r].expected = item.version /\ item.version > 0
         /\ request[r].loaded >= 1 /\ request[r].loaded <= item.version
         /\ (IF request[r].expected > request[r].loaded
             THEN request[r].loaded ELSE item.version) = request[r].loaded
BY DEF TypeOK, Item, Request, CheckStillGood, VersionMatches

LEMMA WriteHistory ==
  ASSUME TypeOK, RevisionHistory, LawfulHistory,
         NEW row \in Item, NEW c \in Candidates \cup {NoCandidate}, NEW base \in Nat,
         NEW q \in Request, Write(row, c, base, q), LawfulWrite(row, q), TypeOK'
  PROVE  RevisionHistory' /\ LawfulHistory'
<1> DEFINE new == Snapshot(row, c, base, q)
<1>1. /\ item' = row
      /\ revisions' = revisions \cup { new }
      /\ new.number = row.version /\ new.status = row.status /\ new.body = row.body
      /\ new.checked = q.loaded /\ new.sent = q.expected
  BY DEF Write, Snapshot
<1>2. /\ \A x \in revisions : x.number \in 1 .. item.version
      /\ \A n \in 1 .. item.version : \E x \in revisions : x.number = n
      /\ \A x, y \in revisions : x.number = y.number => x = y
      /\ \A x \in revisions :
           x.number = item.version => x.status = item.status /\ x.body = item.body
  BY HistoryForm
<1>3. item.version \in Nat /\ row.version = item.version + 1
  BY DEF TypeOK, Item, LawfulWrite
<1>4. \A x \in revisions : x.number \in Nat
  BY DEF TypeOK, Revision
<1> HIDE DEF new
<1>5. RevisionHistory'
  <2>1. \A x \in revisions' : x.number \in 1 .. item'.version
    BY <1>1, <1>2, <1>3
  <2>2. \A n \in 1 .. item'.version : \E x \in revisions' : x.number = n
    BY <1>1, <1>2, <1>3
  <2>3. \A x, y \in revisions' : x.number = y.number => x = y
    BY <1>1, <1>2, <1>3
  <2>4. \A x \in revisions' :
          x.number = item'.version => x.status = item'.status /\ x.body = item'.body
    BY <1>1, <1>2, <1>3
  <2>5. QED
    BY <2>1, <2>2, <2>3, <2>4 DEF RevisionHistory
<1>6. LawfulHistory'
  <2> SUFFICES ASSUME NEW x \in revisions', NEW y \in revisions', y.number = x.number + 1
               PROVE  \E z \in revisions' :
                        /\ z.number = StartsFrom(x, y) /\ z.number <= x.number
                        /\ z.status # "ARCHIVED"
                        /\ \/ x.status = y.status
                           \/ canTransitionEditorialStatus(z.status, y.status)
    BY DEF LawfulHistory, StartsFrom, Ahead, canTransitionEditorialStatus
  <2>1. CASE y = new
    <3>1. x \in revisions /\ x.number = item.version /\ x.status = item.status
          /\ item.version > 0
      BY <2>1, <1>1, <1>2, <1>3, <1>4
    <3>2. PICK z \in revisions :
            /\ z.number = (IF q.expected > q.loaded THEN q.loaded ELSE item.version)
            /\ z.number <= item.version
            /\ z.status # "ARCHIVED"
            /\ item.status = row.status \/ canTransitionEditorialStatus(z.status, row.status)
      BY <3>1 DEF LawfulWrite
    <3>3. z.number = StartsFrom(x, y)
      BY <2>1, <3>1, <3>2, <1>1 DEF StartsFrom, Ahead
    <3>4. QED
      BY <2>1, <3>1, <3>2, <3>3, <1>1
  <2>2. CASE y \in revisions
    <3>1. x \in revisions
      BY <2>2, <1>1, <1>2, <1>3, <1>4
    <3>2. QED
      BY <2>2, <3>1, <1>1 DEF LawfulHistory
  <2>3. QED
    BY <2>1, <2>2, <1>1
<1>7. QED
  BY <1>5, <1>6

-----------------------------------------------------------------------------
(* Reviews *)

\* Every review is of a revision that already has a successor.
LEMMA ReviewsBehind ==
  ASSUME TypeOK, RevisionHistory, ReviewBinding
  PROVE  \A v \in reviews : v.revision \in Nat /\ v.revision < item.version
BY HistoryForm DEF ReviewBinding, TypeOK, Item, Review

\* A write that decides nothing keeps what is known of the reviews.
LEMMA UndecidedWrite ==
  ASSUME TypeOK, RevisionHistory, ReviewBinding, OnlyReviewsDecide,
         NEW row \in Item, NEW c \in Candidates \cup {NoCandidate}, NEW base \in Nat,
         NEW q, Write(row, c, base, q), row.version = item.version + 1, reviews' = reviews,
         item.version > 0 => row.status = item.status \/ row.status \notin ContentReviewDecision
  PROVE  ReviewBinding' /\ OnlyReviewsDecide'
<1> DEFINE new == Snapshot(row, c, base, q)
<1>1. /\ revisions' = revisions \cup { new }
      /\ new.number = item.version + 1 /\ new.status = row.status
  BY DEF Write, Snapshot
<1>2. /\ \A x \in revisions : x.number \in 1 .. item.version
      /\ \A x \in revisions : x.number = item.version => x.status = item.status
      /\ item.version \in Nat
  BY HistoryForm DEF TypeOK, Item
<1> HIDE DEF new
<1>3. ReviewBinding'
  BY <1>1 DEF ReviewBinding
<1>4. OnlyReviewsDecide'
  <2> SUFFICES ASSUME NEW x \in revisions', NEW y \in revisions', y.number = x.number + 1,
                      x.status # y.status, y.status \in ContentReviewDecision
               PROVE  \E v \in reviews :
                        /\ v.revision = x.number /\ v.decision = y.status
                        /\ \A w \in reviews : w.revision = x.number => w = v
    BY DEF OnlyReviewsDecide
  <2>1. x \in revisions /\ y \in revisions
    BY <1>1, <1>2
  <2>2. QED
    BY <2>1 DEF OnlyReviewsDecide
<1>5. QED
  BY <1>3, <1>4

\* An item is approved by a review or by what it was already; beyond approval leads only
\* what was approved or beyond.
LEMMA ReadyAfterWrite ==
  ASSUME TypeOK, RevisionHistory, ReadyWasApproved,
         NEW row \in Item, NEW c, NEW base, NEW q,
         Write(row, c, base, q), LawfulWrite(row, q), reviews \subseteq reviews',
         row.status \in approvedStatuses =>
           \/ item.version > 0 /\ (row.status = item.status \/ row.status # "APPROVED")
           \/ \E v \in reviews' : v.decision = "APPROVED"
  PROVE  ReadyWasApproved'
<1> DEFINE new == Snapshot(row, c, base, q)
<1>1. revisions' = revisions \cup { new } /\ new.status = row.status
  BY DEF Write, Snapshot
<1> HIDE DEF new
<1>2. CASE row.status \notin approvedStatuses
  BY <1>1, <1>2 DEF ReadyWasApproved
<1>3. CASE \E v \in reviews' : v.decision = "APPROVED"
  BY <1>3 DEF ReadyWasApproved
<1>4. CASE /\ row.status \in approvedStatuses
           /\ item.version > 0 /\ (row.status = item.status \/ row.status # "APPROVED")
  <2>1. \E z \in revisions : z.status \in approvedStatuses
    <3>1. CASE row.status = item.status
      <4>1. \E z \in revisions : z.number = item.version /\ z.status = item.status
        BY <1>4, HistoryForm DEF TypeOK, Item
      <4>2. QED
        BY <1>4, <3>1, <4>1
    <3>2. CASE row.status # item.status /\ row.status # "APPROVED"
      BY <1>4, <3>2 DEF LawfulWrite, approvedStatuses, canTransitionEditorialStatus,
         ALLOWED_EDITORIAL_TRANSITIONS
    <3>3. QED
      BY <1>4, <3>1, <3>2
  <2>2. QED
    BY <2>1 DEF ReadyWasApproved
<1>5. QED
  BY <1>2, <1>3, <1>4

\* A decision adds the one review of the revision that stood in review.
LEMMA DecidedWrite ==
  ASSUME TypeOK, RevisionHistory, ReviewBinding, OnlyReviewsDecide,
         NEW r \in Requests, CommitReview(r)
  PROVE  ReviewBinding' /\ OnlyReviewsDecide'
<1> DEFINE row == [ item EXCEPT !.version = @ + 1, !.status = request[r].next ]
           new == Snapshot(row, NoCandidate, 0, request[r])
           v == ReviewRow(r)
<1>1. /\ revisions' = revisions \cup { new }
      /\ reviews' = reviews \cup { v }
      /\ item.status = "IN_REVIEW"
      /\ v.revision = item.version
  BY DEF CommitReview, Write, ReviewRow, VersionMatches
<1>2. new.number = item.version + 1 /\ new.status = v.decision /\ new.body = item.body
  BY DEF Snapshot, ReviewRow, TypeOK, Item
<1>3. /\ \A x \in revisions : x.number \in 1 .. item.version
      /\ \A x \in revisions :
           x.number = item.version => x.status = item.status /\ x.body = item.body
      /\ \A n \in 1 .. item.version : \E x \in revisions : x.number = n
      /\ item.version \in Nat
  BY HistoryForm DEF TypeOK, Item
<1>4. item.version \in 1 .. item.version
  BY <1>3 DEF CommitReview, VersionMatches
<1> HIDE DEF new, v
<1>5. PICK last \in revisions : last.number = item.version
  BY <1>3, <1>4
<1>6. ReviewBinding'
  BY <1>1, <1>2, <1>3, <1>5 DEF ReviewBinding
<1>7. OnlyReviewsDecide'
  <2> SUFFICES ASSUME NEW x \in revisions', NEW y \in revisions', y.number = x.number + 1,
                      x.status # y.status, y.status \in ContentReviewDecision
               PROVE  \E u \in reviews' :
                        /\ u.revision = x.number /\ u.decision = y.status
                        /\ \A w \in reviews' : w.revision = x.number => w = u
    BY DEF OnlyReviewsDecide
  <2>1. \A w \in reviews : w.revision \in Nat /\ w.revision < item.version
    BY ReviewsBehind
  <2>2. CASE y = new
    BY <2>1, <2>2, <1>1, <1>2, <1>3
  <2>3. CASE y \in revisions
    <3>1. x \in revisions /\ x.number < item.version
      BY <2>3, <1>1, <1>2, <1>3
    <3>2. QED
      BY <2>3, <3>1, <1>1, <1>3 DEF OnlyReviewsDecide
  <2>4. QED
    BY <2>2, <2>3, <1>1
<1>8. QED
  BY <1>6, <1>7

-----------------------------------------------------------------------------
(* Machine drafts *)

\* Nothing but an apply creates a machine revision.
LEMMA ManualWrite ==
  ASSUME TypeOK, CandidateProvenance, CandidateSound, candidates' = candidates,
         NEW row, NEW base, NEW q, Write(row, NoCandidate, base, q)
  PROVE  CandidateProvenance' /\ CandidateSound'
<1>1. revisions' = revisions \cup { Snapshot(row, NoCandidate, base, q) }
  BY DEF Write
<1>2. Snapshot(row, NoCandidate, base, q).candidate = NoCandidate
  BY DEF Snapshot
<1>3. CandidateSound'
  BY <1>1 DEF CandidateSound
<1>4. CandidateProvenance'
  BY <1>1, <1>2, EditorialAssumption DEF CandidateProvenance
<1>5. QED
  BY <1>3, <1>4

\* Steps that leave the history alone may move a candidate between states other than
\* APPLIED, once its base is known to have been generatable.
LEMMA CandidateMove ==
  ASSUME TypeOK, CandidateProvenance, CandidateSound, revisions' = revisions,
         NEW c \in Candidates, NEW d \in Candidate,
         candidates' = [ candidates EXCEPT ![c] = d ],
         candidates[c].status # "APPLIED", d.status # "APPLIED",
         \E row \in revisions : row.number = d.base /\ row.status \in generatableStatuses
  PROVE  CandidateProvenance' /\ CandidateSound'
<1>1. \A e \in Candidates : candidates'[e] = IF e = c THEN d ELSE candidates[e]
  BY DEF TypeOK
<1>2. CandidateSound'
  BY <1>1 DEF CandidateSound
<1>3. \A row \in revisions : row.candidate # c
  BY DEF CandidateProvenance
<1>4. \A row \in revisions : row.candidate \in Candidates \cup {NoCandidate}
  BY DEF TypeOK, Revision
<1>5. CandidateProvenance'
  <2>1. \A e \in Candidates :
          candidates'[e].status = "APPLIED" <=> \E row \in revisions' : row.candidate = e
    BY <1>1, <1>3 DEF CandidateProvenance
  <2>2. \A row \in revisions' :
          row.candidate # NoCandidate =>
            /\ row.number = candidates'[row.candidate].applied
            /\ row.base = candidates'[row.candidate].base
            /\ row.number = row.base + 1
            /\ row.status = "DRAFT"
    BY <1>1, <1>3, <1>4 DEF CandidateProvenance
  <2>3. QED
    BY <2>1, <2>2 DEF CandidateProvenance
<1>6. QED
  BY <1>2, <1>5

\* An apply adds the candidate's one revision.
LEMMA ApplyWrite ==
  ASSUME TypeOK, CandidateProvenance, CandidateSound, RequestSound,
         NEW r \in Requests, CommitApply(r)
  PROVE  CandidateProvenance' /\ CandidateSound'
<1> DEFINE c == request[r].candidate
           new == Snapshot([ item EXCEPT !.version = item.version + 1, !.status = "DRAFT",
                                         !.body = item.version + 1 ],
                           c, request[r].expected, request[r])
<1>1. /\ c \in Candidates
      /\ request[r].expected = candidates[c].base
      /\ request[r].expected = item.version
      /\ candidates[c].status = "READY"
  BY DEF RequestSound, CheckStillGood, CommitApply, VersionMatches
<1>2. revisions' = revisions \cup { new }
  BY DEF CommitApply, Write
<1>3. /\ new.candidate = c /\ new.number = item.version + 1 /\ new.status = "DRAFT"
      /\ new.base = item.version
  BY <1>1 DEF Snapshot, TypeOK, Item
<1>4. /\ \A e \in Candidates : e # c => candidates'[e] = candidates[e]
      /\ candidates'[c].status = "APPLIED"
      /\ candidates'[c].applied = item.version + 1
      /\ candidates'[c].base = candidates[c].base
  BY <1>1 DEF CommitApply, TypeOK, Candidate
<1>5. \A row \in revisions : row.candidate \in Candidates \cup {NoCandidate}
  BY DEF TypeOK, Revision
<1> HIDE DEF c, new
<1>6. \A row \in revisions : row.candidate # c
  BY <1>1 DEF CandidateProvenance
<1>7. CandidateSound'
  BY <1>1, <1>2, <1>4 DEF CandidateSound
<1>8. CandidateProvenance'
  <2>1. \A e \in Candidates :
          candidates'[e].status = "APPLIED" <=> \E row \in revisions' : row.candidate = e
    BY <1>1, <1>2, <1>3, <1>4, <1>6 DEF CandidateProvenance
  <2>2. ASSUME NEW row \in revisions', row.candidate # NoCandidate
        PROVE  /\ row.number = candidates'[row.candidate].applied
               /\ row.base = candidates'[row.candidate].base
               /\ row.number = row.base + 1
               /\ row.status = "DRAFT"
    <3>1. CASE row = new
      BY <3>1, <1>1, <1>3, <1>4
    <3>2. CASE row \in revisions
      BY <3>2, <2>2, <1>4, <1>5, <1>6 DEF CandidateProvenance
    <3>3. QED
      BY <3>1, <3>2, <1>2
  <2>3. QED
    BY <2>1, <2>2 DEF CandidateProvenance
<1>9. QED
  BY <1>7, <1>8

-----------------------------------------------------------------------------
(* Requests in flight *)

\* A write leaves the revision that another request was checked on; only a version ahead
\* of that revision can be the new one.
LEMMA SoundAfterWrite ==
  ASSUME TypeOK, RequestSound, item'.version = item.version + 1,
         revisions \subseteq revisions',
         \A c \in Candidates : candidates[c].status # "NONE" =>
            candidates'[c].status # "NONE" /\ candidates'[c].base = candidates[c].base,
         \A r \in Requests : request'[r] = request[r] \/ request'[r] = NoRequest
  PROVE  RequestSound'
<1> SUFFICES ASSUME NEW r \in Requests, request'[r].op # "idle"
             PROVE  CheckStillGood(request[r])' /\ request'[r] = request[r]
  BY DEF RequestSound, CheckStillGood
<1>1. request'[r] = request[r] /\ CheckStillGood(request[r])
  BY DEF NoRequest, RequestSound
<1>2. /\ item.version \in Nat /\ request[r].loaded \in 1 .. item.version
      /\ request[r].expected \in Nat
  BY <1>1 DEF CheckStillGood, TypeOK, Item, Request
<1>3. /\ request[r].loaded \in 1 .. item'.version
      /\ ~ (request[r].expected = item'.version /\ request[r].expected <= request[r].loaded)
  BY <1>2
<1>4. QED
  BY <1>1, <1>3 DEF CheckStillGood

\* Without a write, a request keeps its checks, and a new one brings its own.
LEMMA SoundWithoutWrite ==
  ASSUME TypeOK, RequestSound, item' = item, revisions' = revisions,
         \A c \in Candidates : candidates[c].status # "NONE" =>
            candidates'[c].status # "NONE" /\ candidates'[c].base = candidates[c].base,
         \A r \in Requests :
            \/ request'[r] = request[r]
            \/ request'[r] = NoRequest
            \/ candidates' = candidates /\ CheckStillGood(request'[r])
  PROVE  RequestSound'
<1> SUFFICES ASSUME NEW r \in Requests, request'[r].op # "idle"
             PROVE  CheckStillGood(request[r])'
  BY DEF RequestSound, CheckStillGood
<1>1. CASE request'[r] = request[r]
  BY <1>1 DEF RequestSound, CheckStillGood
<1>2. CASE candidates' = candidates /\ CheckStillGood(request'[r])
  BY <1>2 DEF CheckStillGood
<1>3. QED
  BY <1>1, <1>2 DEF NoRequest

\* A handler that starts writes nothing.
LEMMA BeginWritesNothing ==
  ASSUME NEW r \in Requests, NEW u \in Users, BeginAny(r, u)
  PROVE  UNCHANGED <<item, revisions, reviews, candidates>>
<1>1. \A sent \in SentVersions, fields \in UpdateFields : \A a :
        BeginUpdate(r, u, sent, fields, a) => UNCHANGED <<item, revisions, reviews, candidates>>
  BY DEF BeginUpdate
<1>2. \A sent \in SentVersions, next \in ContentEditorialStatus :
        BeginTransition(r, u, sent, next) => UNCHANGED <<item, revisions, reviews, candidates>>
  BY DEF BeginTransition
<1>3. \A sent \in SentVersions :
        BeginArchive(r, u, sent) => UNCHANGED <<item, revisions, reviews, candidates>>
  BY DEF BeginArchive
<1>4. \A sent \in SentVersions, decision \in ContentReviewDecision :
        decide(r, u, decision, sent) => UNCHANGED <<item, revisions, reviews, candidates>>
  BY DEF decide, BeginReview
<1>5. \A sent \in SentVersions, c \in Candidates :
        BeginGenerate(r, u, c, sent) => UNCHANGED <<item, revisions, reviews, candidates>>
  BY DEF BeginGenerate
<1>6. \A c \in Candidates :
        BeginApply(r, u, c) => UNCHANGED <<item, revisions, reviews, candidates>>
  BY DEF BeginApply
<1>7. QED
  BY <1>1, <1>2, <1>3, <1>4, <1>5, <1>6 DEF BeginAny

\* What a handler has checked is good at the moment it starts.
LEMMA StartSound ==
  ASSUME TypeOK, RevisionHistory, NEW r \in Requests, NEW u \in Users, BeginAny(r, u)
  PROVE  CheckStillGood(request'[r])
<1>1. \A v \in SentVersions : v \in Nat /\ v > 0
  BY SentVersionTypes
<1>2. /\ item.version \in Nat
      /\ \A q : Start(r, q) => request'[r] = [ q EXCEPT !.loaded = item.version ]
  BY DEF TypeOK, Item, Start
<1>3. RoleOf[u] = "WRITER" =>
        /\ ~ Can(u, "contents.ai.generate") /\ ~ Can(u, "contents.ai.apply")
        /\ ~ Can(u, "contents.archive")
        /\ ~ Can(u, "contents.reviews.approve")
        /\ ~ Can(u, "contents.reviews.requestChanges")
  BY DEF Can, ROLE_PERMISSIONS, Roles
<1>4. item.version > 0 =>
        \E row \in revisions : row.number = item.version /\ row.status = item.status
  BY <1>2, HistoryForm
<1>5. ASSUME NEW sent \in SentVersions, NEW fields \in UpdateFields, NEW a,
             BeginUpdate(r, u, sent, fields, a)
      PROVE  CheckStillGood(request'[r])
  <2> DEFINE q == [ [ NoRequest EXCEPT !.op = "update", !.user = u, !.expected = sent,
                                       !.fields = fields, !.assignee = a ]
                    EXCEPT !.loaded = item.version ]
  <2>1. q.op = "update" /\ q.user = u /\ q.expected = sent /\ q.loaded = item.version
    BY DEF NoRequest
  <2>2. request'[r] = q /\ item.status # "ARCHIVED" /\ item.version > 0
    BY <1>2, <1>5 DEF BeginUpdate
  <2>3. RoleOf[u] = "WRITER" =>
          item.status \in writerEditableStatuses /\ u \in { item.creator, item.assignee }
    BY <1>5 DEF BeginUpdate, assertWriterCanEdit
  <2> HIDE DEF q
  <2>4. QED
    BY <1>1, <1>2, <1>4, <2>1, <2>2, <2>3 DEF CheckStillGood
<1>6. ASSUME NEW sent \in SentVersions, NEW next \in ContentEditorialStatus,
             BeginTransition(r, u, sent, next)
      PROVE  CheckStillGood(request'[r])
  <2> DEFINE q == [ [ NoRequest EXCEPT !.op = "move", !.user = u,
                                       !.expected = sent, !.next = next ]
                    EXCEPT !.loaded = item.version ]
  <2>1. q.op = "move" /\ q.user = u /\ q.expected = sent /\ q.loaded = item.version
        /\ q.next = next
    BY DEF NoRequest
  <2>2. request'[r] = q /\ item.version > 0 /\ canTransitionEditorialStatus(item.status, next)
    BY <1>2, <1>6 DEF BeginTransition
  <2>3. item.status = "IN_REVIEW" => next = "ARCHIVED"
    BY <1>6 DEF BeginTransition, canTransitionEditorialStatus, ALLOWED_EDITORIAL_TRANSITIONS,
       ContentReviewDecision
  <2>4. RoleOf[u] = "WRITER" =>
          item.status \in writerEditableStatuses /\ u \in { item.creator, item.assignee }
    BY <1>6 DEF BeginTransition, assertWriterCanEdit
  <2> HIDE DEF q
  <2>5. QED
    BY <1>1, <1>2, <1>4, <2>1, <2>2, <2>3, <2>4 DEF CheckStillGood
<1>7. ASSUME NEW sent \in SentVersions, BeginArchive(r, u, sent)
      PROVE  CheckStillGood(request'[r])
  <2> DEFINE q == [ [ NoRequest EXCEPT !.op = "move", !.user = u,
                                       !.expected = sent, !.next = "ARCHIVED" ]
                    EXCEPT !.loaded = item.version ]
  <2>1. q.op = "move" /\ q.user = u /\ q.expected = sent /\ q.loaded = item.version
        /\ q.next = "ARCHIVED"
    BY DEF NoRequest
  <2>2. /\ request'[r] = q /\ item.version > 0
        /\ canTransitionEditorialStatus(item.status, "ARCHIVED") /\ RoleOf[u] # "WRITER"
    BY <1>2, <1>3, <1>7 DEF BeginArchive
  <2> HIDE DEF q
  <2>3. QED
    BY <1>1, <1>2, <1>4, <2>1, <2>2 DEF CheckStillGood
<1>8. ASSUME NEW sent \in SentVersions, NEW decision \in ContentReviewDecision,
             decide(r, u, decision, sent)
      PROVE  CheckStillGood(request'[r])
  <2> DEFINE q == [ [ NoRequest EXCEPT !.op = "review", !.user = u,
                                       !.expected = sent, !.next = decision ]
                    EXCEPT !.loaded = item.version ]
  <2>1. q.op = "review" /\ q.user = u /\ q.expected = sent /\ q.loaded = item.version
    BY DEF NoRequest
  <2>2. request'[r] = q /\ item.version > 0 /\ item.version = sent /\ RoleOf[u] # "WRITER"
    BY <1>2, <1>3, <1>8 DEF decide, BeginReview
  <2> HIDE DEF q
  <2>3. QED
    BY <1>1, <1>2, <1>4, <2>1, <2>2 DEF CheckStillGood
<1>9. ASSUME NEW sent \in SentVersions, NEW c \in Candidates,
             BeginGenerate(r, u, c, sent)
      PROVE  CheckStillGood(request'[r])
  <2> DEFINE q == [ [ NoRequest EXCEPT !.op = "generate", !.user = u,
                                       !.expected = sent, !.candidate = c ]
                    EXCEPT !.loaded = item.version ]
  <2>1. q.op = "generate" /\ q.user = u /\ q.expected = sent /\ q.loaded = item.version
        /\ q.candidate = c
    BY DEF NoRequest
  <2>2. /\ request'[r] = q /\ item.version > 0 /\ item.version = sent
        /\ RoleOf[u] # "WRITER" /\ item.status \in generatableStatuses
    BY <1>2, <1>3, <1>9 DEF BeginGenerate, Generatable
  <2> HIDE DEF q
  <2>3. QED
    BY <1>1, <1>2, <1>4, <2>1, <2>2 DEF CheckStillGood
<1>10. ASSUME NEW c \in Candidates, BeginApply(r, u, c)
       PROVE  CheckStillGood(request'[r])
  <2> DEFINE q == [ [ NoRequest EXCEPT !.op = "apply", !.user = u,
                                       !.expected = candidates[c].base, !.candidate = c ]
                    EXCEPT !.loaded = item.version ]
  <2>1. /\ q.op = "apply" /\ q.user = u /\ q.expected = item.version
        /\ q.loaded = item.version /\ q.candidate = c
    BY <1>10 DEF BeginApply, NoRequest
  <2>2. request'[r] = q /\ item.version > 0 /\ RoleOf[u] # "WRITER"
    BY <1>10, <1>2, <1>3 DEF BeginApply
  <2>3. candidates[c].status = "READY" /\ item.version = candidates[c].base
    BY <1>10 DEF BeginApply
  <2> HIDE DEF q
  <2>4. QED
    BY <1>2, <1>4, <2>1, <2>2, <2>3 DEF CheckStillGood
<1>11. QED
  BY <1>5, <1>6, <1>7, <1>8, <1>9, <1>10 DEF BeginAny

-----------------------------------------------------------------------------
(* The inductive invariant *)

IInv ==
  /\ TypeOK
  /\ RevisionHistory /\ LawfulHistory
  /\ ReviewBinding /\ OnlyReviewsDecide /\ ReadyWasApproved
  /\ CandidateProvenance /\ CandidateSound
  /\ RequestSound

LEMMA IInvInit == Init => IInv
<1> SUFFICES ASSUME Init PROVE IInv
  OBVIOUS
<1>1. TypeOK
  BY RequestTypes DEF Init, TypeOK, Item, Candidate, CandidateStatus, ContentEditorialStatus,
     NoRequest
<1>2. RevisionHistory
  BY <1>1, HistoryForm DEF Init
<1>3. QED
  BY <1>1, <1>2 DEF Init, IInv, LawfulHistory, ReviewBinding, OnlyReviewsDecide,
     ReadyWasApproved, CandidateProvenance, CandidateSound, RequestSound, NoRequest

\* Steps that write neither the item nor a candidate.
LEMMA IInvQuiet ==
  ASSUME IInv, TypeOK', UNCHANGED <<item, revisions, reviews, candidates>>,
         \A r \in Requests :
            \/ request'[r] = request[r]
            \/ request'[r] = NoRequest
            \/ CheckStillGood(request'[r])
  PROVE  IInv'
<1>1. RequestSound'
  BY SoundWithoutWrite DEF IInv
<1>2. QED
  BY <1>1 DEF IInv, RevisionHistory, LawfulHistory, ReviewBinding, OnlyReviewsDecide,
     ReadyWasApproved, CandidateProvenance, CandidateSound, StartsFrom, Ahead

\* Steps that move one candidate and leave the item alone.
LEMMA IInvCandidate ==
  ASSUME IInv, TypeOK', UNCHANGED <<item, revisions, reviews>>,
         NEW c \in Candidates, NEW d \in Candidate,
         candidates' = [ candidates EXCEPT ![c] = d ],
         candidates[c].status # "APPLIED", d.status \notin { "APPLIED", "NONE" },
         candidates[c].status # "NONE" => d.base = candidates[c].base,
         \E row \in revisions : row.number = d.base /\ row.status \in generatableStatuses,
         \A r \in Requests : request'[r] = request[r] \/ request'[r] = NoRequest
  PROVE  IInv'
<1>1. CandidateProvenance' /\ CandidateSound'
  BY CandidateMove DEF IInv
<1>2. \A e \in Candidates : candidates'[e] = IF e = c THEN d ELSE candidates[e]
  BY DEF IInv, TypeOK
<1>3. RequestSound'
  BY <1>2, SoundWithoutWrite DEF IInv
<1>4. QED
  BY <1>1, <1>3 DEF IInv, RevisionHistory, LawfulHistory, ReviewBinding, OnlyReviewsDecide,
     ReadyWasApproved, StartsFrom, Ahead

LEMMA FinishOthers ==
  ASSUME TypeOK, NEW r \in Requests, Finish(r)
  PROVE  \A q \in Requests : request'[q] = request[q] \/ request'[q] = NoRequest
BY DEF TypeOK, Finish

\* Manual writes: creation, edits and moves outside review.
LEMMA IInvManualWrite ==
  ASSUME IInv, TypeOK', NEW row \in Item, NEW q \in Request,
         Write(row, NoCandidate, 0, q), LawfulWrite(row, q),
         item.version > 0 => row.status = item.status \/ row.status \notin ContentReviewDecision,
         item.version = 0 => row.status \notin approvedStatuses,
         UNCHANGED <<reviews, candidates>>,
         \A r \in Requests : request'[r] = request[r] \/ request'[r] = NoRequest
  PROVE  IInv'
<1>1. RevisionHistory' /\ LawfulHistory'
  BY WriteHistory DEF IInv
<1>2. ReviewBinding' /\ OnlyReviewsDecide'
  BY UndecidedWrite DEF IInv, LawfulWrite
<1>3. ReadyWasApproved'
  BY ReadyAfterWrite DEF IInv, ContentReviewDecision, TypeOK, Item
<1>4. CandidateProvenance' /\ CandidateSound'
  BY ManualWrite DEF IInv
<1>5. RequestSound'
  BY SoundAfterWrite DEF IInv, Write, LawfulWrite
<1>6. QED
  BY <1>1, <1>2, <1>3, <1>4, <1>5 DEF IInv

\* The rows that moves, decisions and applied drafts write are well typed.
LEMMA WrittenRows ==
  ASSUME item \in Item, NEW s \in ContentEditorialStatus, NEW b \in Nat
  PROVE  /\ [ item EXCEPT !.version = @ + 1, !.status = s ] \in Item
         /\ [ item EXCEPT !.version = item.version + 1, !.status = s, !.body = b ] \in Item
<1>1. item.version + 1 \in Nat
  BY DEF Item
<1>2. QED
  BY <1>1 DEF Item

LEMMA IInvStep == IInv /\ [Next]_vars => IInv'
<1> SUFFICES ASSUME IInv, [Next]_vars PROVE IInv'
  OBVIOUS
<1>0. TypeOK /\ TypeOK' /\ item \in Item /\ item.version \in Nat
  BY TypeStep DEF IInv, TypeOK, Item
<1>1. ASSUME NEW u \in Users, NEW initial \in { "IDEA", "DRAFT" },
             NEW a \in Assignees, create(u, initial, a)
      PROVE  IInv'
  <2> DEFINE row == [ version |-> 1, status |-> initial, body |-> 1,
                      creator |-> u, assignee |-> a ]
  <2>1. row \in Item /\ LawfulWrite(row, NoRequest) /\ row.status \notin approvedStatuses
    BY <1>1 DEF Item, Assignees, ContentEditorialStatus, LawfulWrite, create, approvedStatuses
  <2>2. item.version = 0 /\ Write(row, NoCandidate, 0, NoRequest)
        /\ UNCHANGED <<reviews, candidates, request>>
    BY <1>1 DEF create
  <2> HIDE DEF row
  <2>3. QED
    BY <1>0, <2>1, <2>2, RequestTypes, IInvManualWrite
<1>2. ASSUME NEW r \in Requests, NEW u \in Users, BeginAny(r, u)
      PROVE  IInv'
  <2>1. UNCHANGED <<item, revisions, reviews, candidates>>
    BY <1>2, BeginWritesNothing
  <2>2. \A q \in Requests : q # r => request'[q] = request[q]
    BY <1>0, <1>2 DEF BeginAny, BeginUpdate, BeginTransition, BeginArchive, decide, BeginReview,
       BeginGenerate, BeginApply, Start, TypeOK
  <2>3. CheckStillGood(request'[r])
    BY <1>0, <1>2, StartSound DEF IInv
  <2>4. QED
    BY <1>0, <2>1, <2>2, <2>3, IInvQuiet
<1>3. ASSUME NEW r \in Requests, CommitAny(r)
      PROVE  IInv'
  <2>1. CheckStillGood(request[r]) /\ request[r] \in Request
    BY <1>3 DEF IInv, RequestSound, TypeOK, CommitAny, CommitUpdate, CommitMove, CommitReview,
       InsertCandidate, CommitApply
  <2>2. Finish(r)
    BY <1>3 DEF CommitAny, CommitUpdate, CommitMove, CommitReview, InsertCandidate, CommitApply
  <2>3. \A q \in Requests : request'[q] = request[q] \/ request'[q] = NoRequest
    BY <1>0, <2>2, FinishOthers
  <2>4. CASE CommitUpdate(r)
    <3>1. PICK row \in Item :
            Write(row, NoCandidate, 0, request[r]) /\ row.version = item.version + 1
                                      /\ row.status = item.status
      <4> DEFINE new == item.version + 1
                 b == IF request[r].fields \cap { "general", "seo" } # {}
                      THEN new ELSE item.body
                 a == IF "assignment" \in request[r].fields
                      THEN request[r].assignee ELSE item.assignee
                 row == [ item EXCEPT !.version = new, !.body = b, !.assignee = a ]
      <4>1. row \in Item /\ row.version = item.version + 1 /\ row.status = item.status
        <5>1. row \in Item
          <6>1. new \in Nat /\ b \in Nat /\ a \in Users \cup {NoUser} /\ item \in Item
            <7>1. request[r].assignee \in Users \cup {NoUser}
              BY <2>1 DEF Request
            <7>2. item.version + 1 \in Nat /\ item.body \in Nat
                  /\ item.assignee \in Users \cup {NoUser}
              BY <1>0 DEF Item
            <7>3. QED
              BY <1>0, <7>1, <7>2
          <6> HIDE DEF a, b, new
          <6>2. QED
            BY <6>1 DEF Item
        <5>2. row.version = item.version + 1 /\ row.status = item.status
          BY <1>0 DEF Item
        <5>3. QED
          BY <5>1, <5>2
      <4>2. Write(row, NoCandidate, 0, request[r])
        BY <2>4 DEF CommitUpdate
      <4>3. QED
        BY <4>1, <4>2
    <3>2. LawfulWrite(row, request[r]) /\ item.version > 0
      BY <1>0, <2>1, <2>4, <3>1, LoadedIsCurrent DEF CheckStillGood, CommitUpdate, LawfulWrite
    <3>3. QED
      BY <1>0, <2>1, <2>3, <2>4, <3>1, <3>2, IInvManualWrite DEF CommitUpdate
  <2>5. CASE CommitMove(r)
    <3> DEFINE row == [ item EXCEPT !.version = @ + 1, !.status = request[r].next ]
    <3>1. row \in Item /\ row.version = item.version + 1 /\ row.status = request[r].next
      <4>1. row \in Item
        BY <1>0, <2>1, WrittenRows DEF Request
      <4>2. row.version = item.version + 1 /\ row.status = request[r].next
        BY <1>0 DEF Item
      <4>3. QED
        BY <4>1, <4>2
    <3>2. PICK z \in revisions :
            /\ z.number = request[r].loaded
            /\ canTransitionEditorialStatus(z.status, request[r].next)
            /\ z.status = "IN_REVIEW" => request[r].next = "ARCHIVED"
      BY <2>1, <2>5 DEF CheckStillGood, CommitMove
    <3>3. z.status # "ARCHIVED" /\ request[r].next \notin ContentReviewDecision
      BY <1>0, <2>1, <3>2, Edges DEF TypeOK, Revision, Request, ContentReviewDecision
    <3>4. Write(row, NoCandidate, 0, request[r])
      BY <2>5 DEF CommitMove
    <3> HIDE DEF row
    <3>5. LawfulWrite(row, request[r]) /\ item.version > 0
      BY <1>0, <2>1, <2>5, <3>1, <3>2, <3>3, LoadedIsCurrent DEF CommitMove, LawfulWrite
    <3>6. QED
      BY <1>0, <2>1, <2>3, <2>5, <3>1, <3>3, <3>4, <3>5, IInvManualWrite DEF CommitMove
  <2>6. CASE CommitReview(r)
    <3> DEFINE row == [ item EXCEPT !.version = @ + 1, !.status = request[r].next ]
    <3>1. row \in Item /\ row.version = item.version + 1 /\ row.status = request[r].next
      <4>1. row \in Item
        BY <1>0, <2>1, WrittenRows DEF Request
      <4>2. row.version = item.version + 1 /\ row.status = request[r].next
        BY <1>0 DEF Item
      <4>3. QED
        BY <4>1, <4>2
    <3>2. Write(row, NoCandidate, 0, request[r])
      BY <2>6 DEF CommitReview
    <3> HIDE DEF row
    <3>3. LawfulWrite(row, request[r]) /\ item.version > 0
      <4>1. request[r].expected = request[r].loaded
            /\ request[r].next \in ContentReviewDecision
        BY <1>0, <2>1, <2>6 DEF CheckStillGood, CommitReview, TypeOK
      <4>2. item.version > 0 /\ item.version = request[r].loaded
        BY <1>0, <2>1, <2>6, <4>1, LoadedIsCurrent DEF CommitReview
      <4>3. \E z \in revisions : z.number = item.version /\ z.status = item.status
        BY <1>0, <4>2, HistoryForm DEF IInv
      <4>4. QED
        BY <1>0, <2>6, <3>1, <4>1, <4>2, <4>3, DecisionEdges DEF LawfulWrite, CommitReview
    <3>4. RevisionHistory' /\ LawfulHistory'
      BY <1>0, <2>1, <3>1, <3>2, <3>3, WriteHistory DEF IInv
    <3>10. ReadyWasApproved'
      <4>1. reviews' = reviews \cup { ReviewRow(r) } /\ ReviewRow(r).decision = row.status
        BY <2>6, <3>1 DEF CommitReview, ReviewRow
      <4>2. QED
        BY <1>0, <3>1, <3>2, <3>3, <4>1, ReadyAfterWrite DEF IInv
    <3>5. ReviewBinding' /\ OnlyReviewsDecide'
      BY <2>6, DecidedWrite DEF IInv
    <3>6. CandidateProvenance' /\ CandidateSound'
      BY <2>6, <3>2, ManualWrite DEF IInv, CommitReview
    <3>7. RequestSound'
      BY <2>3, <2>6, <3>1, <3>2, SoundAfterWrite DEF IInv, CommitReview, Write
    <3>8. QED
      BY <1>0, <3>4, <3>5, <3>6, <3>7, <3>10 DEF IInv
  <2>7. CASE InsertCandidate(r)
    <3> DEFINE d == [ status |-> "PENDING", base |-> request[r].expected, applied |-> 0 ]
    <3>1. d \in Candidate
      BY <2>1 DEF Candidate, CandidateStatus, Request
    <3>2. /\ request[r].candidate \in Candidates
          /\ \E row \in revisions :
               row.number = d.base /\ row.status \in generatableStatuses
      BY <2>1, <2>7 DEF CheckStillGood, InsertCandidate
    <3>3. QED
      BY <1>0, <2>3, <2>7, <3>1, <3>2, IInvCandidate DEF InsertCandidate
  <2>8. CASE CommitApply(r)
    <3> DEFINE c == request[r].candidate
               row == [ item EXCEPT !.version = item.version + 1, !.status = "DRAFT",
                                    !.body = item.version + 1 ]
    <3>1. row \in Item /\ row.version = item.version + 1 /\ row.status = "DRAFT"
      <4>1. row \in Item
        <5>1. item.version + 1 \in Nat /\ "DRAFT" \in ContentEditorialStatus
          BY <1>0 DEF ContentEditorialStatus
        <5>2. QED
          BY <1>0, <5>1, WrittenRows
      <4>2. row.version = item.version + 1 /\ row.status = "DRAFT"
        BY <1>0 DEF Item
      <4>3. QED
        BY <4>1, <4>2
    <3>2. /\ c \in Candidates /\ candidates[c].status = "READY"
          /\ request[r].expected = item.version /\ item.version = candidates[c].base
          /\ item.version \in Nat /\ item.version > 0 /\ request[r].loaded = item.version
      BY <1>0, <2>1, <2>8, LoadedIsCurrent DEF CheckStillGood, CommitApply, VersionMatches
    <3>3. Write(row, c, request[r].expected, request[r])
      BY <2>8 DEF CommitApply
    <3>4. /\ item.status \in generatableStatuses
          /\ \E z \in revisions : z.number = item.version /\ z.status = item.status
      BY <1>0, <3>2, HistoryForm DEF IInv, CandidateSound
    <3>5. \A e \in Candidates : candidates[e].status # "NONE" =>
            candidates'[e].status # "NONE" /\ candidates'[e].base = candidates[e].base
      BY <1>0, <2>8, <3>2 DEF CommitApply, TypeOK, Candidate
    <3> HIDE DEF c, row
    <3>6. /\ LawfulWrite(row, request[r]) /\ row.status \notin ContentReviewDecision
          /\ row.status \notin approvedStatuses
      BY <1>0, <3>1, <3>2, <3>4, GeneratableToDraft
      DEF LawfulWrite, ContentReviewDecision, approvedStatuses
    <3>7. RevisionHistory' /\ LawfulHistory'
      BY <1>0, <2>1, <3>1, <3>2, <3>3, <3>6, WriteHistory DEF IInv
    <3>8. ReviewBinding' /\ OnlyReviewsDecide'
      BY <2>8, <3>1, <3>2, <3>3, <3>6, UndecidedWrite DEF IInv, CommitApply
    <3>9. CandidateProvenance' /\ CandidateSound'
      BY <2>8, ApplyWrite DEF IInv
    <3>10. RequestSound'
      BY <2>3, <3>1, <3>3, <3>5, SoundAfterWrite DEF IInv, Write
    <3>11. ReadyWasApproved'
      BY <1>0, <2>8, <3>1, <3>3, <3>6, ReadyAfterWrite DEF IInv, CommitApply
    <3>12. QED
      BY <1>0, <3>7, <3>8, <3>9, <3>10, <3>11 DEF IInv
  <2>9. QED
    BY <1>3, <2>4, <2>5, <2>6, <2>7, <2>8 DEF CommitAny
<1>4. ASSUME NEW r \in Requests, Abort(r)
      PROVE  IInv'
  BY <1>0, <1>4, FinishOthers, IInvQuiet DEF Abort
<1>5. ASSUME NEW c \in Candidates,
             \/ CompleteGeneration(c) \/ FailGeneration(c)
             \/ \E u \in Users : discard(u, c)
      PROVE  IInv'
  <2>1. PICK s \in { "READY", "FAILED", "DISCARDED" } :
          /\ candidates' = [ candidates EXCEPT ![c].status = s ]
          /\ candidates[c].status \in { "PENDING", "READY", "FAILED" }
          /\ UNCHANGED <<item, revisions, reviews, request>>
    BY <1>5 DEF CompleteGeneration, FailGeneration, discard
  <2> DEFINE d == [ candidates[c] EXCEPT !.status = s ]
  <2>2. /\ d \in Candidate /\ d.status = s /\ d.base = candidates[c].base
        /\ candidates' = [ candidates EXCEPT ![c] = d ]
    BY <1>0, <2>1 DEF TypeOK, Candidate, CandidateStatus
  <2>3. \E row \in revisions : row.number = d.base /\ row.status \in generatableStatuses
    BY <2>1, <2>2 DEF IInv, CandidateSound
  <2> HIDE DEF d
  <2>4. QED
    BY <1>0, <2>1, <2>2, <2>3, IInvCandidate
<1>6. CASE UNCHANGED vars
  BY <1>0, <1>6, IInvQuiet DEF vars
<1>7. QED
  BY <1>1, <1>2, <1>3, <1>4, <1>5, <1>6 DEF Next

LEMMA Invariance == Spec => []IInv
BY IInvInit, IInvStep, PTL DEF Spec

-----------------------------------------------------------------------------
(* The theorems *)

\* Rows keep the shape of the database schema: in particular a stored review is always
\* a decision with an author (createRevision, decideReview).
THEOREM TypeCorrect == Spec => []TypeOK
<1>1. IInv => TypeOK
  BY DEF IInv
<1>2. QED
  BY <1>1, Invariance, PTL

\* However requests interleave, every version of the item has exactly one revision and
\* the newest one is the row itself (updateWithRevision, createRevision).
THEOREM HistoryUnbroken == Spec => []RevisionHistory
<1>1. IInv => RevisionHistory
  BY DEF IInv
<1>2. QED
  BY <1>1, Invariance, PTL

\* The item takes edges of the life cycle only, although transition, archive, decideReview
\* and applyAiGenerationCandidate trust a status they read earlier or, for a machine
\* draft, do not ask for it at all.  Where expectedVersion was ahead of the row loaded,
\* which update, transition and archive do not refuse, the edge is one from that row.
THEOREM HistoryLawful == Spec => []LawfulHistory
<1>1. IInv => LawfulHistory
  BY DEF IInv
<1>2. QED
  BY <1>1, Invariance, PTL

\* A review is about the very text its reviewer read (decideReview).
THEOREM ReviewsBound == Spec => []ReviewBinding
<1>1. IInv => ReviewBinding
  BY DEF IInv
<1>2. QED
  BY <1>1, Invariance, PTL

\* Nothing but a review, and exactly one, makes an item APPROVED or CHANGES_REQUESTED
\* (transition refuses these edges, decideReview takes them).
THEOREM ReviewsOnly == Spec => []OnlyReviewsDecide
<1>1. IInv => OnlyReviewsDecide
  BY DEF IInv
<1>2. QED
  BY <1>1, Invariance, PTL

\* A machine draft is consumed exactly when it became a revision, the one right after
\* the version it was made for (applyAiGenerationCandidate, discard).
THEOREM CandidatesOnce == Spec => []CandidateProvenance
<1>1. IInv => CandidateProvenance
  BY DEF IInv
<1>2. QED
  BY <1>1, Invariance, PTL

\* What a handler checked stays true of the revision it loaded, whatever version the client
\* sent and whatever is written meanwhile; where the version sent is not ahead of that
\* revision, the optimistic lock carries the writer's scope over to the moment of the
\* write, and review, generate and apply only go on with the version they loaded (all
\* handlers that end in updateWithRevision).
THEOREM ChecksStayGood == Spec => []RequestSound
<1>1. IInv => RequestSound
  BY DEF IInv
<1>2. QED
  BY <1>1, Invariance, PTL

\* A step that commits request r found the version that r had checked.
LEMMA CommitsFresh ==
  ASSUME TypeOK, Next, NEW r \in Requests, Commits(r)
  PROVE  request[r].op # "idle" /\ VersionMatches(r)
<1>1. item' # item /\ request'[r] # request[r]
  BY DEF Commits
<1>2. ~ \E u \in Users, initial \in { "IDEA", "DRAFT" }, a \in Assignees :
          create(u, initial, a)
  BY <1>1 DEF create
<1>3. ~ \E c \in Candidates :
          CompleteGeneration(c) \/ FailGeneration(c) \/ \E u \in Users : discard(u, c)
  BY <1>1 DEF CompleteGeneration, FailGeneration, discard
<1>4. PICK q \in Requests : CommitAny(q) \/ Abort(q) \/ \E u \in Users : BeginAny(q, u)
  BY <1>2, <1>3 DEF Next
<1>5. ~ Abort(q) /\ ~ \E u \in Users : BeginAny(q, u)
  BY <1>1, BeginWritesNothing DEF Abort
<1>6. CommitUpdate(q) \/ CommitMove(q) \/ CommitReview(q) \/ CommitApply(q)
  BY <1>1, <1>4, <1>5 DEF CommitAny, InsertCandidate
<1>7. Finish(q) /\ VersionMatches(q) /\ request[q].op # "idle"
  BY <1>6 DEF CommitUpdate, CommitMove, CommitReview, CommitApply
<1>8. q = r
  BY <1>1, <1>7 DEF Finish, TypeOK
<1>9. QED
  BY <1>7, <1>8

\* A writer's write lands only on an item that is theirs and editable when it lands,
\* whoever reassigned or moved it since the handler looked (assertWriterCanEdit), unless
\* the version sent was ahead of the row the handler looked at.
THEOREM WritersConfined == Spec => WriterScope
<1>1. IInv /\ [Next]_vars => [WriterStaysInScope]_vars
  <2> SUFFICES ASSUME IInv, Next, NEW r \in Requests, Commits(r),
                      RoleOf[request[r].user] = "WRITER",
                      request[r].expected <= request[r].loaded
               PROVE  /\ item.status \in writerEditableStatuses
                      /\ request[r].user \in { item.creator, item.assignee }
    BY DEF WriterStaysInScope
  <2>1. request[r].op # "idle" /\ VersionMatches(r)
    BY CommitsFresh DEF IInv
  <2>2. CheckStillGood(request[r])
    BY <2>1 DEF IInv, RequestSound
  <2>3. QED
    BY <2>1, <2>2 DEF CheckStillGood, VersionMatches
<1>2. QED
  BY <1>1, Invariance, PTL DEF WriterScope, Spec

\* Nothing that clients send makes an item approved, ready or published that no review
\* has ever approved (transition refuses the review's edges and asks for an edge from the
\* row it loaded).
THEOREM ReadyOnlyApproved == Spec => []ReadyWasApproved
<1>1. IInv => ReadyWasApproved
  BY DEF IInv
<1>2. QED
  BY <1>1, Invariance, PTL

-----------------------------------------------------------------------------
(* Editorial implements ContentLifecycle *)

\* A write without a review approves nothing: no review is ahead of the history.
LEMMA ApprovedKept ==
  ASSUME IInv, NEW row, NEW c, NEW base, NEW q, Write(row, c, base, q), item.version \in Nat,
         row.version = item.version + 1, reviews' = reviews
  PROVE  ApprovedTexts' = ApprovedTexts
<1> DEFINE new == Snapshot(row, c, base, q)
<1>1. revisions' = revisions \cup {new} /\ new.number = item.version + 1
  BY DEF Write, Snapshot
<1>2. \A v \in reviews : v.revision \in Nat /\ v.revision < item.version
  BY ReviewsBehind DEF IInv
<1> HIDE DEF new
<1>3. ~ \E v \in reviews : v.revision = new.number
  BY <1>1, <1>2
<1>4. { x \in revisions' : \E v \in reviews : v.revision = x.number /\ v.decision = "APPROVED" }
    = { x \in revisions : \E v \in reviews : v.revision = x.number /\ v.decision = "APPROVED" }
  BY <1>1, <1>3
<1>5. QED
  BY <1>4 DEF ApprovedTexts

\* A write adds its version to those of clients that ran ahead, or leaves them alone.
LEMMA AheadAfterWrite ==
  ASSUME NEW row, NEW c, NEW base, NEW q, Write(row, c, base, q),
         row.version = item.version + 1
  PROVE  AheadVersions' = IF q.expected > q.loaded THEN AheadVersions \cup {item.version + 1}
                                                   ELSE AheadVersions
<1> DEFINE new == Snapshot(row, c, base, q)
<1>1. /\ revisions' = revisions \cup {new}
      /\ new.number = item.version + 1
      /\ Ahead(new) <=> q.expected > q.loaded
  BY DEF Write, Snapshot, Ahead
<1> HIDE DEF new
<1>2. CASE q.expected > q.loaded
  <2>1. { x \in revisions' : Ahead(x) } = { x \in revisions : Ahead(x) } \cup {new}
    BY <1>1, <1>2
  <2>2. QED
    BY <1>1, <1>2, <2>1 DEF AheadVersions, Ahead
<1>3. CASE ~ q.expected > q.loaded
  <2>1. { x \in revisions' : Ahead(x) } = { x \in revisions : Ahead(x) }
    BY <1>1, <1>3
  <2>2. QED
    BY <1>3, <2>1 DEF AheadVersions, Ahead
<1>4. QED
  BY <1>2, <1>3

\* A decision approves the text under review, or nothing.
LEMMA ApprovedByReview ==
  ASSUME IInv, NEW r \in Requests, CommitReview(r)
  PROVE  ApprovedTexts' = IF request[r].next = "APPROVED" THEN ApprovedTexts \cup {item.body}
                                                          ELSE ApprovedTexts
<1> DEFINE row == [ item EXCEPT !.version = @ + 1, !.status = request[r].next ]
           new == Snapshot(row, NoCandidate, 0, request[r])
           v == ReviewRow(r)
<1>1. item.version \in Nat /\ request[r].expected = item.version
  BY DEF IInv, TypeOK, Item, CommitReview, VersionMatches
<1>2. row.version = item.version + 1
  BY DEF IInv, TypeOK, Item
<1>3. revisions' = revisions \cup {new} /\ new.number = item.version + 1
  BY <1>2 DEF CommitReview, Write, Snapshot
<1>4. reviews' = reviews \cup {v} /\ v.revision = item.version /\ v.decision = request[r].next
  BY <1>1 DEF CommitReview, ReviewRow
<1>5. \A w \in reviews : w.revision \in Nat /\ w.revision < item.version
  BY ReviewsBehind DEF IInv
<1>6. /\ \E x \in revisions : x.number = item.version
      /\ \A x \in revisions : x.number = item.version => x.body = item.body
  BY <1>1 DEF CommitReview, IInv, RevisionHistory
<1> HIDE DEF new, v, row
<1>7. ~ \E w \in reviews' : w.revision = new.number
  BY <1>1, <1>3, <1>4, <1>5
<1>8. \A x \in revisions' :
        (\E w \in reviews' : w.revision = x.number /\ w.decision = "APPROVED")
        <=> /\ x \in revisions
            /\ \/ \E w \in reviews : w.revision = x.number /\ w.decision = "APPROVED"
               \/ x.number = item.version /\ request[r].next = "APPROVED"
  BY <1>3, <1>4, <1>7
<1>9. QED
  BY <1>3, <1>6, <1>8 DEF ApprovedTexts

LEMMA LifecycleStep ==
  IInv /\ [Next]_vars => [Lifecycle!LifecycleNext]_(Lifecycle!lifecycleVars)
<1> SUFFICES ASSUME IInv, [Next]_vars
             PROVE  \/ Lifecycle!LifecycleNext
                    \/ UNCHANGED Lifecycle!lifecycleVars
  BY DEF Lifecycle!lifecycleVars
<1>0. TypeOK /\ item \in Item /\ item.version \in Nat
  BY DEF IInv, TypeOK, Item
<1>1. ASSUME UNCHANGED <<item, revisions, reviews>>
      PROVE  UNCHANGED Lifecycle!lifecycleVars
  BY <1>1 DEF Lifecycle!lifecycleVars, ApprovedTexts, AheadVersions, Ahead
<1>2. ASSUME NEW u \in Users, NEW initial \in { "IDEA", "DRAFT" },
             NEW a \in Assignees, create(u, initial, a)
      PROVE  Lifecycle!Create
  <2> DEFINE row == [ version |-> 1, status |-> initial, body |-> 1,
                      creator |-> u, assignee |-> a ]
  <2>1. Write(row, NoCandidate, 0, NoRequest) /\ row.version = item.version + 1 /\ reviews' = reviews
    BY <1>2 DEF create
  <2>2. ApprovedTexts' = ApprovedTexts
    BY <1>0, <2>1, ApprovedKept
  <2>3. AheadVersions' = AheadVersions
    <3>1. ~ NoRequest.expected > NoRequest.loaded
      BY DEF NoRequest
    <3> HIDE DEF row
    <3>2. QED
      BY <2>1, <3>1, AheadAfterWrite
  <2>4. QED
    BY <1>2, <2>1, <2>2, <2>3 DEF create, Write, Lifecycle!Create
<1>3. ASSUME NEW r \in Requests, CommitUpdate(r)
      PROVE  Lifecycle!Edit \/ Lifecycle!EditAhead
  <2>1. CheckStillGood(request[r]) /\ VersionMatches(r)
    BY <1>3 DEF IInv, RequestSound, CommitUpdate
  <2>2. /\ item.version > 0 /\ request[r].expected = item.version
        /\ request[r].loaded \in 1 .. item.version
    BY <1>0, <2>1, LoadedIsCurrent
  <2>3. PICK row :
          /\ Write(row, NoCandidate, 0, request[r]) /\ row.version = item.version + 1
          /\ row.status = item.status /\ row.body \in { item.body, item.version + 1 }
    <3> DEFINE new == item.version + 1
               b == IF request[r].fields \cap { "general", "seo" } # {}
                    THEN new ELSE item.body
               a == IF "assignment" \in request[r].fields
                    THEN request[r].assignee ELSE item.assignee
               row == [ item EXCEPT !.version = new, !.body = b, !.assignee = a ]
    <3>1. /\ row.version = item.version + 1 /\ row.status = item.status
          /\ row.body \in { item.body, item.version + 1 }
      BY <1>0 DEF Item
    <3>2. Write(row, NoCandidate, 0, request[r])
      BY <1>3 DEF CommitUpdate
    <3>3. QED
      BY <3>1, <3>2
  <2>4. ApprovedTexts' = ApprovedTexts
    BY <1>0, <1>3, <2>3, ApprovedKept DEF CommitUpdate
  <2>5. AheadVersions' = IF request[r].expected > request[r].loaded
                         THEN AheadVersions \cup {item.version + 1} ELSE AheadVersions
    BY <2>3, AheadAfterWrite
  <2>6. CASE request[r].expected > request[r].loaded
    <3>1. item.version > 1
      BY <1>0, <2>2, <2>6
    <3>2. QED
      BY <2>3, <2>4, <2>5, <2>6, <3>1 DEF Write, Lifecycle!EditAhead, Lifecycle!RunAhead
  <2>7. CASE ~ request[r].expected > request[r].loaded
    <3>1. request[r].loaded = item.version
      BY <1>0, <2>2, <2>7
    <3>2. item.status # "ARCHIVED"
      BY <1>0, <1>3, <2>1, <3>1, HistoryForm DEF CheckStillGood, CommitUpdate, IInv
    <3>3. QED
      BY <2>2, <2>3, <2>4, <2>5, <2>7, <3>2 DEF Write, Lifecycle!Edit
  <2>8. QED
    BY <2>6, <2>7
<1>4. ASSUME NEW r \in Requests, CommitMove(r)
      PROVE  Lifecycle!Move \/ Lifecycle!MoveAhead
  <2> DEFINE row == [ item EXCEPT !.version = @ + 1, !.status = request[r].next ]
  <2>1. CheckStillGood(request[r]) /\ VersionMatches(r) /\ request[r] \in Request
    BY <1>4 DEF IInv, RequestSound, CommitMove, TypeOK
  <2>2. /\ item.version > 0 /\ request[r].expected = item.version
        /\ request[r].loaded \in 1 .. item.version
    BY <1>0, <2>1, LoadedIsCurrent
  <2>3. PICK z \in revisions :
          /\ z.number = request[r].loaded
          /\ canTransitionEditorialStatus(z.status, request[r].next)
          /\ z.status = "IN_REVIEW" => request[r].next = "ARCHIVED"
    BY <1>4, <2>1 DEF CheckStillGood, CommitMove
  <2>4. row.version = item.version + 1 /\ row.status = request[r].next /\ row.body = item.body
    BY <1>0 DEF Item
  <2>5. Write(row, NoCandidate, 0, request[r]) /\ reviews' = reviews
    BY <1>4 DEF CommitMove
  <2> HIDE DEF row
  <2>6. ApprovedTexts' = ApprovedTexts
    BY <1>0, <2>4, <2>5, ApprovedKept
  <2>7. AheadVersions' = IF request[r].expected > request[r].loaded
                         THEN AheadVersions \cup {item.version + 1} ELSE AheadVersions
    BY <2>4, <2>5, AheadAfterWrite
  <2>8. request[r].next \in Lifecycle!ContentEditorialStatus
    BY <2>1 DEF Request, ContentEditorialStatus, Lifecycle!ContentEditorialStatus
  <2>9. CASE request[r].expected > request[r].loaded
    <3>1. item.version > 1
      BY <1>0, <2>2, <2>9
    <3>2. request[r].next \notin { "IDEA" } \cup Lifecycle!ContentReviewDecision
      BY <2>3 DEF canTransitionEditorialStatus, ALLOWED_EDITORIAL_TRANSITIONS,
         Lifecycle!ContentReviewDecision
    <3>3. request[r].next \in Lifecycle!approvedStatuses => ApprovedTexts # {}
      <4>1. request[r].next \in Lifecycle!approvedStatuses => z.status \in approvedStatuses
        BY <2>3, <3>2 DEF canTransitionEditorialStatus, ALLOWED_EDITORIAL_TRANSITIONS,
           approvedStatuses, Lifecycle!approvedStatuses, Lifecycle!ContentReviewDecision
      <4>2. z.status \in approvedStatuses => \E v \in reviews : v.decision = "APPROVED"
        BY DEF IInv, ReadyWasApproved
      <4>3. \A v \in reviews : \E x \in revisions : x.number = v.revision
        BY DEF IInv, ReviewBinding
      <4>4. QED
        BY <4>1, <4>2, <4>3 DEF ApprovedTexts
    <3>4. QED
      BY <2>4, <2>5, <2>6, <2>7, <2>8, <2>9, <3>1, <3>2, <3>3
      DEF Write, Lifecycle!MoveAhead, Lifecycle!RunAhead
  <2>10. CASE ~ request[r].expected > request[r].loaded
    <3>1. z.status = item.status
      <4>1. request[r].loaded = item.version
        BY <1>0, <2>2, <2>10
      <4>2. QED
        BY <1>0, <2>3, <4>1, HistoryForm DEF IInv
    <3>2. Lifecycle!canTransitionEditorialStatus(item.status, request[r].next)
      BY <2>3, <3>1 DEF canTransitionEditorialStatus, Lifecycle!canTransitionEditorialStatus,
         ALLOWED_EDITORIAL_TRANSITIONS, Lifecycle!ALLOWED_EDITORIAL_TRANSITIONS
    <3>3. QED
      BY <2>2, <2>3, <2>4, <2>5, <2>6, <2>7, <2>8, <2>10, <3>1, <3>2
      DEF Write, Lifecycle!Move
  <2>11. QED
    BY <2>9, <2>10
<1>5. ASSUME NEW r \in Requests, CommitReview(r)
      PROVE  Lifecycle!Decide
  <2> DEFINE row == [ item EXCEPT !.version = @ + 1, !.status = request[r].next ]
  <2>1. request[r].next \in Lifecycle!ContentReviewDecision
    BY <1>0, <1>5 DEF TypeOK, CommitReview, ContentReviewDecision,
       Lifecycle!ContentReviewDecision
  <2>0. CheckStillGood(request[r]) /\ VersionMatches(r) /\ request[r].expected = request[r].loaded
    BY <1>5 DEF CommitReview, IInv, RequestSound, CheckStillGood
  <2>2. item.version > 0 /\ item.status = "IN_REVIEW" /\ ~ request[r].expected > request[r].loaded
    BY <1>0, <1>5, <2>0, LoadedIsCurrent DEF CommitReview
  <2>3. row.version = item.version + 1 /\ row.status = request[r].next /\ row.body = item.body
    BY <1>0 DEF Item
  <2>4. item' = row /\ Write(row, NoCandidate, 0, request[r])
    BY <1>5 DEF CommitReview, Write
  <2> HIDE DEF row
  <2>5. AheadVersions' = AheadVersions
    BY <2>2, <2>3, <2>4, AheadAfterWrite
  <2>6. QED
    BY <1>5, <2>1, <2>2, <2>3, <2>4, <2>5, ApprovedByReview DEF Lifecycle!Decide
<1>6. ASSUME NEW r \in Requests, CommitApply(r)
      PROVE  Lifecycle!Redraft
  <2> DEFINE c == request[r].candidate
             row == [ item EXCEPT !.version = item.version + 1, !.status = "DRAFT",
                                  !.body = item.version + 1 ]
  <2>1. /\ item.version > 0 /\ c \in Candidates
        /\ candidates[c].status # "NONE" /\ item.version = candidates[c].base
        /\ ~ request[r].expected > request[r].loaded
    <3>1. CheckStillGood(request[r]) /\ VersionMatches(r)
      BY <1>6 DEF CommitApply, IInv, RequestSound
    <3>2. QED
      BY <1>0, <1>6, <3>1, LoadedIsCurrent DEF CommitApply, CheckStillGood, VersionMatches
  <2>2. item.status \in generatableStatuses
    BY <1>0, <2>1, HistoryForm DEF IInv, CandidateSound
  <2>3. /\ row.version = item.version + 1 /\ row.status = "DRAFT"
        /\ row.body = item.version + 1
    BY <1>0 DEF Item
  <2>4. Write(row, c, request[r].expected, request[r]) /\ reviews' = reviews
    BY <1>6 DEF CommitApply
  <2> HIDE DEF row, c
  <2>5. ApprovedTexts' = ApprovedTexts
    BY <1>0, <2>3, <2>4, ApprovedKept
  <2>7. AheadVersions' = AheadVersions
    BY <2>1, <2>3, <2>4, AheadAfterWrite
  <2>8. QED
    BY <2>1, <2>2, <2>3, <2>4, <2>5, <2>7 DEF Write, generatableStatuses,
       Lifecycle!generatableStatuses, Lifecycle!Redraft
<1>7. ASSUME NEW r \in Requests, InsertCandidate(r) \/ Abort(r) \/ \E u \in Users : BeginAny(r, u)
      PROVE  UNCHANGED <<item, revisions, reviews>>
  BY <1>7, BeginWritesNothing DEF InsertCandidate, Abort
<1>8. ASSUME NEW c \in Candidates,
             CompleteGeneration(c) \/ FailGeneration(c) \/ \E u \in Users : discard(u, c)
      PROVE  UNCHANGED <<item, revisions, reviews>>
  BY <1>8 DEF CompleteGeneration, FailGeneration, discard
<1>9. CASE UNCHANGED vars
  BY <1>1, <1>9 DEF vars
<1>10. QED
  BY <1>1, <1>2, <1>3, <1>4, <1>5, <1>6, <1>7, <1>8, <1>9
  DEF Next, CommitAny, Lifecycle!LifecycleNext

\* The services implement the life cycle: an item looks, to everything built on it, as
\* if each edit, move, decision and applied draft were one atomic step; only a client
\* that ran ahead may edit or move it without the check of the row written.
THEOREM Implementation == Spec => ImplementsLifecycle
<1>1. Init => Lifecycle!LifecycleInit
  BY DEF Init, ApprovedTexts, AheadVersions, Lifecycle!LifecycleInit
<1>2. QED
  BY <1>1, LifecycleStep, Invariance, PTL DEF Spec, ImplementsLifecycle, Lifecycle!LifecycleSpec

-----------------------------------------------------------------------------
(* The content editor: the inductive invariant *)

\* An item is older than another, or has its text.
Precedes(i, j) == i.version <= j.version /\ (i.version = j.version => i.text = j.text)

\* What a page shows, has cached, is about to be answered and what the server has.
InOrderOfVersions(p) ==
  /\ Precedes(shown[p], cache[p]) /\ Precedes(cache[p], latest)
  /\ fetch[p].phase = "answered" =>
       Precedes(cache[p], fetch[p].item) /\ Precedes(fetch[p].item, latest)

Accepted(p) == call[p]["save"].phase \in { "saved", "refetching", "refetched" }

\* What a page shows has only become newer since it sent a command.
CommandsFit(p) ==
  \A c \in Commands :
    /\ call[p][c].phase = "sent" => call[p][c].expected <= shown[p].version
    /\ call[p][c].phase = "saved" => call[p][c].expected < latest.version

\* Unless a save was overtaken, the form contains what is shown, a save that can still be
\* accepted contains the item, and one that was accepted is the item and contains whatever
\* the page may yet show.
FormDescends(p) ==
  p \notin raced =>
    /\ shown[p].text \subseteq form[p]
    /\ call[p]["save"].phase = "sent" /\ call[p]["save"].expected = latest.version =>
         latest.text \subseteq call[p]["save"].text
    /\ Accepted(p) =>
         /\ latest.text \subseteq call[p]["save"].text
         /\ shown[p].text \subseteq call[p]["save"].text
         /\ cache[p].text \subseteq call[p]["save"].text
         /\ fetch[p].phase = "answered" => fetch[p].item.text \subseteq call[p]["save"].text

\* A version the page was told of is cached, or on its way, or could not be fetched.
ToldIsFetched(p) ==
  /\ told[p] <= latest.version
  /\ \/ told[p] <= cache[p].version
     \/ fetch[p].phase = "none" /\ broken[p]
     \/ fetch[p].phase = "asked"
     \/ fetch[p].phase = "answered" /\ told[p] <= fetch[p].item.version

\* Whatever may come into the form contains what was typed in peace.
CalmIsKept(p) ==
  /\ calm[p] \subseteq form[p]
  /\ shown[p] # cache[p] => calm[p] \subseteq cache[p].text
  /\ fetch[p].phase = "answered" /\ fetch[p].item # cache[p] => calm[p] \subseteq fetch[p].item.text
  /\ cache[p] # latest => calm[p] \subseteq latest.text
  /\ Pending(p, "save") => calm[p] \subseteq call[p]["save"].text

PageSound(p) ==
  /\ InOrderOfVersions(p) /\ CommandsFit(p) /\ FormDescends(p)
  /\ ToldIsFetched(p) /\ CalmIsKept(p)

EditorInv ==
  /\ EditorTypeOK /\ OverwriteHasCause
  /\ \A p \in Pages : PageSound(p)

-----------------------------------------------------------------------------
(* The content editor: types *)

LEMMA EditorRecords ==
  /\ NoCall \in Call /\ FirstItem \in ServerItem
  /\ NoFetch \in Fetch /\ Asked \in Fetch
  /\ NoCall.phase = "idle" /\ NoFetch.phase = "none" /\ Asked.phase = "asked"
BY DEF NoCall, Call, Phase, FirstItem, ServerItem, NoFetch, Asked, Fetch

LEMMA EditorCounts ==
  \A max \in Nat : \A n \in 0 .. max : n < max => n + 1 \in 0 .. max
OBVIOUS

\* A command whose state changes is the only one that does.
LEMMA CommandSet ==
  ASSUME EditorTypeOK, NEW p \in Pages, NEW c \in Commands, NEW new \in Call,
         SetCall(p, c, new)
  PROVE  /\ call' \in [ Pages -> [ Commands -> Call ] ]
         /\ call'[p][c] = new
         /\ \A d \in Commands : d # c => call'[p][d] = call[p][d]
         /\ \A q \in Pages : q # p => call'[q] = call[q]
BY DEF EditorTypeOK, SetCall

\* The end of a fetch moves the commands that wait for it, and nothing else.
LEMMA FetchEnds ==
  ASSUME EditorTypeOK, NEW p \in Pages, EndFetch(p)
  PROVE  /\ fetch' \in [ Pages -> Fetch ] /\ fetch'[p] = NoFetch
         /\ call' \in [ Pages -> [ Commands -> Call ] ]
         /\ \A c \in Commands :
              /\ call'[p][c].text = call[p][c].text
              /\ call'[p][c].expected = call[p][c].expected
              /\ call'[p][c].phase = IF call[p][c].phase = "refetching" THEN "refetched"
                                     ELSE call[p][c].phase
         /\ \A q \in Pages : q # p => fetch'[q] = fetch[q] /\ call'[q] = call[q]
<1>1. /\ call \in [ Pages -> [ Commands -> Call ] ] /\ fetch \in [ Pages -> Fetch ]
      /\ fetch' = [ fetch EXCEPT ![p] = NoFetch ]
  BY DEF EditorTypeOK, EndFetch
<1>2. PICK mine : mine = [ c \in Commands |->
          IF call[p][c].phase = "refetching" THEN [ call[p][c] EXCEPT !.phase = "refetched" ]
          ELSE call[p][c] ]
  OBVIOUS
<1>3. call' = [ call EXCEPT ![p] = mine ]
  BY <1>1, <1>2 DEF EndFetch
<1>4. ASSUME NEW c \in Commands
      PROVE  /\ mine[c] \in Call
             /\ mine[c].text = call[p][c].text
             /\ mine[c].expected = call[p][c].expected
             /\ mine[c].phase = IF call[p][c].phase = "refetching" THEN "refetched"
                                ELSE call[p][c].phase
  <2>1. call[p][c] \in Call
    BY <1>1
  <2>2. mine[c] = IF call[p][c].phase = "refetching" THEN [ call[p][c] EXCEPT !.phase = "refetched" ]
                  ELSE call[p][c]
    BY <1>2
  <2>3. QED
    BY <2>1, <2>2 DEF Call, Phase
<1>5. mine \in [ Commands -> Call ]
  BY <1>2, <1>4
<1>6. call' \in [ Pages -> [ Commands -> Call ] ] /\ call'[p] = mine
      /\ \A q \in Pages : q # p => call'[q] = call[q]
  BY <1>1, <1>3, <1>5
<1>7. QED
  BY <1>1, <1>4, <1>6, EditorRecords

\* A record changes neither the version nor the text, and ends what is calm.
LEMMA RecordTypes ==
  ASSUME EditorTypeOK, RecordPublication
  PROVE  /\ latest' \in ServerItem
         /\ latest'.version = latest.version /\ latest'.text = latest.text
         /\ calm' = [ q \in Pages |-> {} ] /\ calm' \in [ Pages -> SUBSET Edits ]
<1>1. latest \in ServerItem /\ latest.stamp + 1 \in Nat
  BY DEF EditorTypeOK, ServerItem
<1>2. PICK n \in Nat : n = latest.stamp + 1
  BY <1>1
<1>3. latest' = [ latest EXCEPT !.stamp = n ]
  BY <1>2 DEF RecordPublication
<1>4. latest' \in ServerItem /\ latest'.version = latest.version /\ latest'.text = latest.text
  BY <1>1, <1>3 DEF ServerItem
<1>5. QED
  BY <1>4 DEF RecordPublication

LEMMA EditorTypeStep ==
  ASSUME EditorTypeOK, [EditorNext]_editorVars
  PROVE  EditorTypeOK'
<1>1. CASE UNCHANGED editorVars
  BY <1>1 DEF EditorTypeOK, editorVars
<1>2. ASSUME NEW p \in Pages, NEW e \in Edits, set(p, e)
      PROVE  EditorTypeOK'
  BY <1>2 DEF EditorTypeOK, set
<1>3. ASSUME NEW p \in Pages, NEW e \in Edits, apply(p, e)
      PROVE  EditorTypeOK'
  <2>1. [ phase |-> "sent", expected |-> shown[p].version, text |-> { e } ] \in Call
    BY DEF EditorTypeOK, ServerItem, Call, Phase
  <2>2. call' \in [ Pages -> [ Commands -> Call ] ]
    BY <1>3, <2>1, CommandSet DEF apply, Commands
  <2>3. commands' \in 0 .. MaxCommands
    BY <1>3, EditorCounts, EditorAssumption DEF EditorTypeOK, apply
  <2>4. QED
    BY <1>3, <2>2, <2>3 DEF EditorTypeOK, apply, histories
<1>4. ASSUME NEW p \in Pages, save(p)
      PROVE  EditorTypeOK'
  <2>1. [ phase |-> "sent", expected |-> shown[p].version, text |-> form[p] ] \in Call
    BY DEF EditorTypeOK, ServerItem, Call, Phase
  <2>2. call' \in [ Pages -> [ Commands -> Call ] ]
    BY <1>4, <2>1, CommandSet DEF save, Commands
  <2>3. commands' \in 0 .. MaxCommands
    BY <1>4, EditorCounts, EditorAssumption DEF EditorTypeOK, save
  <2>4. QED
    BY <1>4, <2>2, <2>3 DEF EditorTypeOK, save, histories
<1>5. ASSUME NEW p \in Pages, transition(p)
      PROVE  EditorTypeOK'
  <2>1. [ phase |-> "sent", expected |-> shown[p].version, text |-> shown[p].text ] \in Call
    BY DEF EditorTypeOK, ServerItem, Call, Phase
  <2>2. call' \in [ Pages -> [ Commands -> Call ] ]
    BY <1>5, <2>1, CommandSet DEF transition, Commands
  <2>3. commands' \in 0 .. MaxCommands
    BY <1>5, EditorCounts, EditorAssumption DEF EditorTypeOK, transition
  <2>4. QED
    BY <1>5, <2>2, <2>3 DEF EditorTypeOK, transition, histories
<1>6. ASSUME NEW p \in Pages, Focus(p)
      PROVE  EditorTypeOK'
  <2>1. events' \in 0 .. MaxEvents
    BY <1>6, EditorCounts, EditorAssumption DEF EditorTypeOK, Focus
  <2>2. QED
    BY <1>6, <2>1, EditorRecords DEF EditorTypeOK, Focus, histories
<1>7. ASSUME NEW p \in Pages, Reload(p)
      PROVE  EditorTypeOK'
  BY <1>7, EditorRecords DEF EditorTypeOK, Reload, invalidate, histories
<1>8. ASSUME NEW p \in Pages, ReadItem(p)
      PROVE  EditorTypeOK'
  <2>1. [ phase |-> "answered", item |-> latest ] \in Fetch
    BY DEF EditorTypeOK, Fetch
  <2>2. QED
    BY <1>8, <2>1 DEF EditorTypeOK, ReadItem, histories
<1>9. ASSUME NEW p \in Pages, Fetched(p)
      PROVE  EditorTypeOK'
  <2>1. EndFetch(p)
    BY <1>9 DEF Fetched
  <2>2. fetch' \in [ Pages -> Fetch ] /\ call' \in [ Pages -> [ Commands -> Call ] ]
    BY <2>1, FetchEnds
  <2>3. fetch[p].item \in ServerItem
    BY DEF EditorTypeOK, Fetch
  <2>4. QED
    BY <1>9, <2>2, <2>3 DEF EditorTypeOK, Fetched, histories
<1>10. ASSUME NEW p \in Pages, FetchFailed(p)
       PROVE  EditorTypeOK'
  <2>1. EndFetch(p)
    BY <1>10 DEF FetchFailed
  <2>2. fetch' \in [ Pages -> Fetch ] /\ call' \in [ Pages -> [ Commands -> Call ] ]
    BY <2>1, FetchEnds
  <2>3. events' \in 0 .. MaxEvents
    BY <1>10, EditorCounts, EditorAssumption DEF EditorTypeOK, FetchFailed
  <2>4. QED
    BY <1>10, <2>2, <2>3 DEF EditorTypeOK, FetchFailed, histories
<1>11. ASSUME NEW p \in Pages, Hydrate(p)
       PROVE  EditorTypeOK'
  <2>1. cache[p] \in ServerItem /\ cache[p].text \in SUBSET Edits
    BY DEF EditorTypeOK, ServerItem
  <2>2. QED
    BY <1>11, <2>1 DEF EditorTypeOK, Hydrate, histories
<1>12. ASSUME NEW p \in Pages, NEW c \in Commands, Accept(p, c)
       PROVE  EditorTypeOK'
  <2>1. call[p][c] \in Call
    BY DEF EditorTypeOK
  <2>2. [ call[p][c] EXCEPT !.phase = "saved" ] \in Call
    BY <2>1 DEF Call, Phase
  <2>3. call' \in [ Pages -> [ Commands -> Call ] ]
    BY <1>12, <2>2, CommandSet DEF Accept
  <2>4. latest' \in ServerItem
    <3>1. latest \in ServerItem /\ latest.version + 1 \in Nat \ { 0 }
      BY DEF EditorTypeOK, ServerItem
    <3>2. PICK n \in Nat \ { 0 } : n = latest.version + 1
      BY <3>1
    <3>3. latest' = [ latest EXCEPT !.version = n, !.text = call[p][c].text ]
      BY <1>12, <3>2 DEF Accept
    <3>4. QED
      BY <2>1, <3>1, <3>3 DEF Call, ServerItem
  <2>5. raced' \subseteq Pages /\ overwriters' \subseteq Pages
    BY <1>12 DEF EditorTypeOK, Accept
  <2>6. calm' \in [ Pages -> SUBSET Edits ]
    BY <1>12 DEF EditorTypeOK, Accept
  <2>7. QED
    BY <1>12, <2>3, <2>4, <2>5, <2>6 DEF EditorTypeOK, Accept
<1>13. ASSUME NEW p \in Pages, NEW c \in Commands, Stale(p, c)
       PROVE  EditorTypeOK'
  <2>1. [ NoCall EXCEPT !.phase = "stale" ] \in Call
    BY DEF NoCall, Call, Phase
  <2>2. call' \in [ Pages -> [ Commands -> Call ] ]
    BY <1>13, <2>1, CommandSet DEF Stale
  <2>3. QED
    BY <1>13, <2>2 DEF EditorTypeOK, Stale, histories
<1>14. ASSUME NEW p \in Pages, NEW c \in Commands, LoseAnswer(p, c)
       PROVE  EditorTypeOK'
  <2>1. call' \in [ Pages -> [ Commands -> Call ] ]
    BY <1>14, EditorRecords, CommandSet DEF LoseAnswer
  <2>2. events' \in 0 .. MaxEvents
    BY <1>14, EditorCounts, EditorAssumption DEF EditorTypeOK, LoseAnswer
  <2>3. QED
    BY <1>14, <2>1, <2>2 DEF EditorTypeOK, LoseAnswer
<1>15. ASSUME NEW p \in Pages, NEW c \in Commands, Answered(p, c)
       PROVE  EditorTypeOK'
  <2>1. call[p][c] \in Call
    BY DEF EditorTypeOK
  <2>2. [ phase |-> "refetching", expected |-> 0,
          text |-> IF c = "save" THEN call[p][c].text ELSE {} ] \in Call
    BY <2>1 DEF Call, Phase
  <2>3. call' \in [ Pages -> [ Commands -> Call ] ]
    BY <1>15, <2>2, CommandSet DEF Answered
  <2>4. call[p][c].expected + 1 \in Nat
    BY <2>1 DEF Call
  <2>5. told' \in [ Pages -> Nat ]
    BY <1>15, <2>4 DEF EditorTypeOK, Answered
  <2>6. fetch' \in [ Pages -> Fetch ]
    BY <1>15, EditorRecords DEF EditorTypeOK, Answered, invalidate
  <2>7. QED
    BY <1>15, <2>3, <2>5, <2>6 DEF EditorTypeOK, Answered
<1>16. ASSUME NEW p \in Pages, Saved(p)
       PROVE  EditorTypeOK'
  <2>1. call' \in [ Pages -> [ Commands -> Call ] ]
    BY <1>16, EditorRecords, CommandSet DEF Saved, Commands
  <2>2. call[p]["save"].text \in SUBSET Edits
    BY DEF EditorTypeOK, Commands, Call
  <2>3. QED
    BY <1>16, <2>1, <2>2 DEF EditorTypeOK, Saved, histories
<1>17. ASSUME NEW p \in Pages, Acted(p)
       PROVE  EditorTypeOK'
  <2>1. call' \in [ Pages -> [ Commands -> Call ] ]
    BY <1>17, EditorRecords, CommandSet DEF Acted, Commands
  <2>2. QED
    BY <1>17, <2>1 DEF EditorTypeOK, Acted, histories
<1>18. ASSUME NEW p \in Pages, handoff(p)
       PROVE  EditorTypeOK'
  <2>1. [ phase |-> "handing", expected |-> shown[p].version, text |-> {} ] \in Call
    BY DEF EditorTypeOK, ServerItem, Call, Phase
  <2>2. call' \in [ Pages -> [ Commands -> Call ] ]
    BY <1>18, <2>1, CommandSet DEF handoff, Commands
  <2>3. commands' \in 0 .. MaxCommands
    BY <1>18, EditorCounts, EditorAssumption DEF EditorTypeOK, handoff
  <2>4. QED
    BY <1>18, <2>2, <2>3 DEF EditorTypeOK, handoff, histories
<1>19. ASSUME NEW p \in Pages, HandoffRefused(p)
       PROVE  EditorTypeOK'
  <2>1. call' \in [ Pages -> [ Commands -> Call ] ]
    BY <1>19, EditorRecords, CommandSet DEF HandoffRefused, Commands
  <2>2. QED
    BY <1>19, <2>1 DEF EditorTypeOK, HandoffRefused, histories
<1>20. ASSUME NEW p \in Pages, HandedOff(p)
       PROVE  EditorTypeOK'
  <2>1. [ NoCall EXCEPT !.phase = "saved" ] \in Call
    BY DEF NoCall, Call, Phase
  <2>2. call' \in [ Pages -> [ Commands -> Call ] ]
    BY <1>20, <2>1, CommandSet DEF HandedOff, Commands
  <2>3. latest' \in ServerItem /\ calm' \in [ Pages -> SUBSET Edits ]
    BY <1>20, RecordTypes DEF EditorTypeOK, HandedOff
  <2>4. QED
    BY <1>20, <2>2, <2>3 DEF EditorTypeOK, HandedOff
<1>21. ASSUME NEW p \in Pages, HandoffFailed(p)
       PROVE  EditorTypeOK'
  <2>1. call' \in [ Pages -> [ Commands -> Call ] ]
    BY <1>21, EditorRecords, CommandSet DEF HandoffFailed, Commands
  <2>2. latest' \in ServerItem /\ calm' \in [ Pages -> SUBSET Edits ]
    BY <1>21, RecordTypes DEF HandoffFailed
  <2>3. QED
    BY <1>21, <2>1, <2>2 DEF EditorTypeOK, HandoffFailed
<1>22. CASE DraftMissing
  <2>1. latest' \in ServerItem /\ calm' \in [ Pages -> SUBSET Edits ]
    BY <1>22, RecordTypes DEF DraftMissing
  <2>2. commands' \in 0 .. MaxCommands
    BY <1>22, EditorCounts, EditorAssumption DEF EditorTypeOK, DraftMissing
  <2>3. QED
    BY <1>22, <2>1, <2>2 DEF EditorTypeOK, DraftMissing
<1>23. QED
  BY <1>1, <1>2, <1>3, <1>4, <1>5, <1>6, <1>7, <1>8, <1>9, <1>10, <1>11, <1>12, <1>13, <1>14,
     <1>15, <1>16, <1>17, <1>18, <1>19, <1>20, <1>21, <1>22 DEF EditorNext

-----------------------------------------------------------------------------
(* The content editor: pages *)

\* What a page consists of is as it was, but for its commands and its fetch.
Looks(p) ==
  /\ shown'[p] = shown[p] /\ cache'[p] = cache[p] /\ form'[p] = form[p]
  /\ broken'[p] = broken[p] /\ told'[p] = told[p]

Untouched(p) ==
  Looks(p) /\ fetch'[p] = fetch[p] /\ call'[p] = call[p] /\ calm'[p] = calm[p]

\* The server and the histories that name pages are as they were.
ServerRests == latest' = latest /\ raced' = raced /\ overwriters' = overwriters

LEMMA UntouchedIsSound ==
  ASSUME NEW p \in Pages, PageSound(p), Untouched(p), ServerRests
  PROVE  PageSound(p)'
BY DEF PageSound, Untouched, Looks, ServerRests, InOrderOfVersions, Precedes, CommandsFit,
       FormDescends, Accepted, ToldIsFetched, CalmIsKept, Pending

LEMMA OnePageMoves ==
  ASSUME EditorInv, EditorTypeOK', NEW p \in Pages, PageSound(p)', ServerRests,
         \A q \in Pages : q # p => Untouched(q)
  PROVE  EditorInv'
<1>1. ASSUME NEW q \in Pages PROVE PageSound(q)'
  <2>1. CASE q = p
    BY <2>1
  <2>2. CASE q # p
    <3>1. Untouched(q) /\ PageSound(q)
      BY <2>2 DEF EditorInv
    <3>2. QED
      BY <3>1, UntouchedIsSound
  <2>3. QED
    BY <2>1, <2>2
<1>2. OverwriteHasCause'
  BY DEF EditorInv, ServerRests, OverwriteHasCause
<1>3. QED
  BY <1>1, <1>2 DEF EditorInv

\* A page that sends another command than a save, or forgets one.
LEMMA ActMoves ==
  ASSUME EditorInv, NEW p \in Pages, NEW new \in Call, ServerRests,
         Looks(p), fetch'[p] = fetch[p], calm'[p] = calm[p] \/ calm'[p] = {},
         call'[p]["act"] = new, call'[p]["save"] = call[p]["save"],
         new.phase = "sent" => new.expected <= shown[p].version,
         new.phase # "saved"
  PROVE  PageSound(p)'
<1>1. PageSound(p)
  BY DEF EditorInv
<1>2. InOrderOfVersions(p)'
  BY <1>1 DEF PageSound, Looks, ServerRests, InOrderOfVersions, Precedes
<1>3. CommandsFit(p)'
  BY <1>1 DEF PageSound, Looks, ServerRests, CommandsFit, Commands
<1>4. FormDescends(p)'
  BY <1>1 DEF PageSound, Looks, ServerRests, FormDescends, Accepted
<1>5. ToldIsFetched(p)'
  BY <1>1 DEF PageSound, Looks, ServerRests, ToldIsFetched
<1>6. CalmIsKept(p)'
  BY <1>1 DEF PageSound, Looks, ServerRests, CalmIsKept, Pending
<1>7. QED
  BY <1>2, <1>3, <1>4, <1>5, <1>6 DEF PageSound

\* A save that is forgotten.
LEMMA SaveEnds ==
  ASSUME EditorInv, NEW p \in Pages, NEW new \in Call, ServerRests,
         Looks(p), fetch'[p] = fetch[p], calm'[p] = calm[p] \/ calm'[p] = {},
         call'[p]["save"] = new, call'[p]["act"] = call[p]["act"],
         new.phase \in { "idle", "stale" }
  PROVE  PageSound(p)'
<1>1. PageSound(p)
  BY DEF EditorInv
<1>2. InOrderOfVersions(p)'
  BY <1>1 DEF PageSound, Looks, ServerRests, InOrderOfVersions, Precedes
<1>3. CommandsFit(p)'
  BY <1>1 DEF PageSound, Looks, ServerRests, CommandsFit, Commands
<1>4. FormDescends(p)'
  BY <1>1 DEF PageSound, Looks, ServerRests, FormDescends, Accepted
<1>5. ToldIsFetched(p)'
  BY <1>1 DEF PageSound, Looks, ServerRests, ToldIsFetched
<1>6. CalmIsKept(p)'
  BY <1>1 DEF PageSound, Looks, ServerRests, CalmIsKept, Pending
<1>7. QED
  BY <1>2, <1>3, <1>4, <1>5, <1>6 DEF PageSound

\* A page that has given up its fetch for a new one.
LEMMA FetchStarts ==
  ASSUME EditorInv, NEW p \in Pages, ServerRests,
         Looks(p), fetch'[p] = Asked, calm'[p] = calm[p], call'[p] = call[p]
  PROVE  PageSound(p)'
<1>1. PageSound(p)
  BY DEF EditorInv
<1>2. fetch'[p].phase = "asked"
  BY EditorRecords
<1>3. InOrderOfVersions(p)'
  BY <1>1, <1>2 DEF PageSound, Looks, ServerRests, InOrderOfVersions, Precedes
<1>4. CommandsFit(p)'
  BY <1>1 DEF PageSound, Looks, ServerRests, CommandsFit, Commands
<1>5. FormDescends(p)'
  BY <1>1, <1>2 DEF PageSound, Looks, ServerRests, FormDescends, Accepted
<1>6. ToldIsFetched(p)'
  BY <1>1, <1>2 DEF PageSound, Looks, ServerRests, ToldIsFetched
<1>7. CalmIsKept(p)'
  BY <1>1, <1>2 DEF PageSound, Looks, ServerRests, CalmIsKept, Pending
<1>8. QED
  BY <1>3, <1>4, <1>5, <1>6, <1>7 DEF PageSound

\* Versions on the server and on a page are numbers; texts are sets.
LEMMA PageTypes ==
  ASSUME EditorTypeOK, NEW p \in Pages
  PROVE  /\ latest.version \in Nat \ { 0 }
         /\ latest.version \in Nat /\ shown[p].version \in Nat /\ cache[p].version \in Nat
         /\ fetch[p].item.version \in Nat /\ told[p] \in Nat
         /\ \A c \in Commands : call[p][c] \in Call /\ call[p][c].expected \in Nat
         /\ call[p]["save"] \in Call /\ call[p]["act"] \in Call
BY DEF EditorTypeOK, ServerItem, Fetch, Call, Commands

LEMMA SetStep ==
  ASSUME EditorInv, EditorTypeOK', NEW p \in Pages, NEW e \in Edits, set(p, e)
  PROVE  EditorInv'
<1>1. PageSound(p)
  BY DEF EditorInv
<1>2. /\ form'[p] = form[p] \cup { e }
      /\ \A q \in Pages : q # p => form'[q] = form[q] /\ calm'[q] = calm[q]
      /\ calm'[p] = calm[p] \/ (Quiet(p) /\ shown[p] = latest /\ calm'[p] = calm[p] \cup { e })
  <2>1. /\ form \in [ Pages -> SUBSET Edits ] /\ calm \in [ Pages -> SUBSET Edits ]
        /\ form' = [ form EXCEPT ![p] = @ \cup { e } ]
    BY DEF EditorInv, EditorTypeOK, set
  <2>2. \/ calm' = calm
        \/ Quiet(p) /\ shown[p] = latest /\ calm' = [ calm EXCEPT ![p] = @ \cup { e } ]
    BY DEF set
  <2>3. PICK f, g : f = form[p] \cup { e } /\ g = calm[p] \cup { e }
    OBVIOUS
  <2>4. form' = [ form EXCEPT ![p] = f ]
    BY <2>1, <2>3
  <2>5. \/ calm' = calm
        \/ Quiet(p) /\ shown[p] = latest /\ calm' = [ calm EXCEPT ![p] = g ]
    BY <2>2, <2>3
  <2>6. /\ form'[p] = f
        /\ \A q \in Pages : q # p => form'[q] = form[q] /\ calm'[q] = calm[q]
        /\ calm'[p] = calm[p] \/ (Quiet(p) /\ shown[p] = latest /\ calm'[p] = g)
    BY <2>1, <2>4, <2>5
  <2>7. QED
    BY <2>3, <2>6
<1>3. /\ UNCHANGED <<latest, cache, shown, broken, fetch, call, told, raced, overwriters>>
  BY DEF set
<1>4. InOrderOfVersions(p)' /\ CommandsFit(p)' /\ ToldIsFetched(p)'
  BY <1>1, <1>3 DEF PageSound, InOrderOfVersions, Precedes, CommandsFit, ToldIsFetched
<1>5. FormDescends(p)'
  BY <1>1, <1>2, <1>3 DEF PageSound, FormDescends, Accepted
<1>6. CalmIsKept(p)'
  <2>1. CASE calm'[p] = calm[p]
    BY <1>1, <1>2, <1>3, <2>1 DEF PageSound, CalmIsKept, Pending
  <2>2. CASE Quiet(p) /\ shown[p] = latest /\ calm'[p] = calm[p] \cup { e }
    <3>1. /\ ~ Pending(p, "save") /\ fetch[p].phase = "none" /\ shown[p] = cache[p]
          /\ cache[p] = latest
      BY <2>2 DEF Quiet, Commands
    <3>2. QED
      BY <1>1, <1>2, <1>3, <2>2, <3>1 DEF PageSound, CalmIsKept, Pending
  <2>3. QED
    BY <1>2, <2>1, <2>2
<1>7. PageSound(p)'
  BY <1>4, <1>5, <1>6 DEF PageSound
<1>8. \A q \in Pages : q # p => Untouched(q)
  BY <1>2, <1>3 DEF Untouched, Looks
<1>9. ServerRests
  BY <1>3 DEF ServerRests
<1>10. QED
  BY <1>7, <1>8, <1>9, OnePageMoves

LEMMA SaveStep ==
  ASSUME EditorInv, EditorTypeOK', NEW p \in Pages, save(p)
  PROVE  EditorInv'
<1>1. PageSound(p) /\ EditorTypeOK
  BY DEF EditorInv
<1>2. PICK new : new = [ phase |-> "sent", expected |-> shown[p].version, text |-> form[p] ]
  OBVIOUS
<1>3. new \in Call /\ new.phase = "sent" /\ new.expected = shown[p].version /\ new.text = form[p]
  BY <1>1, <1>2 DEF EditorTypeOK, ServerItem, Call, Phase
<1>4. SetCall(p, "save", new)
  BY <1>2 DEF save
<1>5. /\ call'[p]["save"] = new /\ call'[p]["act"] = call[p]["act"]
      /\ \A q \in Pages : q # p => call'[q] = call[q]
  BY <1>1, <1>3, <1>4, CommandSet DEF Commands
<1>6. UNCHANGED <<latest, cache, shown, form, broken, fetch, told, raced, overwriters, calm>>
  BY DEF save, histories
<1>7. InOrderOfVersions(p)' /\ ToldIsFetched(p)'
  BY <1>1, <1>6 DEF PageSound, InOrderOfVersions, Precedes, ToldIsFetched
<1>8. CommandsFit(p)'
  BY <1>1, <1>3, <1>5, <1>6, PageTypes DEF PageSound, CommandsFit, Commands
<1>9. FormDescends(p)'
  <2>1. shown[p].version = latest.version => shown[p].text = latest.text
    BY <1>1, PageTypes DEF PageSound, InOrderOfVersions, Precedes
  <2>2. QED
    BY <1>1, <1>3, <1>5, <1>6, <2>1 DEF PageSound, FormDescends, Accepted
<1>10. CalmIsKept(p)'
  BY <1>1, <1>3, <1>5, <1>6 DEF PageSound, CalmIsKept, Pending
<1>11. PageSound(p)'
  BY <1>7, <1>8, <1>9, <1>10 DEF PageSound
<1>12. \A q \in Pages : q # p => Untouched(q)
  BY <1>5, <1>6 DEF Untouched, Looks
<1>13. ServerRests
  BY <1>6 DEF ServerRests
<1>14. QED
  BY <1>11, <1>12, <1>13, OnePageMoves

\* A command of the review and generation panels is sent.
LEMMA ActSent ==
  ASSUME EditorInv, EditorTypeOK', NEW p \in Pages, NEW new \in Call, SetCall(p, "act", new),
         new.phase \in { "sent", "handing" }, new.expected = shown[p].version,
         UNCHANGED <<latest, cache, shown, form, broken, fetch, histories>>
  PROVE  EditorInv'
<1>1. EditorTypeOK
  BY DEF EditorInv
<1>2. /\ call'[p]["act"] = new /\ call'[p]["save"] = call[p]["save"]
      /\ \A q \in Pages : q # p => call'[q] = call[q]
  BY <1>1, CommandSet DEF Commands
<1>3. ServerRests /\ \A q \in Pages : Looks(q) /\ fetch'[q] = fetch[q] /\ calm'[q] = calm[q]
  BY DEF ServerRests, Looks, histories
<1>4. new.expected <= shown[p].version
  BY <1>1, PageTypes
<1>5. PageSound(p)'
  BY <1>2, <1>3, <1>4, ActMoves
<1>6. \A q \in Pages : q # p => Untouched(q)
  BY <1>2, <1>3 DEF Untouched
<1>7. QED
  BY <1>3, <1>5, <1>6, OnePageMoves

LEMMA TransitionStep ==
  ASSUME EditorInv, EditorTypeOK', NEW p \in Pages, transition(p)
  PROVE  EditorInv'
<1>1. PICK new : new = [ phase |-> "sent", expected |-> shown[p].version, text |-> shown[p].text ]
  OBVIOUS
<1>2. new \in Call /\ new.phase = "sent" /\ new.expected = shown[p].version
  BY <1>1 DEF EditorInv, EditorTypeOK, ServerItem, Call, Phase
<1>3. SetCall(p, "act", new) /\ UNCHANGED <<latest, cache, shown, form, broken, fetch, histories>>
  BY <1>1 DEF transition, histories
<1>4. QED
  BY <1>2, <1>3, ActSent

LEMMA ApplyStep ==
  ASSUME EditorInv, EditorTypeOK', NEW p \in Pages, NEW e \in Edits, apply(p, e)
  PROVE  EditorInv'
<1>1. PICK new : new = [ phase |-> "sent", expected |-> shown[p].version, text |-> { e } ]
  OBVIOUS
<1>2. new \in Call /\ new.phase = "sent" /\ new.expected = shown[p].version
  BY <1>1 DEF EditorInv, EditorTypeOK, ServerItem, Call, Phase
<1>3. SetCall(p, "act", new) /\ UNCHANGED <<latest, cache, shown, form, broken, fetch, histories>>
  BY <1>1 DEF apply, histories
<1>4. QED
  BY <1>2, <1>3, ActSent

LEMMA HandoffStep ==
  ASSUME EditorInv, EditorTypeOK', NEW p \in Pages, handoff(p)
  PROVE  EditorInv'
<1>1. PICK new : new = [ phase |-> "handing", expected |-> shown[p].version, text |-> {} ]
  OBVIOUS
<1>2. new \in Call /\ new.phase = "handing" /\ new.expected = shown[p].version
  BY <1>1 DEF EditorInv, EditorTypeOK, ServerItem, Call, Phase
<1>3. SetCall(p, "act", new) /\ UNCHANGED <<latest, cache, shown, form, broken, fetch, histories>>
  BY <1>1 DEF handoff, histories
<1>4. QED
  BY <1>2, <1>3, ActSent

\* A window that gets the focus, and a reload asked for after a stale command.
LEMMA InvalidateStep ==
  ASSUME EditorInv, EditorTypeOK', NEW p \in Pages, Focus(p) \/ Reload(p)
  PROVE  EditorInv'
<1>1. /\ fetch'[p] = Asked /\ \A q \in Pages : q # p => fetch'[q] = fetch[q]
      /\ UNCHANGED <<latest, cache, shown, form, broken, call, told, raced, overwriters, calm>>
  BY DEF Focus, Reload, invalidate, histories, EditorInv, EditorTypeOK
<1>2. ServerRests /\ \A q \in Pages : Looks(q) /\ calm'[q] = calm[q] /\ call'[q] = call[q]
  BY <1>1 DEF ServerRests, Looks
<1>3. PageSound(p)'
  BY <1>1, <1>2, FetchStarts
<1>4. \A q \in Pages : q # p => Untouched(q)
  BY <1>1, <1>2 DEF Untouched
<1>5. QED
  BY <1>2, <1>3, <1>4, OnePageMoves

LEMMA ReadItemStep ==
  ASSUME EditorInv, EditorTypeOK', NEW p \in Pages, ReadItem(p)
  PROVE  EditorInv'
<1>1. PageSound(p) /\ EditorTypeOK
  BY DEF EditorInv
<1>2. PICK new : new = [ phase |-> "answered", item |-> latest ]
  OBVIOUS
<1>3. new.phase = "answered" /\ new.item = latest
  BY <1>2
<1>4. /\ fetch'[p] = new /\ \A q \in Pages : q # p => fetch'[q] = fetch[q]
      /\ fetch[p].phase = "asked"
      /\ UNCHANGED <<latest, cache, shown, form, broken, call, told, raced, overwriters, calm>>
  BY <1>1, <1>2 DEF ReadItem, histories, EditorTypeOK
<1>5. InOrderOfVersions(p)'
  BY <1>1, <1>3, <1>4, PageTypes DEF PageSound, InOrderOfVersions, Precedes
<1>6. CommandsFit(p)'
  BY <1>1, <1>4 DEF PageSound, CommandsFit
<1>7. FormDescends(p)'
  BY <1>1, <1>3, <1>4 DEF PageSound, FormDescends, Accepted
<1>8. ToldIsFetched(p)'
  BY <1>1, <1>3, <1>4 DEF PageSound, ToldIsFetched
<1>9. CalmIsKept(p)'
  BY <1>1, <1>3, <1>4 DEF PageSound, CalmIsKept, Pending
<1>10. PageSound(p)'
  BY <1>5, <1>6, <1>7, <1>8, <1>9 DEF PageSound
<1>11. \A q \in Pages : q # p => Untouched(q)
  BY <1>4 DEF Untouched, Looks
<1>12. ServerRests
  BY <1>4 DEF ServerRests
<1>13. QED
  BY <1>10, <1>11, <1>12, OnePageMoves

\* What the end of a fetch leaves of the commands.
LEMMA CallsAfterFetch ==
  ASSUME EditorInv, NEW p \in Pages, EndFetch(p),
         UNCHANGED <<latest, shown, form, told, raced, calm>>
  PROVE  /\ CommandsFit(p)'
         /\ fetch'[p].phase = "none"
         /\ call'[p]["save"].text = call[p]["save"].text
         /\ call'[p]["save"].expected = call[p]["save"].expected
         /\ (call'[p]["save"].phase = "sent") = (call[p]["save"].phase = "sent")
         /\ Accepted(p)' = Accepted(p)
         /\ Pending(p, "save")' = Pending(p, "save")
<1>1. PageSound(p) /\ EditorTypeOK
  BY DEF EditorInv
<1>2. /\ fetch'[p] = NoFetch
      /\ \A c \in Commands :
           /\ call'[p][c].text = call[p][c].text
           /\ call'[p][c].expected = call[p][c].expected
           /\ call'[p][c].phase = IF call[p][c].phase = "refetching" THEN "refetched"
                                  ELSE call[p][c].phase
  BY <1>1, FetchEnds
<1>3. CommandsFit(p)'
  BY <1>1, <1>2 DEF PageSound, CommandsFit
<1>4. "save" \in Commands
  BY DEF Commands
<1>5. QED
  BY <1>2, <1>3, <1>4, EditorRecords DEF Accepted, Pending

LEMMA FetchedStep ==
  ASSUME EditorInv, EditorTypeOK', NEW p \in Pages, Fetched(p)
  PROVE  EditorInv'
<1>1. PageSound(p) /\ EditorTypeOK
  BY DEF EditorInv
<1>2. /\ EndFetch(p) /\ fetch[p].phase = "answered"
      /\ UNCHANGED <<latest, shown, form, told, raced, overwriters, calm>>
  BY DEF Fetched, histories
<1>3. /\ cache'[p] = fetch[p].item /\ broken'[p] = FALSE
      /\ \A q \in Pages : q # p => cache'[q] = cache[q] /\ broken'[q] = broken[q]
  BY <1>1 DEF Fetched, EditorTypeOK
<1>4. \A q \in Pages : q # p => fetch'[q] = fetch[q] /\ call'[q] = call[q]
  BY <1>1, <1>2, FetchEnds
<1>5. /\ CommandsFit(p)' /\ fetch'[p].phase = "none"
      /\ call'[p]["save"].text = call[p]["save"].text
      /\ call'[p]["save"].expected = call[p]["save"].expected
      /\ (call'[p]["save"].phase = "sent") = (call[p]["save"].phase = "sent")
      /\ Accepted(p)' = Accepted(p) /\ Pending(p, "save")' = Pending(p, "save")
  BY <1>2, CallsAfterFetch
<1>6. InOrderOfVersions(p)'
  BY <1>1, <1>2, <1>3, <1>5, PageTypes DEF PageSound, InOrderOfVersions, Precedes
<1>7. FormDescends(p)'
  BY <1>1, <1>2, <1>3, <1>5 DEF PageSound, FormDescends
<1>8. ToldIsFetched(p)'
  BY <1>1, <1>2, <1>3, <1>5, PageTypes DEF PageSound, ToldIsFetched, InOrderOfVersions, Precedes
<1>9. CalmIsKept(p)'
  BY <1>1, <1>2, <1>3, <1>5, PageTypes DEF PageSound, CalmIsKept, InOrderOfVersions, Precedes
<1>10. PageSound(p)'
  BY <1>5, <1>6, <1>7, <1>8, <1>9 DEF PageSound
<1>11. \A q \in Pages : q # p => Untouched(q)
  BY <1>2, <1>3, <1>4 DEF Untouched, Looks
<1>12. ServerRests
  BY <1>2 DEF ServerRests
<1>13. QED
  BY <1>10, <1>11, <1>12, OnePageMoves

LEMMA FetchFailedStep ==
  ASSUME EditorInv, EditorTypeOK', NEW p \in Pages, FetchFailed(p)
  PROVE  EditorInv'
<1>1. PageSound(p) /\ EditorTypeOK
  BY DEF EditorInv
<1>2. /\ EndFetch(p)
      /\ UNCHANGED <<latest, cache, shown, form, told, raced, overwriters, calm>>
  BY DEF FetchFailed, histories
<1>3. broken'[p] = TRUE /\ \A q \in Pages : q # p => broken'[q] = broken[q]
  BY <1>1 DEF FetchFailed, EditorTypeOK
<1>4. \A q \in Pages : q # p => fetch'[q] = fetch[q] /\ call'[q] = call[q]
  BY <1>1, <1>2, FetchEnds
<1>5. /\ CommandsFit(p)' /\ fetch'[p].phase = "none"
      /\ call'[p]["save"].text = call[p]["save"].text
      /\ call'[p]["save"].expected = call[p]["save"].expected
      /\ (call'[p]["save"].phase = "sent") = (call[p]["save"].phase = "sent")
      /\ Accepted(p)' = Accepted(p) /\ Pending(p, "save")' = Pending(p, "save")
  BY <1>2, CallsAfterFetch
<1>6. InOrderOfVersions(p)'
  BY <1>1, <1>2, <1>5, PageTypes DEF PageSound, InOrderOfVersions, Precedes
<1>7. FormDescends(p)'
  BY <1>1, <1>2, <1>5 DEF PageSound, FormDescends
<1>8. ToldIsFetched(p)'
  BY <1>1, <1>2, <1>3, <1>5 DEF PageSound, ToldIsFetched
<1>9. CalmIsKept(p)'
  BY <1>1, <1>2, <1>5 DEF PageSound, CalmIsKept
<1>10. PageSound(p)'
  BY <1>5, <1>6, <1>7, <1>8, <1>9 DEF PageSound
<1>11. \A q \in Pages : q # p => Untouched(q)
  BY <1>2, <1>3, <1>4 DEF Untouched, Looks
<1>12. ServerRests
  BY <1>2 DEF ServerRests
<1>13. QED
  BY <1>10, <1>11, <1>12, OnePageMoves

LEMMA HydrateStep ==
  ASSUME EditorInv, EditorTypeOK', NEW p \in Pages, Hydrate(p)
  PROVE  EditorInv'
<1>1. PageSound(p) /\ EditorTypeOK
  BY DEF EditorInv
<1>2. /\ shown'[p] = cache[p] /\ form'[p] = cache[p].text /\ shown[p] # cache[p]
      /\ \A q \in Pages : q # p => shown'[q] = shown[q] /\ form'[q] = form[q]
      /\ UNCHANGED <<latest, cache, broken, fetch, call, told, raced, overwriters, calm>>
  BY <1>1 DEF Hydrate, EditorTypeOK, histories
<1>3. InOrderOfVersions(p)'
  BY <1>1, <1>2, PageTypes DEF PageSound, InOrderOfVersions, Precedes
<1>4. CommandsFit(p)'
  BY <1>1, <1>2, PageTypes DEF PageSound, CommandsFit, InOrderOfVersions, Precedes
<1>5. FormDescends(p)'
  BY <1>1, <1>2 DEF PageSound, FormDescends, Accepted
<1>6. ToldIsFetched(p)'
  BY <1>1, <1>2 DEF PageSound, ToldIsFetched
<1>7. CalmIsKept(p)'
  BY <1>1, <1>2 DEF PageSound, CalmIsKept, Pending
<1>8. PageSound(p)'
  BY <1>3, <1>4, <1>5, <1>6, <1>7 DEF PageSound
<1>9. \A q \in Pages : q # p => Untouched(q)
  BY <1>2 DEF Untouched, Looks
<1>10. ServerRests
  BY <1>2 DEF ServerRests
<1>11. QED
  BY <1>8, <1>9, <1>10, OnePageMoves

\* An accepted command leaves every page sound that did not save: the item is newer than
\* whatever it has seen or sent, and a save it has not finished is overtaken.
LEMMA OvertakenIsSound ==
  ASSUME EditorInv, NEW q \in Pages, NEW r \in SUBSET Pages, raced' = raced \cup r,
         Accepted(q) => q \in r,
         latest'.version = latest.version + 1,
         Looks(q), fetch'[q] = fetch[q], calm'[q] = {},
         call'[q]["save"] = call[q]["save"],
         \/ call'[q]["act"] = call[q]["act"]
         \/ call'[q]["act"].phase = "saved" /\ call'[q]["act"].expected = latest.version
  PROVE  PageSound(q)'
<1>1. PageSound(q) /\ EditorTypeOK
  BY DEF EditorInv
<1>2. /\ latest.version \in Nat /\ shown[q].version \in Nat /\ cache[q].version \in Nat
      /\ fetch[q].item.version \in Nat /\ told[q] \in Nat
      /\ \A c \in Commands : call[q][c].expected \in Nat
  BY <1>1, PageTypes
<1>3. PICK n \in Nat : n = latest.version + 1
  BY <1>2
<1>4. InOrderOfVersions(q)'
  BY <1>1, <1>2 DEF PageSound, Looks, InOrderOfVersions, Precedes
<1>5. CommandsFit(q)'
  BY <1>1, <1>2 DEF PageSound, Looks, CommandsFit, Commands
<1>6. FormDescends(q)'
  <2>1. SUFFICES ASSUME q \notin raced'
                 PROVE  /\ shown'[q].text \subseteq form'[q]
                        /\ ~ Accepted(q)'
                        /\ ~ (call'[q]["save"].phase = "sent"
                              /\ call'[q]["save"].expected = latest'.version)
    BY DEF FormDescends
  <2>2. q \notin raced /\ ~ Accepted(q)
    BY <2>1
  <2>3. shown[q].text \subseteq form[q]
    BY <1>1, <2>2 DEF PageSound, FormDescends
  <2>4. call[q]["save"].phase = "sent" => call[q]["save"].expected # latest.version + 1
    BY <1>1, <1>2 DEF PageSound, CommandsFit, InOrderOfVersions, Precedes, Commands
  <2>5. QED
    BY <2>2, <2>3, <2>4 DEF Looks, Accepted
<1>7. ToldIsFetched(q)'
  BY <1>1, <1>2 DEF PageSound, Looks, ToldIsFetched
<1>8. CalmIsKept(q)'
  BY DEF CalmIsKept
<1>9. QED
  BY <1>4, <1>5, <1>6, <1>7, <1>8 DEF PageSound

\* A save is accepted from a page that shows the item, and so descends from it.
LEMMA SaverIsSound ==
  ASSUME EditorInv, NEW p \in Pages,
         call[p]["save"].phase = "sent", call[p]["save"].expected = latest.version,
         latest'.version = latest.version + 1, latest'.text = call[p]["save"].text,
         Looks(p), fetch'[p] = fetch[p], calm'[p] = calm[p], raced \subseteq raced',
         call'[p]["act"] = call[p]["act"], call'[p]["save"].phase = "saved",
         call'[p]["save"].expected = latest.version,
         call'[p]["save"].text = call[p]["save"].text
  PROVE  PageSound(p)' /\ (p \notin raced => latest.text \subseteq call[p]["save"].text)
<1>1. PageSound(p) /\ EditorTypeOK
  BY DEF EditorInv
<1>2. /\ latest.version \in Nat /\ shown[p].version \in Nat /\ cache[p].version \in Nat
      /\ fetch[p].item.version \in Nat /\ told[p] \in Nat
      /\ \A c \in Commands : call[p][c].expected \in Nat
  BY <1>1, PageTypes
<1>3. latest.version <= shown[p].version
  BY <1>1 DEF PageSound, CommandsFit, Commands
<1>4. /\ shown[p].text = latest.text /\ shown[p].version = latest.version
      /\ cache[p].text = latest.text /\ cache[p].version = latest.version
      /\ fetch[p].phase = "answered" =>
           fetch[p].item.text = latest.text /\ fetch[p].item.version = latest.version
  BY <1>1, <1>2, <1>3 DEF PageSound, InOrderOfVersions, Precedes
<1>5. p \notin raced => /\ latest.text \subseteq call[p]["save"].text
                        /\ shown[p].text \subseteq form[p]
  BY <1>1 DEF PageSound, FormDescends
<1>6. InOrderOfVersions(p)'
  BY <1>2, <1>4 DEF Looks, InOrderOfVersions, Precedes
<1>7. CommandsFit(p)'
  BY <1>1, <1>2 DEF PageSound, Looks, CommandsFit, Commands
<1>8. FormDescends(p)'
  BY <1>4, <1>5 DEF Looks, FormDescends, Accepted
<1>9. ToldIsFetched(p)'
  BY <1>1, <1>2 DEF PageSound, Looks, ToldIsFetched
<1>10. CalmIsKept(p)'
  <2>1. calm[p] \subseteq form[p] /\ calm[p] \subseteq call[p]["save"].text
    BY <1>1 DEF PageSound, CalmIsKept, Pending
  <2>2. QED
    BY <1>1, <2>1 DEF PageSound, Looks, CalmIsKept
<1>11. QED
  BY <1>5, <1>6, <1>7, <1>8, <1>9, <1>10 DEF PageSound

LEMMA AcceptStep ==
  ASSUME EditorInv, EditorTypeOK', NEW p \in Pages, NEW c \in Commands, Accept(p, c)
  PROVE  EditorInv'
<1>1. EditorTypeOK /\ call[p][c] \in Call /\ latest.version \in Nat
  BY PageTypes DEF EditorInv
<1>2. PICK new : new = [ call[p][c] EXCEPT !.phase = "saved" ]
  OBVIOUS
<1>3. /\ new \in Call /\ new.phase = "saved" /\ new.expected = call[p][c].expected
      /\ new.text = call[p][c].text
  BY <1>1, <1>2 DEF Call, Phase
<1>4. SetCall(p, c, new)
  BY <1>2 DEF Accept
<1>5. /\ call'[p][c] = new
      /\ \A d \in Commands : d # c => call'[p][d] = call[p][d]
      /\ \A q \in Pages : q # p => call'[q] = call[q]
  BY <1>1, <1>3, <1>4, CommandSet
<1>6. /\ call[p][c].phase = "sent" /\ call[p][c].expected = latest.version
      /\ latest'.version = latest.version + 1 /\ latest'.text = call[p][c].text
  BY DEF Accept
<1>7. PICK r \in SUBSET Pages :
        /\ r = { q \in Pages : call[q]["save"].phase \in { "saved", "refetching", "refetched" } }
        /\ raced' = raced \cup r
  BY DEF Accept
<1>8. \A q \in Pages : Accepted(q) => q \in r
  BY <1>7 DEF Accepted
<1>9. \A q \in Pages : Looks(q) /\ fetch'[q] = fetch[q]
  BY DEF Accept, Looks
<1>10. \A q \in Pages : calm'[q] = IF q = p /\ c = "save" THEN calm[q] ELSE {}
  BY DEF Accept
<1>11. ASSUME NEW q \in Pages, q # p \/ c # "save"
       PROVE  PageSound(q)'
  <2>1. calm'[q] = {}
    BY <1>10, <1>11
  <2>2. "save" \in Commands /\ "act" \in Commands /\ (c = "save" \/ c = "act")
    BY DEF Commands
  <2>3. /\ call'[q]["save"] = call[q]["save"]
        /\ \/ call'[q]["act"] = call[q]["act"]
           \/ call'[q]["act"].phase = "saved" /\ call'[q]["act"].expected = latest.version
    BY <1>3, <1>5, <1>6, <1>11, <2>2
  <2>4. QED
    BY <1>6, <1>7, <1>8, <1>9, <2>1, <2>3, OvertakenIsSound
<1>12. ASSUME c = "save"
       PROVE  PageSound(p)' /\ (p \notin raced => latest.text \subseteq call[p]["save"].text)
  <2>1. call'[p]["act"] = call[p]["act"]
    BY <1>5, <1>12 DEF Commands
  <2>2. calm'[p] = calm[p] /\ raced \subseteq raced'
    BY <1>7, <1>10, <1>12
  <2>3. QED
    BY <1>3, <1>5, <1>6, <1>9, <1>12, <2>1, <2>2, SaverIsSound
<1>13. OverwriteHasCause'
  <2>1. OverwriteHasCause
    BY DEF EditorInv
  <2>2. \/ overwriters' = overwriters
        \/ c = "save" /\ ~ latest.text \subseteq call[p][c].text /\ overwriters' = overwriters \cup { p }
    BY DEF Accept
  <2>3. QED
    BY <1>7, <1>12, <2>1, <2>2 DEF OverwriteHasCause
<1>14. \A q \in Pages : PageSound(q)'
  BY <1>11, <1>12
<1>15. QED
  BY <1>13, <1>14 DEF EditorInv

\* A command that is answered with an error, or that is done, is forgotten.
LEMMA CommandEnds ==
  ASSUME EditorInv, EditorTypeOK', NEW p \in Pages, NEW c \in Commands, NEW new \in Call,
         SetCall(p, c, new), new.phase \in { "idle", "stale" },
         UNCHANGED <<latest, cache, shown, form, broken, fetch, told, raced, overwriters>>,
         calm'[p] = calm[p] \/ calm'[p] = {},
         \A q \in Pages : q # p => calm'[q] = calm[q]
  PROVE  EditorInv'
<1>1. EditorTypeOK
  BY DEF EditorInv
<1>2. /\ call'[p][c] = new /\ \A d \in Commands : d # c => call'[p][d] = call[p][d]
      /\ \A q \in Pages : q # p => call'[q] = call[q]
  BY <1>1, CommandSet
<1>3. ServerRests /\ \A q \in Pages : Looks(q) /\ fetch'[q] = fetch[q]
  BY DEF ServerRests, Looks
<1>4. CASE c = "save"
  <2>1. call'[p]["save"] = new /\ call'[p]["act"] = call[p]["act"]
    BY <1>2, <1>4 DEF Commands
  <2>2. PageSound(p)'
    BY <1>3, <2>1, SaveEnds
  <2>3. \A q \in Pages : q # p => Untouched(q)
    BY <1>2, <1>3 DEF Untouched
  <2>4. QED
    BY <1>3, <2>2, <2>3, OnePageMoves
<1>5. CASE c = "act"
  <2>1. call'[p]["act"] = new /\ call'[p]["save"] = call[p]["save"]
    BY <1>2, <1>5 DEF Commands
  <2>2. PageSound(p)'
    BY <1>3, <2>1, ActMoves
  <2>3. \A q \in Pages : q # p => Untouched(q)
    BY <1>2, <1>3 DEF Untouched
  <2>4. QED
    BY <1>3, <2>2, <2>3, OnePageMoves
<1>6. QED
  BY <1>4, <1>5 DEF Commands

LEMMA StaleStep ==
  ASSUME EditorInv, EditorTypeOK', NEW p \in Pages, NEW c \in Commands, Stale(p, c)
  PROVE  EditorInv'
<1>1. PICK new : new = [ NoCall EXCEPT !.phase = "stale" ]
  OBVIOUS
<1>2. new \in Call /\ new.phase = "stale"
  BY <1>1 DEF NoCall, Call, Phase
<1>3. SetCall(p, c, new) /\ UNCHANGED <<latest, cache, shown, form, broken, fetch, histories>>
  BY <1>1 DEF Stale, histories
<1>4. QED
  BY <1>2, <1>3, CommandEnds DEF histories

LEMMA LoseAnswerStep ==
  ASSUME EditorInv, EditorTypeOK', NEW p \in Pages, NEW c \in Commands, LoseAnswer(p, c)
  PROVE  EditorInv'
<1>1. SetCall(p, c, NoCall)
  BY DEF LoseAnswer
<1>2. UNCHANGED <<latest, cache, shown, form, broken, fetch, told, raced, overwriters>>
  BY DEF LoseAnswer
<1>3. calm'[p] = {} /\ \A q \in Pages : q # p => calm'[q] = calm[q]
  BY DEF LoseAnswer, EditorInv, EditorTypeOK
<1>4. QED
  BY <1>1, <1>2, <1>3, EditorRecords, CommandEnds

LEMMA ActedStep ==
  ASSUME EditorInv, EditorTypeOK', NEW p \in Pages, Acted(p)
  PROVE  EditorInv'
<1>1. SetCall(p, "act", NoCall) /\ UNCHANGED <<latest, cache, shown, form, broken, fetch, histories>>
  BY DEF Acted, histories
<1>2. "act" \in Commands
  BY DEF Commands
<1>3. QED
  BY <1>1, <1>2, EditorRecords, CommandEnds DEF histories

LEMMA HandoffRefusedStep ==
  ASSUME EditorInv, EditorTypeOK', NEW p \in Pages, HandoffRefused(p)
  PROVE  EditorInv'
<1>1. SetCall(p, "act", NoCall) /\ UNCHANGED <<latest, cache, shown, form, broken, fetch, histories>>
  BY DEF HandoffRefused, histories
<1>2. "act" \in Commands
  BY DEF Commands
<1>3. QED
  BY <1>1, <1>2, EditorRecords, CommandEnds DEF histories

\* The item at its version and with its text but for what is recorded of its draft, and
\* nothing calm: a page stays sound, whatever becomes of a handoff of its own.
LEMMA RecordedIsSound ==
  ASSUME EditorInv, NEW q \in Pages,
         latest'.version = latest.version, latest'.text = latest.text, raced' = raced,
         Looks(q), fetch'[q] = fetch[q], calm'[q] = {},
         call'[q]["save"] = call[q]["save"],
         \/ call'[q]["act"] = call[q]["act"]
         \/ call'[q]["act"].phase = "idle"
         \/ call'[q]["act"].phase = "saved" /\ call'[q]["act"].expected = 0
  PROVE  PageSound(q)'
<1>1. PageSound(q) /\ EditorTypeOK
  BY DEF EditorInv
<1>2. latest.version \in Nat \ { 0 }
  BY <1>1, PageTypes
<1>3. InOrderOfVersions(q)'
  BY <1>1 DEF PageSound, Looks, InOrderOfVersions, Precedes
<1>4. CommandsFit(q)'
  BY <1>1, <1>2 DEF PageSound, Looks, CommandsFit, Commands
<1>5. FormDescends(q)'
  BY <1>1 DEF PageSound, Looks, FormDescends, Accepted
<1>6. ToldIsFetched(q)'
  BY <1>1 DEF PageSound, Looks, ToldIsFetched
<1>7. CalmIsKept(q)'
  BY DEF CalmIsKept
<1>8. QED
  BY <1>3, <1>4, <1>5, <1>6, <1>7 DEF PageSound

\* A record that is made when a handoff ends, or by a look at the draft.
LEMMA RecordStep ==
  ASSUME EditorInv, EditorTypeOK', RecordPublication,
         UNCHANGED <<cache, shown, form, broken, fetch, told, raced, overwriters>>,
         \A q \in Pages :
           \/ call'[q] = call[q]
           \/ /\ call'[q]["save"] = call[q]["save"]
              /\ \/ call'[q]["act"].phase = "idle"
                 \/ call'[q]["act"].phase = "saved" /\ call'[q]["act"].expected = 0
  PROVE  EditorInv'
<1>1. EditorTypeOK /\ OverwriteHasCause
  BY DEF EditorInv
<1>2. /\ latest'.version = latest.version /\ latest'.text = latest.text
      /\ \A q \in Pages : calm'[q] = {}
  BY <1>1, RecordTypes
<1>3. \A q \in Pages : Looks(q) /\ fetch'[q] = fetch[q]
  BY DEF Looks
<1>4. ASSUME NEW q \in Pages PROVE PageSound(q)'
  <2>1. /\ call'[q]["save"] = call[q]["save"]
        /\ \/ call'[q]["act"] = call[q]["act"]
           \/ call'[q]["act"].phase = "idle"
           \/ call'[q]["act"].phase = "saved" /\ call'[q]["act"].expected = 0
    OBVIOUS
  <2>2. QED
    BY <1>2, <1>3, <2>1, RecordedIsSound
<1>5. OverwriteHasCause'
  BY <1>1 DEF OverwriteHasCause
<1>6. QED
  BY <1>4, <1>5 DEF EditorInv

LEMMA HandedOffStep ==
  ASSUME EditorInv, EditorTypeOK', NEW p \in Pages, HandedOff(p)
  PROVE  EditorInv'
<1>1. EditorTypeOK
  BY DEF EditorInv
<1>2. PICK new : new = [ NoCall EXCEPT !.phase = "saved" ]
  OBVIOUS
<1>3. new \in Call /\ new.phase = "saved" /\ new.expected = 0
  BY <1>2 DEF NoCall, Call, Phase
<1>4. SetCall(p, "act", new) /\ "act" \in Commands
  BY <1>2 DEF HandedOff, Commands
<1>5. /\ call'[p]["act"] = new /\ call'[p]["save"] = call[p]["save"]
      /\ \A q \in Pages : q # p => call'[q] = call[q]
  BY <1>1, <1>3, <1>4, CommandSet DEF Commands
<1>6. UNCHANGED <<cache, shown, form, broken, fetch, told, raced, overwriters>>
  BY DEF HandedOff
<1>7. CASE RecordPublication
  BY <1>3, <1>5, <1>6, <1>7, RecordStep
<1>8. CASE UNCHANGED <<latest, calm>>
  <2>1. ServerRests /\ \A q \in Pages : Looks(q) /\ fetch'[q] = fetch[q] /\ calm'[q] = calm[q]
    BY <1>6, <1>8 DEF ServerRests, Looks
  <2>2. PageSound(p) /\ latest.version \in Nat \ { 0 }
    BY <1>1, PageTypes DEF EditorInv
  <2>3. CommandsFit(p)'
    BY <1>3, <1>5, <2>1, <2>2 DEF PageSound, CommandsFit, Commands, ServerRests, Looks
  <2>4. /\ InOrderOfVersions(p)' /\ FormDescends(p)' /\ ToldIsFetched(p)' /\ CalmIsKept(p)'
    BY <1>5, <2>1, <2>2 DEF PageSound, InOrderOfVersions, Precedes, FormDescends, Accepted,
       ToldIsFetched, CalmIsKept, Pending, ServerRests, Looks
  <2>5. PageSound(p)'
    BY <2>3, <2>4 DEF PageSound
  <2>6. \A q \in Pages : q # p => Untouched(q)
    BY <1>5, <2>1 DEF Untouched
  <2>7. QED
    BY <2>1, <2>5, <2>6, OnePageMoves
<1>9. QED
  BY <1>7, <1>8 DEF HandedOff

LEMMA HandoffFailedStep ==
  ASSUME EditorInv, EditorTypeOK', NEW p \in Pages, HandoffFailed(p)
  PROVE  EditorInv'
<1>1. EditorTypeOK /\ SetCall(p, "act", NoCall) /\ "act" \in Commands
  BY DEF EditorInv, HandoffFailed, Commands
<1>2. /\ call'[p]["act"] = NoCall /\ call'[p]["save"] = call[p]["save"]
      /\ \A q \in Pages : q # p => call'[q] = call[q]
  BY <1>1, EditorRecords, CommandSet DEF Commands
<1>3. /\ RecordPublication
      /\ UNCHANGED <<cache, shown, form, broken, fetch, told, raced, overwriters>>
  BY DEF HandoffFailed
<1>4. QED
  BY <1>2, <1>3, EditorRecords, RecordStep

LEMMA DraftMissingStep ==
  ASSUME EditorInv, EditorTypeOK', DraftMissing
  PROVE  EditorInv'
<1>1. /\ RecordPublication
      /\ UNCHANGED <<cache, shown, form, broken, fetch, call, told, raced, overwriters>>
  BY DEF DraftMissing
<1>2. QED
  BY <1>1, RecordStep

LEMMA AnsweredStep ==
  ASSUME EditorInv, EditorTypeOK', NEW p \in Pages, NEW c \in Commands, Answered(p, c)
  PROVE  EditorInv'
<1>1. PageSound(p) /\ EditorTypeOK /\ call[p][c] \in Call
  BY PageTypes DEF EditorInv
<1>2. PICK new : new = [ phase |-> "refetching", expected |-> 0,
                         text |-> IF c = "save" THEN call[p][c].text ELSE {} ]
  OBVIOUS
<1>3. /\ new \in Call /\ new.phase = "refetching"
      /\ c = "save" => new.text = call[p][c].text
  BY <1>1, <1>2 DEF Call, Phase
<1>4. SetCall(p, c, new)
  BY <1>2 DEF Answered
<1>5. /\ call'[p][c] = new /\ \A d \in Commands : d # c => call'[p][d] = call[p][d]
      /\ \A q \in Pages : q # p => call'[q] = call[q]
  BY <1>1, <1>3, <1>4, CommandSet
<1>6. /\ fetch'[p] = Asked /\ \A q \in Pages : q # p => fetch'[q] = fetch[q]
      /\ call[p][c].phase = "saved"
      /\ UNCHANGED <<latest, cache, shown, form, broken, raced, overwriters, calm>>
  BY <1>1 DEF Answered, invalidate, EditorTypeOK
<1>7. /\ \A q \in Pages : q # p => told'[q] = told[q]
      /\ told'[p] = IF told[p] <= call[p][c].expected THEN call[p][c].expected + 1 ELSE told[p]
  BY <1>1 DEF Answered, EditorTypeOK
<1>8. fetch'[p].phase = "asked"
  BY <1>6, EditorRecords
<1>9. InOrderOfVersions(p)'
  BY <1>1, <1>6, <1>8 DEF PageSound, InOrderOfVersions
<1>10. CommandsFit(p)'
  BY <1>1, <1>3, <1>5, <1>6 DEF PageSound, CommandsFit
<1>11. FormDescends(p)'
  <2>1. CASE c = "save"
    BY <1>1, <1>3, <1>5, <1>6, <1>8, <2>1 DEF PageSound, FormDescends, Accepted
  <2>2. CASE c # "save"
    <3>1. call'[p]["save"] = call[p]["save"]
      BY <1>5, <2>2 DEF Commands
    <3>2. QED
      BY <1>1, <1>6, <1>8, <3>1 DEF PageSound, FormDescends, Accepted
  <2>3. QED
    BY <2>1, <2>2
<1>12. ToldIsFetched(p)'
  <2>1. call[p][c].expected < latest.version
    BY <1>1, <1>6 DEF PageSound, CommandsFit
  <2>2. call[p][c].expected \in Nat /\ latest.version \in Nat /\ told[p] \in Nat
    BY <1>1, PageTypes
  <2>3. told'[p] <= latest.version
    BY <1>1, <1>7, <2>1, <2>2 DEF PageSound, ToldIsFetched
  <2>4. QED
    BY <1>6, <1>8, <2>3 DEF ToldIsFetched
<1>13. CalmIsKept(p)'
  <2>1. CASE c = "save"
    BY <1>1, <1>3, <1>5, <1>6, <1>8, <2>1 DEF PageSound, CalmIsKept, Pending
  <2>2. CASE c # "save"
    <3>1. call'[p]["save"] = call[p]["save"]
      BY <1>5, <2>2 DEF Commands
    <3>2. QED
      BY <1>1, <1>6, <1>8, <3>1 DEF PageSound, CalmIsKept, Pending
  <2>3. QED
    BY <2>1, <2>2
<1>14. PageSound(p)'
  BY <1>9, <1>10, <1>11, <1>12, <1>13 DEF PageSound
<1>15. \A q \in Pages : q # p => Untouched(q)
  BY <1>5, <1>6, <1>7 DEF Untouched, Looks
<1>16. ServerRests
  BY <1>6 DEF ServerRests
<1>17. QED
  BY <1>14, <1>15, <1>16, OnePageMoves

LEMMA SavedStep ==
  ASSUME EditorInv, EditorTypeOK', NEW p \in Pages, Saved(p)
  PROVE  EditorInv'
<1>1. PageSound(p) /\ EditorTypeOK
  BY DEF EditorInv
<1>2. SetCall(p, "save", NoCall) /\ "save" \in Commands
  BY DEF Saved, Commands
<1>3. /\ call'[p]["save"] = NoCall /\ call'[p]["act"] = call[p]["act"]
      /\ \A q \in Pages : q # p => call'[q] = call[q]
  BY <1>1, <1>2, EditorRecords, CommandSet DEF Commands
<1>4. /\ call[p]["save"].phase = "refetched" /\ form'[p] = call[p]["save"].text
      /\ \A q \in Pages : q # p => form'[q] = form[q]
      /\ UNCHANGED <<latest, cache, shown, broken, fetch, told, raced, overwriters, calm>>
  BY <1>1 DEF Saved, EditorTypeOK, histories
<1>5. InOrderOfVersions(p)' /\ ToldIsFetched(p)'
  BY <1>1, <1>4 DEF PageSound, InOrderOfVersions, Precedes, ToldIsFetched
<1>6. CommandsFit(p)'
  BY <1>1, <1>3, <1>4, EditorRecords DEF PageSound, CommandsFit, Commands
<1>7. FormDescends(p)'
  BY <1>1, <1>3, <1>4, EditorRecords DEF PageSound, FormDescends, Accepted
<1>8. CalmIsKept(p)'
  BY <1>1, <1>3, <1>4, EditorRecords DEF PageSound, CalmIsKept, Pending
<1>9. PageSound(p)'
  BY <1>5, <1>6, <1>7, <1>8 DEF PageSound
<1>10. \A q \in Pages : q # p => Untouched(q)
  BY <1>3, <1>4 DEF Untouched, Looks
<1>11. ServerRests
  BY <1>4 DEF ServerRests
<1>12. QED
  BY <1>9, <1>10, <1>11, OnePageMoves

LEMMA EditorInvInit == EditorInit => EditorInv
<1> SUFFICES ASSUME EditorInit PROVE EditorInv
  OBVIOUS
<1>1. EditorTypeOK
  BY EditorRecords, EditorAssumption DEF EditorInit, EditorTypeOK
<1>2. OverwriteHasCause
  BY DEF EditorInit, OverwriteHasCause
<1>3. ASSUME NEW p \in Pages PROVE PageSound(p)
  <2>1. /\ shown[p] = FirstItem /\ cache[p] = FirstItem /\ latest = FirstItem /\ form[p] = {}
        /\ FirstItem.text = {} /\ FirstItem.version = 1
        /\ fetch[p].phase = "none" /\ told[p] = 1 /\ calm[p] = {}
        /\ \A c \in Commands : call[p][c].phase = "idle"
    BY EditorRecords DEF EditorInit, FirstItem
  <2>2. "save" \in Commands
    BY DEF Commands
  <2>3. QED
    BY <2>1, <2>2 DEF PageSound, InOrderOfVersions, Precedes, CommandsFit, FormDescends,
       Accepted, ToldIsFetched, CalmIsKept, Pending
<1>4. QED
  BY <1>1, <1>2, <1>3 DEF EditorInv

LEMMA EditorInvStep == EditorInv /\ [EditorNext]_editorVars => EditorInv'
<1> SUFFICES ASSUME EditorInv, [EditorNext]_editorVars PROVE EditorInv'
  OBVIOUS
<1>1. EditorTypeOK'
  BY EditorTypeStep DEF EditorInv
<1>2. CASE UNCHANGED editorVars
  <2>1. ServerRests /\ \A p \in Pages : Untouched(p)
    BY <1>2 DEF editorVars, ServerRests, Untouched, Looks
  <2>2. \A p \in Pages : PageSound(p)'
    BY <2>1, UntouchedIsSound DEF EditorInv
  <2>3. QED
    BY <1>1, <2>1, <2>2 DEF EditorInv, OverwriteHasCause, ServerRests
<1>3. ASSUME NEW p \in Pages, NEW e \in Edits, set(p, e) \/ apply(p, e)
      PROVE  EditorInv'
  BY <1>1, <1>3, SetStep, ApplyStep
<1>4. ASSUME NEW p \in Pages,
             \/ save(p) \/ transition(p) \/ handoff(p)
             \/ HandoffRefused(p) \/ HandedOff(p) \/ HandoffFailed(p)
             \/ Focus(p) \/ Reload(p) \/ ReadItem(p) \/ Fetched(p) \/ FetchFailed(p)
             \/ Hydrate(p) \/ Saved(p) \/ Acted(p)
      PROVE  EditorInv'
  BY <1>1, <1>4, SaveStep, TransitionStep, HandoffStep, HandoffRefusedStep, HandedOffStep,
     HandoffFailedStep, InvalidateStep, ReadItemStep, FetchedStep, FetchFailedStep, HydrateStep,
     SavedStep, ActedStep
<1>5. ASSUME NEW p \in Pages, NEW c \in Commands,
             Accept(p, c) \/ Stale(p, c) \/ LoseAnswer(p, c) \/ Answered(p, c)
      PROVE  EditorInv'
  BY <1>1, <1>5, AcceptStep, StaleStep, LoseAnswerStep, AnsweredStep
<1>6. CASE DraftMissing
  BY <1>1, <1>6, DraftMissingStep
<1>7. QED
  BY <1>2, <1>3, <1>4, <1>5, <1>6 DEF EditorNext

THEOREM EditorInvariance == EditorSpec => []EditorInv
<1>1. QED
  BY EditorInvInit, EditorInvStep, PTL DEF EditorSpec

\* Whatever the users, the server and the connection do, in whatever order, the editor's
\* pages, commands and fetches stay what the types say.
THEOREM EditorTypeCorrect == EditorSpec => []EditorTypeOK
<1>1. EditorInv => EditorTypeOK
  BY DEF EditorInv
<1>2. QED
  BY <1>1, EditorInvariance, PTL

\* An accepted save drops another's edit only on a page whose earlier save was overtaken
\* before the page was done with it: otherwise the version sent vouches for the form, for
\* any number of pages, commands, lost answers and failed fetches.
THEOREM OverwriteExplained == EditorSpec => []OverwriteHasCause
<1>1. EditorInv => OverwriteHasCause
  BY DEF EditorInv
<1>2. QED
  BY <1>1, EditorInvariance, PTL

\* A page at rest shows a version no older than those it was told it has made.
THEOREM OwnWritesShown == EditorSpec => []OwnWritesSeen
<1>1. EditorInv => OwnWritesSeen
  <2>1. ASSUME EditorInv, NEW p \in Pages, Quiet(p) PROVE told[p] <= shown[p].version
    <3>1. ToldIsFetched(p)
      BY <2>1 DEF EditorInv, PageSound
    <3>2. QED
      BY <2>1, <3>1 DEF Quiet, ToldIsFetched
  <2>2. QED
    BY <2>1 DEF OwnWritesSeen
<1>2. QED
  BY <1>1, EditorInvariance, PTL

\* What was typed while nothing was going on is in the form or in the item until a version
\* appears that does not come from this form, or what became of a handoff is recorded on
\* the item: then the form is filled anew at the same version.
THEOREM QuietTypingStays == EditorSpec => []QuietTypingKept
<1>1. EditorInv => QuietTypingKept
  BY DEF EditorInv, PageSound, CalmIsKept, QuietTypingKept
<1>2. QED
  BY <1>1, EditorInvariance, PTL
=============================================================================
