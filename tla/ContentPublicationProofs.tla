----------------------- MODULE ContentPublicationProofs -----------------------
(***************************************************************************)
(* Proofs about ContentPublication, for every number of requests and keys, *)
(* every bound on the versions, and everything the environment may do.     *)
(***************************************************************************)
EXTENDS ContentPublication, TLAPS

-----------------------------------------------------------------------------
(* The inductive invariant *)

\* What is past review stays past review.
PastReview == { "READY_TO_PUBLISH", "PUBLISHED", "ARCHIVED" }

\* A handler is only ever at work, and something is only ever linked or recorded, once the
\* item was ready; only a client that ran ahead can have led it back since.
HandoffIsLate ==
  /\ version = 0 => status = "IDEA"
  /\ \/ ahead # {}
     \/ status \in PastReview
     \/ /\ publicationStatus = "NOT_PUBLISHED" /\ binding.post = 0
        /\ \A r \in Requests : request[r] = NoRequest

UnusedIsBlank == \A k \in Keys : ~ Ours(k) => operations[k].kind = "NONE"

UnlinkedUntilCompleted == binding.status \in { "NONE", "PENDING" } => binding.post = 0

\* The request has a journal row under its key, and may still make its call or record its
\* outcome.
Announced(q) == q.phase \in { "reserved", "confirmed", "failed" }

PostsOf(key) == { p \in DOMAIN posts : posts[p].key = key }

\* Which phases a handler goes through.
PhaseSound(q) ==
  /\ q.phase = "idle" => q = NoRequest
  /\ q.phase \in { "loaded", "unbound", "bound", "reserved", "confirmed", "failed" } =>
       q.kind \in { "CREATE", "UPDATE" } /\ q.key \in Keys
  /\ q.phase \in { "checking", "seen", "missing" } => q.kind = "NONE"
  /\ q.phase = "unbound" => q.kind = "CREATE"

\* The row an announced request holds is its own and still PENDING.
RowSound(q) ==
  Announced(q) =>
    operations[q.key] = [ status |-> "PENDING", kind |-> q.kind, revision |-> q.revision ]

\* A create makes its post in the call; an update, or a check, works on a linked one.
PostSound(q) ==
  /\ q.kind = "CREATE" /\ q.phase = "reserved" => PostsOf(q.key) = {}
  /\ q.kind = "CREATE" /\ q.phase = "confirmed" => q.post \in PostsOf(q.key)
  /\ \/ q.kind = "UPDATE" /\ q.phase \in { "bound", "reserved", "confirmed", "failed" }
     \/ q.phase \in { "checking", "seen", "missing" }
     => /\ q.post \in DOMAIN posts /\ binding.post # 0
        /\ operations[posts[q.post].key].status = "COMPLETED"

RequestSound ==
  \A r \in Requests :
    PhaseSound(request[r]) /\ RowSound(request[r]) /\ PostSound(request[r])

\* No two requests hold the row of one key.
KeysApart ==
  \A r, s \in Requests :
    r # s /\ Announced(request[r]) /\ Announced(request[s]) => request[r].key # request[s].key

\* Nothing has gone wrong: no failure, no doubt, and every operation sent one revision.
Quiet ==
  /\ "doubted" \notin causes
  /\ \A k \in Keys : operations[k].status # "FAILED"
  /\ \A j, k \in Keys : Ours(j) /\ Ours(k) => operations[j].revision = operations[k].revision

\* A create past the check for a binding.
Creating(q) == q.kind = "CREATE" /\ q.phase \in { "bound", "reserved", "confirmed", "failed" }

\* As long as nothing has gone wrong one create owns the binding, from its reservation until
\* it links the only post; whoever gets past it brings another revision.
OneOwner ==
  Quiet =>
    /\ Len(posts) <= 1
    /\ \A r \in Requests : ~ request[r].error
    /\ \/ /\ binding.status = "NONE" /\ posts = <<>>
          /\ \A r \in Requests : ~ Creating(request[r])
       \/ /\ binding.status = "PENDING"
          /\ \A r, s \in Requests : Creating(request[r]) /\ Creating(request[s]) => r = s
          /\ \A r \in Requests : Creating(request[r]) /\ request[r].phase \in { "bound", "reserved" }
                                   => posts = <<>>
       \/ /\ binding.status = "ACTIVE" /\ binding.post # 0
          /\ \A r \in Requests : Creating(request[r]) =>
               request[r].phase = "bound" /\ request[r].revision # binding.revision

IInv ==
  /\ TypeOK /\ HandoffIsLate /\ UnusedIsBlank /\ UnlinkedUntilCompleted
  /\ KeyCreatesOnce /\ JournalCoversBlogger /\ BindingHonest
  /\ RequestSound /\ KeysApart /\ OneOwner

-----------------------------------------------------------------------------
(* Sequences and frames *)

LEMMA Appended ==
  ASSUME NEW S, NEW seq \in Seq(S), NEW e \in S
  PROVE  /\ Append(seq, e) \in Seq(S)
         /\ Len(seq) + 1 \in Nat \ DOMAIN seq
         /\ DOMAIN Append(seq, e) = DOMAIN seq \cup { Len(seq) + 1 }
         /\ \A i \in DOMAIN seq : Append(seq, e)[i] = seq[i]
         /\ Append(seq, e)[Len(seq) + 1] = e
         /\ Len(Append(seq, e)) = Len(seq) + 1
<1>1. /\ DOMAIN seq = 1 .. Len(seq) /\ Len(seq) \in Nat
      /\ DOMAIN Append(seq, e) = 1 .. Len(seq) + 1
  OBVIOUS
<1>2. 1 .. Len(seq) + 1 = (1 .. Len(seq)) \cup { Len(seq) + 1 }
  BY <1>1
<1>3. \A i \in 1 .. Len(seq) : Append(seq, e)[i] = seq[i]
  BY <1>1
<1> QED  BY <1>1, <1>2, <1>3

LEMMA Replaced ==
  ASSUME NEW S, NEW seq \in Seq(S), NEW i \in DOMAIN seq, NEW e \in S
  PROVE  /\ [ seq EXCEPT ![i] = e ] \in Seq(S)
         /\ DOMAIN [ seq EXCEPT ![i] = e ] = DOMAIN seq
         /\ Len([ seq EXCEPT ![i] = e ]) = Len(seq)
OBVIOUS

LEMMA Indices ==
  ASSUME NEW S, NEW seq \in Seq(S)
  PROVE  /\ DOMAIN seq \subseteq Nat \ {0} /\ \A i \in DOMAIN seq : seq[i] \in S
         /\ Len(seq) \in Nat /\ (seq = <<>> <=> Len(seq) = 0) /\ (seq = <<>> <=> DOMAIN seq = {})
OBVIOUS

\* The types that a step relies on, spelled out.
LEMMA Typed ==
  ASSUME TypeOK
  PROVE  /\ request \in [ Requests -> Request ] /\ operations \in [ Keys -> Operation ]
         /\ posts \in Seq(Post) /\ binding \in Binding
         /\ \A r \in Requests : request[r] \in Request
         /\ \A p \in DOMAIN posts : posts[p] \in Post
         /\ DOMAIN posts \subseteq Nat \ {0} /\ Len(posts) \in Nat
         /\ version \in Nat /\ body \in Nat
BY Indices DEF TypeOK, LifecycleTypeOK

Alone(r) == \A s \in Requests : s # r => request'[s] = request[s]

LEMMA SetAlone ==
  ASSUME TypeOK, NEW r \in Requests, NEW held, Set(r, held)
  PROVE  /\ Alone(r) /\ request'[r] = held
         /\ held \in Request => request' \in [ Requests -> Request ]
BY DEF TypeOK, Set, Alone

LEMMA NoRequestTyped == NoRequest \in Request
BY PublicationAssumption DEF NoRequest, Request

Phases ==
  { "loaded", "unbound", "bound", "reserved", "confirmed", "failed", "checking", "seen", "missing" }

\* A request that moves on keeps what it holds.
LEMMA GotoHolds ==
  ASSUME TypeOK, NEW r \in Requests, NEW phase \in Phases, Goto(r, phase)
  PROVE  /\ request' \in [ Requests -> Request ] /\ Alone(r)
         /\ request'[r].phase = phase /\ request'[r].kind = request[r].kind
         /\ request'[r].key = request[r].key /\ request'[r].revision = request[r].revision
         /\ request'[r].post = request[r].post /\ request'[r].error = request[r].error
<1>1. request[r] \in Request
  BY DEF TypeOK
<1>2. [ request[r] EXCEPT !.phase = phase ] \in Request
  BY <1>1 DEF Request, Phases
<1> QED  BY <1>1, <1>2, SetAlone DEF Goto, Request

LEMMA FinishHolds ==
  ASSUME TypeOK, NEW r \in Requests, Finish(r)
  PROVE  /\ request' \in [ Requests -> Request ] /\ Alone(r) /\ request'[r] = NoRequest
BY SetAlone, NoRequestTyped DEF Finish

-----------------------------------------------------------------------------
(* Types *)

LEMMA LifecycleTyped ==
  ASSUME LifecycleTypeOK, LifecycleNext
  PROVE  LifecycleTypeOK'
<1>1. CASE Create
  BY <1>1 DEF Create, LifecycleTypeOK, ContentEditorialStatus
<1>2. CASE Edit
  BY <1>2 DEF Edit, LifecycleTypeOK
<1>3. CASE Move
  BY <1>3 DEF Move, LifecycleTypeOK
<1>4. CASE Decide
  BY <1>4 DEF Decide, LifecycleTypeOK, ContentEditorialStatus, ContentReviewDecision
<1>5. CASE Redraft
  BY <1>5 DEF Redraft, LifecycleTypeOK, ContentEditorialStatus
<1>6. CASE EditAhead \/ MoveAhead
  <2>1. version + 1 \in Nat /\ version' = version + 1 /\ ahead' = ahead \cup { version + 1 }
    BY <1>6 DEF EditAhead, MoveAhead, RunAhead, LifecycleTypeOK
  <2>2. status' \in ContentEditorialStatus /\ approved' = approved /\ body' \in { body, version + 1 }
    BY <1>6 DEF EditAhead, MoveAhead, LifecycleTypeOK
  <2> QED  BY <2>1, <2>2 DEF LifecycleTypeOK
<1> QED  BY <1>1, <1>2, <1>3, <1>4, <1>5, <1>6 DEF LifecycleNext

LEMMA InitTyped == Init => TypeOK
<1> SUFFICES ASSUME Init PROVE TypeOK
  OBVIOUS
<1>1. LifecycleTypeOK
  BY DEF Init, LifecycleInit, LifecycleTypeOK, ContentEditorialStatus
<1>2. binding \in Binding /\ operations \in [ Keys -> Operation ]
  BY DEF Init, Binding, Operation
<1>3. posts \in Seq(Post)
  BY DEF Init
<1> QED  BY <1>1, <1>2, <1>3, NoRequestTyped DEF Init, TypeOK

\* What a request in flight does, the first step and an early end included.
RequestStep(r) ==
  \/ \E kind \in { "CREATE", "UPDATE" }, key \in Keys : synchronize(r, kind, key)
  \/ state(r)
  \/ Continue(r)
  \/ HandlerThrows(r)
  \/ Crash(r)

EnvironmentStep ==
  \/ EditorialStep
  \/ ChangeOnBlogger
  \/ \E k \in Keys : UseKeyElsewhere(k)

LEMMA NextSteps ==
  Next <=> EnvironmentStep \/ \E r \in Requests : RequestStep(r)
BY DEF Next, RequestStep, EnvironmentStep

Lifecycle ==
  /\ version' = version /\ status' = status /\ body' = body
  /\ approved' = approved /\ ahead' = ahead

LEMMA RequestStepTyped ==
  ASSUME TypeOK, RequestSound, NEW r \in Requests, RequestStep(r)
  PROVE  TypeOK'
<1> DEFINE q == request[r]
<1>0. /\ request \in [ Requests -> Request ] /\ operations \in [ Keys -> Operation ]
      /\ posts \in Seq(Post) /\ binding \in Binding /\ q \in Request
      /\ \A p \in DOMAIN posts : posts[p] \in Post
      /\ DOMAIN posts \subseteq Nat \ {0} /\ Len(posts) \in Nat
      /\ version \in Nat /\ body \in Nat
      /\ publicationStatus \in { "NOT_PUBLISHED", "DRAFT_SENT", "FAILED" }
  BY Typed DEF TypeOK
<1>r. PhaseSound(q) /\ RowSound(q) /\ PostSound(q)
  BY DEF RequestSound
<1>f. Finish(r) => request' \in [ Requests -> Request ]
  BY FinishHolds
<1>g. \A phase \in Phases : Goto(r, phase) => request' \in [ Requests -> Request ]
  BY GotoHolds
<1>h. \A held \in Request : Set(r, held) => request' \in [ Requests -> Request ]
  BY SetAlone
<1> HIDE DEF q
<1>s. Lifecycle
  BY DEF RequestStep, synchronize, state, Continue, HandlerThrows, Crash, FindBindingForCreate,
         FindBindingForUpdate, reserveBinding, reserveOperation, ProviderCreatesDraft,
         ProviderUpdatesPost, ProviderRefuses, LoseAnswer, CompleteSync, RecordFailure,
         getPost, ApplyState, MarkItemFailed, lifecycleVars, Lifecycle
<1>t. /\ request' \in [ Requests -> Request ] /\ operations' \in [ Keys -> Operation ]
      /\ posts' \in Seq(Post) /\ binding' \in Binding /\ causes' \subseteq Causes
      /\ publicationStatus' \in { "NOT_PUBLISHED", "DRAFT_SENT", "FAILED" }
      => TypeOK'
  BY <1>s DEF Lifecycle, TypeOK, LifecycleTypeOK
<1>1. ASSUME NEW kind \in { "CREATE", "UPDATE" }, NEW key \in Keys, synchronize(r, kind, key)
      PROVE  TypeOK'
  <2>1. [ NoRequest EXCEPT !.phase = "loaded", !.kind = kind, !.key = key,
                           !.revision = version, !.body = body ] \in Request
    BY <1>0, NoRequestTyped DEF Request
  <2> QED  BY <1>0, <1>h, <1>t, <1>1, <2>1 DEF synchronize, TypeOK
<1>2. CASE state(r)
  <2>1. [ NoRequest EXCEPT !.phase = "checking", !.post = binding.post,
                           !.error = (binding.status = "ERROR") ] \in Request
    BY <1>0, NoRequestTyped DEF Request, Binding
  <2> QED  BY <1>0, <1>h, <1>t, <1>2, <2>1 DEF state, TypeOK
<1>3. CASE FindBindingForCreate(r)
  BY <1>0, <1>f, <1>g, <1>t, <1>3 DEF FindBindingForCreate, Phases, TypeOK
<1>4. CASE FindBindingForUpdate(r)
  <2>1. [ q EXCEPT !.phase = "bound", !.post = binding.post ] \in Request
    BY <1>0 DEF Request, Binding
  <2> QED  BY <1>0, <1>f, <1>h, <1>t, <1>4, <2>1 DEF FindBindingForUpdate, TypeOK, q
<1>5. CASE reserveBinding(r)
  BY <1>0, <1>f, <1>g, <1>t, <1>5 DEF reserveBinding, Phases, TypeOK, Binding
<1>6. CASE reserveOperation(r)
  <2>1. q.kind \in { "CREATE", "UPDATE" } /\ q.key \in Keys
    BY <1>r, <1>6 DEF reserveOperation, PhaseSound, q
  <2>2. [ status |-> "PENDING", kind |-> q.kind, revision |-> q.revision ] \in Operation
    BY <1>0 DEF Request, Operation
  <2>3. operations' \in [ Keys -> Operation ]
    BY <1>0, <1>6, <2>1, <2>2 DEF reserveOperation, q
  <2> QED  BY <1>0, <1>f, <1>g, <1>t, <1>6, <2>3
           DEF reserveOperation, Leave, Phases, TypeOK, Causes
<1>7. CASE ProviderCreatesDraft(r)
  <2>1. q.key \in Keys /\ q.phase = "reserved"
    BY <1>r, <1>7 DEF ProviderCreatesDraft, PhaseSound, q
  <2>2. [ key |-> q.key, revision |-> q.revision, body |-> q.body, state |-> "DRAFT" ] \in Post
    BY <1>0, <2>1 DEF Request, Post
  <2>3. posts' \in Seq(Post)
    BY <1>0, <1>7, <2>2, Appended DEF ProviderCreatesDraft, q
  <2>4. [ q EXCEPT !.phase = "confirmed", !.post = Len(posts) + 1 ] \in Request
    <3>1. \A p \in Nat : [ q EXCEPT !.phase = "confirmed", !.post = p ] \in Request
      BY <1>0 DEF Request
    <3>2. Len(posts) + 1 \in Nat
      BY <1>0
    <3> QED  BY <3>1, <3>2, Zenon
  <2> QED  BY <1>0, <1>h, <1>t, <1>7, <2>3, <2>4 DEF ProviderCreatesDraft, TypeOK, q
<1>8. CASE ProviderUpdatesPost(r)
  <2>1. q.post \in DOMAIN posts /\ posts[q.post] \in Post
    BY <1>0, <1>r, <1>8 DEF ProviderUpdatesPost, PostSound, q
  <2>2. [ posts[q.post] EXCEPT !.revision = q.revision, !.body = q.body ] \in Post
    BY <1>0, <2>1 DEF Request, Post
  <2>3. posts' = posts \/ posts' = [ posts EXCEPT ![q.post] =
                                     [ posts[q.post] EXCEPT !.revision = q.revision, !.body = q.body ] ]
    BY <1>0, <1>8, <2>1 DEF ProviderUpdatesPost, q, Post
  <2>4. posts' \in Seq(Post)
    BY <1>0, <2>1, <2>2, <2>3, Replaced
  <2> QED  BY <1>0, <1>g, <1>t, <1>8, <2>4 DEF ProviderUpdatesPost, Phases, TypeOK
<1>9. CASE ProviderRefuses(r) \/ LoseAnswer(r)
  BY <1>0, <1>g, <1>t, <1>9 DEF ProviderRefuses, LoseAnswer, Phases, TypeOK
<1>10. \A s \in { "COMPLETED", "FAILED" } :
         Announced(q) => [ operations EXCEPT ![q.key].status = s ] \in [ Keys -> Operation ]
  <2>1. Announced(q) => q.key \in Keys
    BY <1>r DEF PhaseSound, Announced
  <2> QED  BY <1>0, <2>1 DEF Operation
<1>11. CASE CompleteSync(r)
  <2>1. [ status |-> "ACTIVE", post |-> q.post, revision |-> q.revision ] \in Binding
    BY <1>0 DEF Request, Binding
  <2>2. operations' \in [ Keys -> Operation ] /\ publicationStatus' \in { "DRAFT_SENT", publicationStatus }
    BY <1>10, <1>11 DEF CompleteSync, Announced, q
  <2> QED  BY <1>0, <1>f, <1>t, <1>11, <2>1, <2>2 DEF CompleteSync, TypeOK, q
<1>12. CASE RecordFailure(r)
  <2>1. operations' \in [ Keys -> Operation ]
    BY <1>10, <1>12 DEF RecordFailure, Announced, q
  <2>2. binding' \in Binding
    BY <1>0, <1>12 DEF RecordFailure, Binding
  <2> QED  BY <1>0, <1>f, <1>t, <1>12, <2>1, <2>2 DEF RecordFailure, TypeOK
<1>13. CASE getPost(r)
  <2>1. q.post \in DOMAIN posts
    BY <1>r, <1>13 DEF getPost, PostSound, q
  <2>2. \A seen \in { posts[q.post].state } \cup { "ERROR" } :
          [ q EXCEPT !.phase = "seen", !.seen = seen ] \in Request
    BY <1>0, <2>1 DEF Request, Post
  <2>3. PICK seen \in { posts[q.post].state } \cup { "ERROR" } :
          Set(r, [ q EXCEPT !.phase = "seen", !.seen = seen ])
    BY <1>13 DEF getPost, q
  <2> QED  BY <1>0, <1>h, <1>t, <1>13, <2>2, <2>3 DEF getPost, TypeOK
<1>14. CASE ApplyState(r)
  <2>1. binding' \in Binding
    BY <1>0, <1>14 DEF ApplyState, Binding
  <2>2. causes' \subseteq Causes
    BY <1>14 DEF ApplyState, TypeOK, Causes
  <2> QED  BY <1>0, <1>f, <1>g, <1>t, <1>14, <2>1, <2>2 DEF ApplyState, Phases
<1>15. CASE MarkItemFailed(r)
  BY <1>0, <1>f, <1>t, <1>15 DEF MarkItemFailed, TypeOK
<1>16. CASE HandlerThrows(r) \/ Crash(r)
  <2>1. causes' \subseteq Causes
    BY <1>16 DEF HandlerThrows, Crash, Leave, TypeOK, Causes
  <2> QED  BY <1>0, <1>f, <1>t, <1>16, <2>1 DEF HandlerThrows, Crash, Leave
<1> QED  BY <1>1, <1>2, <1>3, <1>4, <1>5, <1>6, <1>7, <1>8, <1>9, <1>11, <1>12, <1>13,
            <1>14, <1>15, <1>16 DEF RequestStep, Continue

LEMMA EnvironmentTyped ==
  ASSUME TypeOK, EnvironmentStep
  PROVE  TypeOK'
<1>1. CASE EditorialStep
  BY <1>1, LifecycleTyped DEF EditorialStep, publicationVars, TypeOK
<1>2. CASE ChangeOnBlogger
  <2>1. PICK p \in DOMAIN posts, s \in { "PUBLISHED", "DELETED" } :
          posts' = [ posts EXCEPT ![p].state = s ]
    BY <1>2 DEF ChangeOnBlogger
  <2>2. posts[p] \in Post /\ posts \in Seq(Post)
    BY Typed
  <2>3. [ posts[p] EXCEPT !.state = s ] \in Post
    BY <2>2 DEF Post
  <2>4. posts' = [ posts EXCEPT ![p] = [ posts[p] EXCEPT !.state = s ] ]
    BY <2>1
  <2>5. posts' \in Seq(Post)
    BY <2>2, <2>3, <2>4, Replaced
  <2> QED  BY <1>2, <2>5 DEF ChangeOnBlogger, TypeOK, LifecycleTypeOK, lifecycleVars
<1>3. ASSUME NEW k \in Keys, UseKeyElsewhere(k)
      PROVE  TypeOK'
  <2>1. operations' \in [ Keys -> Operation ]
    BY <1>3, Typed DEF UseKeyElsewhere, Operation
  <2> QED  BY <1>3, <2>1 DEF UseKeyElsewhere, TypeOK, LifecycleTypeOK, lifecycleVars
<1> QED  BY <1>1, <1>2, <1>3 DEF EnvironmentStep

-----------------------------------------------------------------------------
(* What a step leaves of journal, posts and binding.  The acting request is q, or *)
(* NoRequest when the environment acts.                                        *)

SoundRequest(q) == PhaseSound(q) /\ RowSound(q) /\ PostSound(q)

OperationsKept(q) ==
  \A k \in Keys :
    \/ operations'[k] = operations[k]
    \/ /\ operations[k].status = "NONE" /\ k = q.key /\ q.phase = "bound"
       /\ operations'[k] = [ status |-> "PENDING", kind |-> q.kind, revision |-> q.revision ]
    \/ /\ k = q.key /\ Announced(q)
       /\ operations'[k].kind = operations[k].kind /\ operations'[k].revision = operations[k].revision
       /\ operations'[k].status \in { "COMPLETED", "FAILED" }
    \/ /\ operations[k].status = "NONE" /\ operations'[k].status = "ELSEWHERE"
       /\ operations'[k].kind = operations[k].kind

PostsKept(q) ==
  /\ \A p \in DOMAIN posts :
       /\ p \in DOMAIN posts' /\ posts'[p].key = posts[p].key
       /\ \/ posts'[p].revision = posts[p].revision
          \/ posts'[p].revision = q.revision /\ Announced(q)
  /\ \A p \in DOMAIN posts' :
       \/ p \in DOMAIN posts
       \/ /\ p = Len(posts) + 1 /\ posts'[p].key = q.key /\ posts'[p].revision = q.revision
          /\ q.kind = "CREATE" /\ q.phase = "reserved"

BindingKept(q) ==
  \/ /\ binding'.post = binding.post /\ binding'.revision = binding.revision
     /\ binding'.status \in { "NONE", "PENDING" } => binding.status \in { "NONE", "PENDING" }
  \/ /\ q.phase = "confirmed" /\ posts' = posts
     /\ binding' = [ status |-> "ACTIVE", post |-> q.post, revision |-> q.revision ]
     /\ operations'[q.key].status = "COMPLETED"

Kept(q) == OperationsKept(q) /\ PostsKept(q) /\ BindingKept(q)

\* A used key keeps its kind and revision, and an outcome is final.
LEMMA OutcomesFinal ==
  ASSUME NEW q, RowSound(q), OperationsKept(q)
  PROVE  \A k \in Keys : operations[k].status # "NONE" =>
           /\ operations'[k].status # "NONE"
           /\ operations'[k].kind = operations[k].kind
           /\ operations'[k].revision = operations[k].revision
           /\ operations[k].status \in { "COMPLETED", "FAILED" } => operations'[k] = operations[k]
           /\ Ours(k) => Ours(k)'
BY DEF RowSound, OperationsKept, Ours

LEMMA OnePostKept ==
  ASSUME KeyCreatesOnce, NEW q, SoundRequest(q), Kept(q)
  PROVE  KeyCreatesOnce'
<1> SUFFICES ASSUME NEW p \in DOMAIN posts', NEW s \in DOMAIN posts', posts'[p].key = posts'[s].key
             PROVE  p = s
  BY DEF KeyCreatesOnce
<1> QED  BY DEF KeyCreatesOnce, Kept, PostsKept, SoundRequest, PostSound, PostsOf

LEMMA CoverKept ==
  ASSUME TypeOK, JournalCoversBlogger, UnusedIsBlank, NEW q, SoundRequest(q), Kept(q)
  PROVE  JournalCoversBlogger'
<1> SUFFICES ASSUME NEW p \in DOMAIN posts'
             PROVE  /\ operations'[posts'[p].key].kind = "CREATE"
                    /\ \E k \in Keys : Ours(k)' /\ operations'[k].revision = posts'[p].revision
  BY DEF JournalCoversBlogger, Ours
<1>1. \A k \in Keys : Ours(k) =>
           /\ Ours(k)'
           /\ operations'[k].kind = operations[k].kind
           /\ operations'[k].revision = operations[k].revision
  BY OutcomesFinal DEF SoundRequest, Kept, Ours
<1>2. Announced(q) =>
        /\ q.key \in Keys /\ Ours(q.key)
        /\ operations[q.key].kind = q.kind /\ operations[q.key].revision = q.revision
  BY DEF SoundRequest, PhaseSound, RowSound, Announced, Ours
<1>3. CASE p \in DOMAIN posts
  <2>1. posts[p].key \in Keys /\ posts'[p].key = posts[p].key
    BY <1>3, Typed DEF Post, Kept, PostsKept
  <2>2. operations[posts[p].key].kind = "CREATE" /\ Ours(posts[p].key)
    BY <1>3, <2>1 DEF JournalCoversBlogger, UnusedIsBlank
  <2>3. PICK k \in Keys : Ours(k) /\ operations[k].revision = posts[p].revision
    BY <1>3 DEF JournalCoversBlogger
  <2>4. posts'[p].revision = posts[p].revision \/ (posts'[p].revision = q.revision /\ Announced(q))
    BY <1>3 DEF Kept, PostsKept
  <2> QED  BY <1>1, <1>2, <2>1, <2>2, <2>3, <2>4
<1>4. CASE p \notin DOMAIN posts
  <2>1. posts'[p].key = q.key /\ posts'[p].revision = q.revision /\ q.kind = "CREATE" /\ Announced(q)
    BY <1>4 DEF Kept, PostsKept, Announced
  <2> QED  BY <1>1, <1>2, <2>1
<1> QED  BY <1>3, <1>4

LEMMA BlankKept ==
  ASSUME UnusedIsBlank, NEW q, SoundRequest(q), Kept(q)
  PROVE  UnusedIsBlank'
BY DEF UnusedIsBlank, Kept, OperationsKept, Ours

LEMMA UnlinkedKept ==
  ASSUME UnlinkedUntilCompleted, NEW q, Kept(q)
  PROVE  UnlinkedUntilCompleted'
BY DEF UnlinkedUntilCompleted, Kept, BindingKept

LEMMA HonestKept ==
  ASSUME TypeOK, BindingHonest, NEW q, SoundRequest(q), Kept(q)
  PROVE  BindingHonest'
<1> SUFFICES ASSUME binding'.post # 0
             PROVE  /\ binding'.post \in DOMAIN posts'
                    /\ operations'[posts'[binding'.post].key].status = "COMPLETED"
                    /\ \E k \in Keys : operations'[k].status = "COMPLETED"
                                       /\ operations'[k].revision = binding'.revision
  BY DEF BindingHonest
<1>1. \A k \in Keys : operations[k].status = "COMPLETED" => operations'[k] = operations[k]
  BY OutcomesFinal DEF SoundRequest, Kept
<1>2. \A p \in DOMAIN posts : posts[p].key \in Keys /\ p \in DOMAIN posts' /\ posts'[p].key = posts[p].key
  BY Typed DEF Post, Kept, PostsKept
<1>3. CASE binding'.post = binding.post /\ binding'.revision = binding.revision
  BY <1>1, <1>2, <1>3 DEF BindingHonest
<1>4. CASE /\ q.phase = "confirmed" /\ posts' = posts
           /\ binding' = [ status |-> "ACTIVE", post |-> q.post, revision |-> q.revision ]
           /\ operations'[q.key].status = "COMPLETED"
  <2>1. /\ q.key \in Keys /\ operations[q.key].status = "PENDING"
        /\ operations[q.key].revision = q.revision /\ q.kind \in { "CREATE", "UPDATE" }
    BY <1>4 DEF SoundRequest, PhaseSound, RowSound, Announced
  <2>2. operations'[q.key].revision = q.revision
    <3>1. \A k \in Keys : operations[k].status # "NONE" => operations'[k].revision = operations[k].revision
      BY OutcomesFinal DEF SoundRequest, Kept
    <3> QED  BY <2>1, <3>1
  <2>3. CASE q.kind = "CREATE"
    BY <1>4, <2>1, <2>2, <2>3 DEF SoundRequest, PostSound, PostsOf
  <2>4. CASE q.kind = "UPDATE"
    BY <1>1, <1>2, <1>4, <2>1, <2>2, <2>4 DEF SoundRequest, PostSound
  <2> QED  BY <2>1, <2>3, <2>4
<1> QED  BY <1>3, <1>4 DEF Kept, BindingKept

\* A request that does not act stays sound: nobody else touches its row.
LEMMA OthersSound ==
  ASSUME TypeOK, BindingHonest, NEW CONSTANT q, NEW CONSTANT o, SoundRequest(q), SoundRequest(o), Kept(q),
         Announced(q) /\ Announced(o) => q.key # o.key
  PROVE  SoundRequest(o)'
<1>1. PhaseSound(o)'
  BY DEF SoundRequest, PhaseSound
<1>2. RowSound(o)'
  <2> SUFFICES ASSUME Announced(o) PROVE RowSound(o)'
    BY DEF RowSound, Announced
  <2>1. /\ o.key \in Keys
        /\ operations[o.key] = [ status |-> "PENDING", kind |-> o.kind, revision |-> o.revision ]
    BY DEF SoundRequest, PhaseSound, RowSound, Announced
  <2>2. operations'[o.key] = operations[o.key]
    BY <2>1 DEF Kept, OperationsKept
  <2> QED  BY <2>1, <2>2 DEF RowSound
<1>3. PostSound(o)'
  <2>1. ASSUME o.kind = "CREATE", o.phase = "reserved", NEW p \in PostsOf(o.key)'
        PROVE  FALSE
    <3>1. p \in DOMAIN posts' /\ posts'[p].key = o.key
      BY DEF PostsOf
    <3>2. p \notin DOMAIN posts
      BY <2>1, <3>1 DEF SoundRequest, PostSound, PostsOf, Kept, PostsKept
    <3> QED  BY <2>1, <3>1, <3>2 DEF Kept, PostsKept, Announced
  <2>2. PostsOf(o.key) \subseteq PostsOf(o.key)'
    BY DEF PostsOf, Kept, PostsKept
  <2>3. \A p \in DOMAIN posts : /\ posts[p].key \in Keys /\ p \in DOMAIN posts'
                                /\ posts'[p].key = posts[p].key
    BY Typed DEF Post, Kept, PostsKept
  <2>4. \A k \in Keys : operations[k].status = "COMPLETED" => operations'[k] = operations[k]
    BY OutcomesFinal DEF SoundRequest, Kept
  <2>5. binding.post # 0 => binding'.post # 0
    <3>1. CASE binding'.post = binding.post
      BY <3>1
    <3>2. CASE q.phase = "confirmed" /\ binding' = [ status |-> "ACTIVE", post |-> q.post, revision |-> q.revision ]
      <4>1. q.post \in DOMAIN posts
        BY <3>2 DEF SoundRequest, PhaseSound, PostSound, PostsOf
      <4> QED  BY <3>2, <4>1, Typed
    <3> QED  BY <3>1, <3>2 DEF Kept, BindingKept
  <2> QED  BY <2>1, <2>2, <2>3, <2>4, <2>5 DEF SoundRequest, PostSound
<1> QED  BY <1>1, <1>2, <1>3 DEF SoundRequest

-----------------------------------------------------------------------------
(* The request that acts *)

Stores == operations' = operations /\ posts' = posts /\ binding' = binding

LEMMA StoresKept ==
  ASSUME Stores, NEW q
  PROVE  Kept(q)
BY DEF Stores, Kept, OperationsKept, PostsKept, BindingKept

LEMMA NoRequestSound == SoundRequest(NoRequest) /\ ~ Announced(NoRequest) /\ ~ Creating(NoRequest)
BY DEF NoRequest, SoundRequest, PhaseSound, RowSound, PostSound, Announced, Creating

\* What the step of a request does to it, besides what Kept says.
Advance(r) ==
  /\ Alone(r) /\ Kept(request[r]) /\ SoundRequest(request[r])'
  /\ Announced(request'[r]) =>
       \/ Announced(request[r]) /\ request'[r].key = request[r].key
       \/ operations[request'[r].key].status = "NONE"

LEMMA FinishAdvance ==
  ASSUME TypeOK, NEW r \in Requests, Finish(r), Kept(request[r])
  PROVE  Advance(r)
<1>1. Alone(r) /\ request'[r] = NoRequest
  BY FinishHolds
<1>2. SoundRequest(request[r])'
  BY <1>1 DEF NoRequest, SoundRequest, PhaseSound, RowSound, PostSound, Announced
<1> QED  BY <1>1, <1>2, NoRequestSound DEF Advance

\* A request that goes on where neither journal, posts nor the link of the binding change.
LEMMA QuietAdvance ==
  ASSUME TypeOK, NEW r \in Requests, NEW CONSTANT h, Set(r, h), Kept(request[r]),
         operations' = operations, posts' = posts, binding'.post = binding.post,
         SoundRequest(h),
         Announced(h) => Announced(request[r]) /\ h.key = request[r].key
  PROVE  Advance(r)
<1>1. Alone(r) /\ request'[r] = h
  BY SetAlone
<1>2. SoundRequest(h)'
  BY DEF SoundRequest, PhaseSound, RowSound, PostSound, PostsOf, Announced
<1> QED  BY <1>1, <1>2 DEF Advance, SoundRequest

LEMMA RequestAdvances ==
  ASSUME TypeOK, BindingHonest, JournalCoversBlogger, UnusedIsBlank,
         NEW r \in Requests, SoundRequest(request[r]), RequestStep(r)
  PROVE  Advance(r)
<1>. PICK q : q = request[r]
  OBVIOUS
<1>0. /\ TypeOK /\ q \in Request /\ request[r] = q /\ SoundRequest(q)
      /\ PhaseSound(q) /\ RowSound(q) /\ PostSound(q)
      /\ operations \in [ Keys -> Operation ] /\ posts \in Seq(Post) /\ binding \in Binding
      /\ \A p \in DOMAIN posts : posts[p] \in Post
      /\ DOMAIN posts \subseteq Nat \ {0} /\ Len(posts) \in Nat
  BY Typed DEF SoundRequest
<1>b. Finish(r) /\ Stores => Advance(r)
  BY <1>0, FinishAdvance, StoresKept
<1>c. ASSUME NEW phase \in Phases, Goto(r, phase), Kept(q),
             operations' = operations, posts' = posts, binding'.post = binding.post,
             \A h : /\ h.phase = phase /\ h.kind = q.kind /\ h.key = q.key
                    /\ h.revision = q.revision /\ h.post = q.post
                    => /\ SoundRequest(h) /\ (Announced(h) => Announced(q))
      PROVE  Advance(r)
  <2>. PICK h : h = [ q EXCEPT !.phase = phase ]
    OBVIOUS
  <2>1. /\ h.phase = phase /\ h.kind = q.kind /\ h.key = q.key
        /\ h.revision = q.revision /\ h.post = q.post
    BY <1>0 DEF Request
  <2>2. Set(r, h)
    BY <1>0, <1>c DEF Goto
  <2> QED  BY <1>0, <1>c, <2>1, <2>2, QuietAdvance
<1>1. ASSUME NEW kind \in { "CREATE", "UPDATE" }, NEW key \in Keys, synchronize(r, kind, key)
      PROVE  Advance(r)
  <2>. PICK h : h = [ NoRequest EXCEPT !.phase = "loaded", !.kind = kind, !.key = key,
                                       !.revision = version, !.body = body ]
    OBVIOUS
  <2>1. /\ h.phase = "loaded" /\ h.kind = kind /\ h.key = key
    BY DEF NoRequest
  <2>2. SoundRequest(h) /\ ~ Announced(h)
    BY <2>1 DEF SoundRequest, PhaseSound, RowSound, PostSound, Announced
  <2>3. Set(r, h) /\ Stores
    BY <1>1 DEF synchronize, Stores
  <2> QED  BY <1>0, <2>2, <2>3, QuietAdvance, StoresKept DEF Stores
<1>2. CASE state(r)
  <2>. PICK h : h = [ NoRequest EXCEPT !.phase = "checking", !.post = binding.post,
                                       !.error = (binding.status = "ERROR") ]
    OBVIOUS
  <2>1. /\ h.phase = "checking" /\ h.kind = "NONE" /\ h.post = binding.post
    BY DEF NoRequest
  <2>2. Set(r, h) /\ Stores /\ binding.post # 0
    BY <1>2 DEF state, Stores
  <2>3. SoundRequest(h) /\ ~ Announced(h)
    BY <2>1, <2>2 DEF SoundRequest, PhaseSound, RowSound, PostSound, Announced, BindingHonest
  <2> QED  BY <1>0, <2>2, <2>3, QuietAdvance, StoresKept DEF Stores
<1>3. CASE FindBindingForCreate(r)
  <2>1. Stores /\ q.phase = "loaded" /\ q.kind = "CREATE"
    BY <1>0, <1>3 DEF FindBindingForCreate, Stores
  <2>2. Goto(r, "unbound") \/ Goto(r, "bound") => Advance(r)
    BY <1>0, <1>c, <2>1, StoresKept
    DEF Phases, SoundRequest, PhaseSound, RowSound, PostSound, Announced, Stores
  <2> QED  BY <1>b, <1>3, <2>1, <2>2 DEF FindBindingForCreate
<1>4. CASE FindBindingForUpdate(r)
  <2>1. Stores /\ q.phase = "loaded" /\ q.kind = "UPDATE"
    BY <1>0, <1>4 DEF FindBindingForUpdate, Stores
  <2>2. CASE Finish(r)
    BY <1>b, <2>1, <2>2
  <2>3. CASE binding.post # 0 /\ Set(r, [ q EXCEPT !.phase = "bound", !.post = binding.post ])
    <3>. PICK h : h = [ q EXCEPT !.phase = "bound", !.post = binding.post ]
      OBVIOUS
    <3>1. h.phase = "bound" /\ h.kind = q.kind /\ h.key = q.key /\ h.post = binding.post
      BY <1>0 DEF Request
    <3>2. SoundRequest(h) /\ ~ Announced(h)
      BY <1>0, <2>1, <2>3, <3>1
      DEF SoundRequest, PhaseSound, RowSound, PostSound, Announced, BindingHonest
    <3> QED  BY <1>0, <2>1, <2>3, <3>2, QuietAdvance, StoresKept DEF Stores
  <2> QED  BY <1>0, <1>4, <2>2, <2>3 DEF FindBindingForUpdate
<1>5. CASE reserveBinding(r)
  <2>1. operations' = operations /\ posts' = posts /\ q.phase = "unbound" /\ q.kind = "CREATE"
        /\ binding'.post = binding.post /\ Kept(q)
    BY <1>0, <1>5 DEF reserveBinding, PhaseSound, Kept, OperationsKept, PostsKept, BindingKept, Binding
  <2>2. Goto(r, "bound") => Advance(r)
    BY <1>0, <1>c, <2>1 DEF Phases, SoundRequest, PhaseSound, RowSound, PostSound, Announced
  <2> QED  BY <1>0, <1>5, <2>1, <2>2, FinishAdvance DEF reserveBinding
<1>6. CASE reserveOperation(r)
  <2>1. q.phase = "bound" /\ posts' = posts /\ binding' = binding /\ q.key \in Keys
        /\ q.kind \in { "CREATE", "UPDATE" }
    BY <1>0, <1>6 DEF reserveOperation, PhaseSound
  <2>2. CASE ~ KeyIsFree(q.key)
    BY <1>0, <1>b, <1>6, <2>1, <2>2 DEF reserveOperation, Leave, Stores
  <2>3. CASE KeyIsFree(q.key)
    <3>1. /\ operations' = [ operations EXCEPT ![q.key] =
                [ status |-> "PENDING", kind |-> q.kind, revision |-> q.revision ] ]
          /\ Goto(r, "reserved") /\ operations[q.key].status = "NONE"
      BY <1>0, <1>6, <2>3 DEF reserveOperation, KeyIsFree
    <3>2. Kept(q)
      BY <1>0, <2>1, <3>1 DEF Kept, OperationsKept, PostsKept, BindingKept
    <3>. PICK h : h = request'[r]
      OBVIOUS
    <3>3. /\ h.phase = "reserved" /\ h.kind = q.kind /\ h.key = q.key /\ Alone(r)
          /\ h.revision = q.revision /\ h.post = q.post
      BY <1>0, <3>1, GotoHolds DEF Phases
    <3>4. PostsOf(q.key) = {}
      BY <2>1, <3>1 DEF PostsOf, JournalCoversBlogger, UnusedIsBlank, Ours
    <3>5. PhaseSound(h)' /\ RowSound(h)'
      BY <1>0, <2>1, <3>1, <3>3 DEF PhaseSound, RowSound, Announced
    <3>6. PostSound(h)'
      <4>1. \A p \in DOMAIN posts : posts[p].key \in Keys
        BY <1>0 DEF Post
      <4>2. q.kind = "UPDATE" => operations[posts[q.post].key].status = "COMPLETED"
                                 /\ q.post \in DOMAIN posts /\ binding.post # 0
        BY <1>0, <2>1 DEF PostSound
      <4> QED  BY <1>0, <2>1, <3>1, <3>3, <3>4, <4>1, <4>2 DEF PostSound, PostsOf
    <3> QED  BY <1>0, <3>1, <3>2, <3>3, <3>5, <3>6 DEF Advance, SoundRequest
  <2> QED  BY <2>2, <2>3
<1>7. CASE ProviderCreatesDraft(r)
  <2>1. q.phase = "reserved" /\ q.kind = "CREATE" /\ q.key \in Keys
        /\ operations' = operations /\ binding' = binding
    BY <1>0, <1>7 DEF ProviderCreatesDraft, PhaseSound
  <2>. PICK new : new = [ key |-> q.key, revision |-> q.revision, body |-> q.body, state |-> "DRAFT" ]
    OBVIOUS
  <2>2. new \in Post /\ new.key = q.key /\ new.revision = q.revision
    BY <1>0, <2>1 DEF Request, Post
  <2>3. posts' = Append(posts, new)
    BY <1>0, <1>7 DEF ProviderCreatesDraft
  <2>4. /\ DOMAIN posts' = DOMAIN posts \cup { Len(posts) + 1 }
        /\ \A p \in DOMAIN posts : posts'[p] = posts[p]
        /\ posts'[Len(posts) + 1] = new
    BY <1>0, <2>2, <2>3, Appended
  <2>5. Kept(q)
    BY <2>1, <2>2, <2>4 DEF Kept, OperationsKept, PostsKept, BindingKept
  <2>. PICK h : h = request'[r]
    OBVIOUS
  <2>6. /\ Alone(r) /\ h = [ q EXCEPT !.phase = "confirmed", !.post = Len(posts) + 1 ]
    BY <1>0, <1>7, SetAlone DEF ProviderCreatesDraft
  <2>7. /\ h.phase = "confirmed" /\ h.post = Len(posts) + 1 /\ h.kind = q.kind
        /\ h.key = q.key /\ h.revision = q.revision
    BY <1>0, <2>6 DEF Request
  <2>8. PhaseSound(h)' /\ RowSound(h)' /\ PostSound(h)'
    BY <1>0, <2>1, <2>2, <2>4, <2>7 DEF PhaseSound, RowSound, PostSound, PostsOf, Announced
  <2> QED  BY <1>0, <2>1, <2>5, <2>6, <2>7, <2>8 DEF Advance, SoundRequest, Announced
<1>8. CASE ProviderUpdatesPost(r)
  <2>1. /\ q.phase = "reserved" /\ q.kind = "UPDATE" /\ operations' = operations /\ binding' = binding
        /\ q.post \in DOMAIN posts /\ posts[q.post] \in Post
    BY <1>0, <1>8 DEF ProviderUpdatesPost, PostSound
  <2>2. posts' = posts \/ posts' = [ posts EXCEPT ![q.post] =
                                     [ posts[q.post] EXCEPT !.revision = q.revision, !.body = q.body ] ]
    BY <1>0, <1>8, <2>1 DEF ProviderUpdatesPost, Post
  <2>3. /\ DOMAIN posts' = DOMAIN posts
        /\ \A p \in DOMAIN posts : /\ posts'[p].key = posts[p].key
                                   /\ \/ posts'[p].revision = posts[p].revision
                                      \/ posts'[p].revision = q.revision
    <3>. PICK new : new = [ posts[q.post] EXCEPT !.revision = q.revision, !.body = q.body ]
      OBVIOUS
    <3>1. new.key = posts[q.post].key /\ new.revision = q.revision
      BY <2>1 DEF Post
    <3>2. posts' = posts \/ posts' = [ posts EXCEPT ![q.post] = new ]
      BY <2>2
    <3> QED  BY <1>0, <2>1, <3>1, <3>2
  <2>4. Kept(q)
    BY <2>1, <2>3 DEF Kept, OperationsKept, PostsKept, BindingKept, Announced
  <2>5. PICK phase \in { "confirmed", "failed" } : Goto(r, phase)
    BY <1>8 DEF ProviderUpdatesPost
  <2>. PICK h : h = request'[r]
    OBVIOUS
  <2>6. /\ Alone(r) /\ h.phase = phase /\ h.post = q.post /\ h.kind = q.kind
        /\ h.key = q.key /\ h.revision = q.revision
    BY <1>0, <2>5, GotoHolds DEF Phases
  <2>7. PhaseSound(h)' /\ RowSound(h)' /\ PostSound(h)'
    BY <1>0, <2>1, <2>3, <2>6 DEF PhaseSound, RowSound, PostSound, PostsOf, Announced
  <2> QED  BY <1>0, <2>1, <2>4, <2>6, <2>7 DEF Advance, SoundRequest, Announced
<1>9. CASE ProviderRefuses(r) \/ LoseAnswer(r)
  <2>1. Stores /\ q.phase \in { "reserved", "confirmed" } /\ Goto(r, "failed")
    BY <1>0, <1>9 DEF ProviderRefuses, LoseAnswer, Stores
  <2> QED  BY <1>0, <1>c, <2>1, StoresKept
           DEF Phases, SoundRequest, PhaseSound, RowSound, PostSound, Announced, Stores
<1>10. CASE CompleteSync(r)
  <2>1. /\ q.phase = "confirmed" /\ posts' = posts /\ Finish(r) /\ q.key \in Keys
        /\ binding' = [ status |-> "ACTIVE", post |-> q.post, revision |-> q.revision ]
        /\ operations' = [ operations EXCEPT ![q.key].status = "COMPLETED" ]
    BY <1>0, <1>10 DEF CompleteSync, PhaseSound
  <2>2. Kept(q)
    BY <1>0, <2>1 DEF Kept, OperationsKept, PostsKept, BindingKept, Announced, Operation
  <2> QED  BY <1>0, <2>1, <2>2, FinishAdvance
<1>11. CASE RecordFailure(r)
  <2>1. /\ q.phase = "failed" /\ posts' = posts /\ Finish(r) /\ q.key \in Keys
        /\ binding' = [ binding EXCEPT !.status = "ERROR" ]
        /\ operations' = [ operations EXCEPT ![q.key].status = "FAILED" ]
    BY <1>0, <1>11 DEF RecordFailure, PhaseSound
  <2>2. Kept(q)
    BY <1>0, <2>1 DEF Kept, OperationsKept, PostsKept, BindingKept, Announced, Operation, Binding
  <2> QED  BY <1>0, <2>1, <2>2, FinishAdvance
<1>12. CASE getPost(r)
  <2>1. Stores /\ q.phase = "checking" /\ q.post \in DOMAIN posts
    BY <1>0, <1>12 DEF getPost, Stores, PostSound
  <2>2. PICK seen : Set(r, [ q EXCEPT !.phase = "seen", !.seen = seen ])
    BY <1>0, <1>12 DEF getPost
  <2>. PICK h : h = [ q EXCEPT !.phase = "seen", !.seen = seen ]
    OBVIOUS
  <2>3. /\ h.phase = "seen" /\ h.post = q.post /\ h.kind = q.kind /\ h.key = q.key
    BY <1>0 DEF Request
  <2>4. SoundRequest(h) /\ ~ Announced(h)
    BY <1>0, <2>1, <2>3 DEF SoundRequest, PhaseSound, RowSound, PostSound, Announced
  <2> QED  BY <1>0, <2>1, <2>2, <2>4, QuietAdvance, StoresKept DEF Stores
<1>13. CASE ApplyState(r)
  <2>1. /\ q.phase = "seen" /\ operations' = operations /\ posts' = posts
        /\ binding'.post = binding.post /\ binding'.revision = binding.revision
        /\ binding'.status \in { "NONE", "PENDING" } => binding'.status = binding.status
    BY <1>0, <1>13 DEF ApplyState, Binding
  <2>2. Kept(q)
    BY <2>1 DEF Kept, OperationsKept, PostsKept, BindingKept
  <2>3. Goto(r, "missing") => Advance(r)
    BY <1>0, <1>c, <2>1, <2>2 DEF Phases, SoundRequest, PhaseSound, RowSound, PostSound, Announced
  <2> QED  BY <1>0, <1>13, <2>2, <2>3, FinishAdvance DEF ApplyState
<1>14. CASE MarkItemFailed(r) \/ HandlerThrows(r) \/ Crash(r)
  BY <1>b, <1>14 DEF MarkItemFailed, HandlerThrows, Crash, Leave, Stores
<1> QED  BY <1>1, <1>2, <1>3, <1>4, <1>5, <1>6, <1>7, <1>8, <1>9, <1>10, <1>11, <1>12,
            <1>13, <1>14 DEF RequestStep, Continue

-----------------------------------------------------------------------------
(* Steps while nothing has gone wrong *)

\* What goes wrong stays on record.
LEMMA QuietBefore ==
  ASSUME NEW q, SoundRequest(q), Kept(q), causes \subseteq causes', Quiet'
  PROVE  Quiet
BY OutcomesFinal DEF Quiet, SoundRequest, Kept, Ours

\* How a create comes to own the binding, or not.
OwnerPath(r) ==
  /\ Len(posts') = Len(posts) \/ ( /\ Len(posts') = Len(posts) + 1 /\ Creating(request[r])
                                   /\ request[r].phase = "reserved" )
  /\ request'[r].error => request[r].error \/ binding.status = "ERROR"
  /\ Creating(request'[r]) =>
       /\ request'[r].revision = request[r].revision
       /\ \/ /\ Creating(request[r]) /\ request'[r].phase = "reserved" /\ request[r].phase = "bound"
             /\ request[r].key \in Keys /\ operations[request[r].key].status = "NONE"
             /\ operations'[request[r].key].status = "PENDING" /\ posts' = posts
             /\ operations'[request[r].key].revision = request[r].revision
          \/ Creating(request[r]) /\ request'[r].phase \in { "confirmed", "failed" }
             /\ request[r].phase # "bound"
          \/ /\ request'[r].phase = "bound" /\ ~ Creating(request[r]) /\ posts' = posts
             /\ \/ binding.status = "NONE" /\ binding'.status = "PENDING"
                \/ binding.status = "ERROR"
                \/ binding.status \notin { "NONE", "PENDING" } /\ binding' = binding
                   /\ (binding.status = "ACTIVE" => binding.revision # request[r].revision)
  /\ \/ binding' = binding
     \/ binding.status = "NONE" /\ binding'.status = "PENDING" /\ Creating(request'[r])
     \/ /\ request[r].phase = "confirmed" /\ posts' = posts
        /\ binding' = [ status |-> "ACTIVE", post |-> request[r].post, revision |-> request[r].revision ]
        /\ ~ Creating(request'[r])
     \/ "doubted" \in causes'
     \/ \E k \in Keys : operations'[k].status = "FAILED"
     \/ request[r].error

LEMMA RequestsTakePath ==
  ASSUME TypeOK, NEW r \in Requests, SoundRequest(request[r]), RequestStep(r)
  PROVE  OwnerPath(r) /\ causes \subseteq causes'
<1>. PICK q : q = request[r]
  OBVIOUS
<1>0. /\ TypeOK /\ q \in Request /\ request[r] = q
      /\ PhaseSound(q) /\ RowSound(q) /\ PostSound(q)
      /\ operations \in [ Keys -> Operation ] /\ posts \in Seq(Post) /\ binding \in Binding
      /\ \A p \in DOMAIN posts : posts[p] \in Post /\ Len(posts) \in Nat
  BY Typed DEF SoundRequest
<1>b. ASSUME Finish(r), posts' = posts, binding' = binding
      PROVE  OwnerPath(r)
  BY <1>b, FinishHolds DEF OwnerPath, Creating, NoRequest
<1>h. \A h : Set(r, h) => request'[r] = h
  BY <1>0, SetAlone
<1>c. ASSUME NEW phase \in Phases, Goto(r, phase), posts' = posts, binding' = binding
      PROVE  /\ request'[r].phase = phase /\ request'[r].kind = q.kind
             /\ request'[r].error = q.error /\ request'[r].revision = q.revision
             /\ (q.kind # "CREATE" \/ phase \notin { "bound", "reserved", "confirmed", "failed" }
                   => OwnerPath(r))
  BY <1>0, <1>c, GotoHolds DEF OwnerPath, Creating
<1>1. ASSUME NEW kind \in { "CREATE", "UPDATE" }, NEW key \in Keys, synchronize(r, kind, key)
      PROVE  OwnerPath(r) /\ causes' = causes
  <2>. PICK h : h = [ NoRequest EXCEPT !.phase = "loaded", !.kind = kind, !.key = key,
                                       !.revision = version, !.body = body ]
    OBVIOUS
  <2>1. /\ h.phase = "loaded" /\ ~ h.error /\ request'[r] = h
    BY <1>1, <1>h DEF NoRequest, synchronize
  <2> QED  BY <1>1, <2>1 DEF synchronize, OwnerPath, Creating
<1>2. CASE state(r)
  <2>. PICK h : h = [ NoRequest EXCEPT !.phase = "checking", !.post = binding.post,
                                       !.error = (binding.status = "ERROR") ]
    OBVIOUS
  <2>1. /\ h.phase = "checking" /\ h.error = (binding.status = "ERROR") /\ request'[r] = h
    BY <1>2, <1>h DEF NoRequest, state
  <2> QED  BY <1>2, <2>1 DEF state, OwnerPath, Creating
<1>3. CASE FindBindingForCreate(r)
  <2>1. posts' = posts /\ binding' = binding /\ causes' = causes
        /\ q.phase = "loaded" /\ q.kind = "CREATE"
    BY <1>0, <1>3 DEF FindBindingForCreate
  <2>2. CASE Goto(r, "bound") /\ binding.status = "ERROR"
    BY <1>0, <1>c, <2>1, <2>2 DEF Phases, OwnerPath, Creating
  <2>3. CASE Goto(r, "unbound")
    BY <1>c, <2>1, <2>3 DEF Phases
  <2> QED  BY <1>b, <1>3, <2>1, <2>2, <2>3 DEF FindBindingForCreate
<1>4. CASE FindBindingForUpdate(r)
  <2>1. posts' = posts /\ binding' = binding /\ causes' = causes /\ q.kind = "UPDATE"
    BY <1>0, <1>4 DEF FindBindingForUpdate
  <2>2. Finish(r) \/ (request'[r].kind = q.kind /\ request'[r].error = q.error)
    BY <1>0, <1>4, <1>h DEF FindBindingForUpdate, Request
  <2> QED  BY <1>0, <1>b, <2>1, <2>2 DEF OwnerPath, Creating
<1>5. CASE reserveBinding(r)
  <2>1. posts' = posts /\ causes' = causes /\ q.phase = "unbound" /\ q.kind = "CREATE"
    BY <1>0, <1>5 DEF reserveBinding, PhaseSound
  <2>2. CASE binding.status = "NONE"
    <3>1. Goto(r, "bound") /\ binding'.status = "PENDING"
      BY <1>0, <1>5, <2>2 DEF reserveBinding, Binding
    <3> QED  BY <1>0, <2>1, <2>2, <3>1, GotoHolds DEF OwnerPath, Creating, Phases
  <2>3. CASE binding.status # "NONE" /\ LoserGoesOn(r)
    <3>1. Goto(r, "bound") /\ binding' = binding
      BY <1>0, <1>5, <2>3 DEF reserveBinding
    <3>2. binding.status \notin { "NONE", "PENDING" }
          /\ (binding.status = "ACTIVE" => binding.revision # q.revision)
      BY <1>0, <2>3 DEF LoserGoesOn
    <3> QED  BY <1>0, <1>c, <2>1, <3>1, <3>2 DEF OwnerPath, Creating, Phases
  <2>4. CASE binding.status # "NONE" /\ ~ LoserGoesOn(r)
    BY <1>b, <1>5, <2>1, <2>4 DEF reserveBinding
  <2> QED  BY <2>1, <2>2, <2>3, <2>4
<1>6. CASE reserveOperation(r)
  <2>1. q.phase = "bound" /\ posts' = posts /\ binding' = binding /\ q.key \in Keys
        /\ causes \subseteq causes'
    BY <1>0, <1>6 DEF reserveOperation, Leave, PhaseSound
  <2>2. CASE ~ KeyIsFree(q.key)
    BY <1>0, <1>b, <1>6, <2>1, <2>2 DEF reserveOperation, Leave
  <2>3. CASE KeyIsFree(q.key)
    <3>1. /\ operations' = [ operations EXCEPT ![q.key] =
                [ status |-> "PENDING", kind |-> q.kind, revision |-> q.revision ] ]
          /\ Goto(r, "reserved") /\ operations[q.key].status = "NONE"
      BY <1>0, <1>6, <2>3 DEF reserveOperation, KeyIsFree
    <3>2. operations'[q.key] = [ status |-> "PENDING", kind |-> q.kind, revision |-> q.revision ]
      BY <1>0, <2>1, <3>1
    <3> QED  BY <1>0, <1>c, <2>1, <3>1, <3>2 DEF OwnerPath, Creating, Phases
  <2> QED  BY <2>2, <2>3
<1>7. CASE ProviderCreatesDraft(r)
  <2>1. q.phase = "reserved" /\ q.kind = "CREATE" /\ q.key \in Keys
        /\ binding' = binding /\ causes' = causes
    BY <1>0, <1>7 DEF ProviderCreatesDraft, PhaseSound
  <2>2. [ key |-> q.key, revision |-> q.revision, body |-> q.body, state |-> "DRAFT" ] \in Post
    BY <1>0, <2>1 DEF Request, Post
  <2>3. Len(posts') = Len(posts) + 1
    BY <1>0, <1>7, <2>2, Appended DEF ProviderCreatesDraft
  <2>4. request'[r] = [ q EXCEPT !.phase = "confirmed", !.post = Len(posts) + 1 ]
    BY <1>0, <1>7, <1>h DEF ProviderCreatesDraft
  <2>5. /\ request'[r].phase = "confirmed" /\ request'[r].error = q.error
        /\ request'[r].revision = q.revision
    BY <1>0, <2>4 DEF Request
  <2> QED  BY <1>0, <2>1, <2>3, <2>5 DEF OwnerPath, Creating
<1>8. CASE ProviderUpdatesPost(r)
  <2>1. /\ q.kind = "UPDATE" /\ binding' = binding /\ causes' = causes
        /\ q.post \in DOMAIN posts /\ posts[q.post] \in Post
    BY <1>0, <1>8 DEF ProviderUpdatesPost, PostSound
  <2>. PICK new : new = [ posts[q.post] EXCEPT !.revision = q.revision, !.body = q.body ]
    OBVIOUS
  <2>2. posts' = posts \/ posts' = [ posts EXCEPT ![q.post] = new ]
    BY <1>0, <1>8, <2>1 DEF ProviderUpdatesPost, Post
  <2>3. new \in Post
    BY <1>0, <2>1 DEF Request, Post
  <2>4. Len(posts') = Len(posts)
    BY <1>0, <2>1, <2>2, <2>3, Replaced
  <2>5. PICK phase \in { "confirmed", "failed" } : Goto(r, phase)
    BY <1>8 DEF ProviderUpdatesPost
  <2>6. request'[r].kind = q.kind /\ request'[r].error = q.error
    BY <1>0, <2>5, GotoHolds DEF Phases
  <2> QED  BY <1>0, <2>1, <2>4, <2>6 DEF OwnerPath, Creating
<1>9. CASE ProviderRefuses(r) \/ LoseAnswer(r)
  <2>1. posts' = posts /\ binding' = binding /\ causes' = causes
        /\ q.phase \in { "reserved", "confirmed" } /\ Goto(r, "failed")
    BY <1>0, <1>9 DEF ProviderRefuses, LoseAnswer
  <2> QED  BY <1>0, <1>c, <2>1 DEF Phases, OwnerPath, Creating
<1>10. CASE CompleteSync(r)
  <2>1. /\ q.phase = "confirmed" /\ posts' = posts /\ causes' = causes /\ Finish(r)
        /\ binding' = [ status |-> "ACTIVE", post |-> q.post, revision |-> q.revision ]
    BY <1>0, <1>10 DEF CompleteSync
  <2> QED  BY <1>0, <2>1, FinishHolds DEF OwnerPath, Creating, NoRequest
<1>11. CASE RecordFailure(r)
  <2>1. /\ q.phase = "failed" /\ posts' = posts /\ Finish(r) /\ q.key \in Keys /\ causes' = causes
        /\ operations' = [ operations EXCEPT ![q.key].status = "FAILED" ]
    BY <1>0, <1>11 DEF RecordFailure, PhaseSound
  <2>2. operations'[q.key].status = "FAILED"
    BY <1>0, <2>1 DEF Operation
  <2> QED  BY <1>0, <2>1, <2>2, FinishHolds DEF OwnerPath, Creating, NoRequest
<1>12. CASE getPost(r)
  <2>1. posts' = posts /\ binding' = binding /\ causes' = causes /\ q.kind = "NONE"
    BY <1>0, <1>12 DEF getPost, PhaseSound
  <2>2. PICK seen : Set(r, [ q EXCEPT !.phase = "seen", !.seen = seen ])
    BY <1>0, <1>12 DEF getPost
  <2>3. request'[r].kind = q.kind /\ request'[r].error = q.error
    BY <1>0, <1>h, <2>2 DEF Request
  <2> QED  BY <1>0, <2>1, <2>3 DEF OwnerPath, Creating
<1>13. CASE ApplyState(r)
  <2>1. /\ q.phase = "seen" /\ q.kind = "NONE" /\ posts' = posts /\ causes \subseteq causes'
        /\ binding' = binding \/ "doubted" \in causes' \/ q.error
    BY <1>0, <1>13 DEF ApplyState, Binding, PhaseSound
  <2>2. request'[r] = NoRequest \/ (request'[r].kind = q.kind /\ request'[r].error = q.error)
    BY <1>0, <1>13, GotoHolds, FinishHolds DEF ApplyState, Phases
  <2> QED  BY <1>0, <2>1, <2>2 DEF OwnerPath, Creating, NoRequest
<1>14. CASE MarkItemFailed(r) \/ HandlerThrows(r) \/ Crash(r)
  BY <1>b, <1>14 DEF MarkItemFailed, HandlerThrows, Crash, Leave
<1> QED  BY <1>1, <1>2, <1>3, <1>4, <1>5, <1>6, <1>7, <1>8, <1>9, <1>10, <1>11, <1>12,
            <1>13, <1>14 DEF RequestStep, Continue

\* What OneOwner says as long as nothing has gone wrong, one case per status of the binding.
Unclaimed ==
  binding.status = "NONE" /\ posts = <<>> /\ \A s \in Requests : ~ Creating(request[s])

Claimed ==
  /\ binding.status = "PENDING"
  /\ \A s, t \in Requests : Creating(request[s]) /\ Creating(request[t]) => s = t
  /\ \A s \in Requests : Creating(request[s]) /\ request[s].phase \in { "bound", "reserved" }
                           => posts = <<>>

Linked ==
  /\ binding.status = "ACTIVE" /\ binding.post # 0
  /\ \A s \in Requests : Creating(request[s]) =>
       request[s].phase = "bound" /\ request[s].revision # binding.revision

LEMMA OneOwnerCases ==
  OneOwner <=> ( Quiet => /\ Len(posts) <= 1 /\ \A s \in Requests : ~ request[s].error
                          /\ Unclaimed \/ Claimed \/ Linked )
BY DEF OneOwner, Unclaimed, Claimed, Linked

LEMMA OneOwnerKept ==
  ASSUME TypeOK, TypeOK', OneOwner, BindingHonest, UnlinkedUntilCompleted,
         NEW r \in Requests, SoundRequest(request[r]), Advance(r), OwnerPath(r),
         causes \subseteq causes', Quiet'
  PROVE  /\ Len(posts') <= 1 /\ \A s \in Requests : ~ request'[s].error
         /\ Unclaimed' \/ Claimed' \/ Linked'
<1>. PICK q : q = request[r]
  OBVIOUS
<1>1. Quiet
  BY QuietBefore DEF Advance
<1>2. /\ q = request[r] /\ PhaseSound(q) /\ RowSound(q) /\ PostSound(q)
      /\ \A s \in Requests : s # r => request'[s] = request[s]
      /\ \A p \in DOMAIN posts : p # 0
      /\ Len(posts) \in Nat /\ Len(posts') \in Nat
      /\ (posts = <<>> <=> Len(posts) = 0) /\ (posts' = <<>> <=> Len(posts') = 0)
  <2>1. \A seq \in Seq(Post) : Len(seq) \in Nat /\ (seq = <<>> <=> Len(seq) = 0)
    BY Indices
  <2> QED  BY <2>1, Typed DEF SoundRequest, Advance, Alone, TypeOK
<1>3. /\ Len(posts) <= 1 /\ \A s \in Requests : ~ request[s].error
      /\ Unclaimed \/ Claimed \/ Linked
  BY <1>1, OneOwnerCases
\* The operations agree about the revision, the one that completed included.
<1>4. \A k \in Keys : Ours(k)' /\ binding.post # 0 => operations'[k].revision = binding.revision
  <2> SUFFICES ASSUME NEW k \in Keys, Ours(k)', binding.post # 0
               PROVE  operations'[k].revision = binding.revision
    OBVIOUS
  <2>1. PICK j \in Keys : operations[j].status = "COMPLETED" /\ operations[j].revision = binding.revision
    BY DEF BindingHonest
  <2>2. Ours(j)' /\ operations'[j].revision = binding.revision
    BY <2>1, OutcomesFinal DEF SoundRequest, Advance, Kept, Ours
  <2> QED  BY <2>2 DEF Quiet
<1>5. \A k \in Keys : Ours(k) /\ binding.post # 0 => operations[k].revision = binding.revision
  BY <1>1 DEF Quiet, BindingHonest, Ours
<1>6. /\ "doubted" \notin causes' /\ \A k \in Keys : operations'[k].status # "FAILED"
      /\ ~ request[r].error
  BY <1>3 DEF Quiet
<1>7. Len(posts') <= 1 /\ \A s \in Requests : ~ request'[s].error
  <2>1. Creating(q) /\ q.phase = "reserved" => Len(posts) = 0
    BY <1>2, <1>3 DEF Unclaimed, Claimed, Linked
  <2>2. binding.status # "ERROR"
    BY <1>3 DEF Unclaimed, Claimed, Linked
  <2> QED  BY <1>2, <1>3, <2>1, <2>2 DEF OwnerPath
<1>8. CASE binding' = binding
  <2>1. CASE Unclaimed
    <3>1. Len(posts') = Len(posts) /\ ~ Creating(request'[r])
      BY <1>2, <1>8, <2>1 DEF OwnerPath, Unclaimed
    <3>2. Unclaimed'
      BY <1>2, <1>8, <2>1, <3>1 DEF Unclaimed
    <3> QED  BY <1>7, <3>2
  <2>2. CASE Claimed
    <3>1. Creating(request'[r]) =>
            /\ Creating(q)
            /\ \/ request'[r].phase = "reserved" /\ q.phase = "bound" /\ posts' = posts
               \/ request'[r].phase \in { "confirmed", "failed" }
      BY <1>2, <1>8, <2>2 DEF OwnerPath, Claimed
    <3>2. ASSUME NEW s \in Requests, s # r, Creating(request[s])
          PROVE  Len(posts') = Len(posts)
      BY <1>2, <2>2, <3>2 DEF OwnerPath, Claimed
    <3>3. Claimed'
      BY <1>2, <1>8, <2>2, <3>1, <3>2 DEF Claimed
    <3> QED  BY <1>7, <3>3
  <2>3. CASE Linked
    <3>1. Creating(request'[r]) =>
            request'[r].phase = "bound" /\ request'[r].revision # binding.revision
      BY <1>2, <1>4, <1>8, <2>3 DEF OwnerPath, Linked, Ours
    <3>2. Linked'
      BY <1>2, <1>8, <2>3, <3>1 DEF Linked
    <3> QED  BY <1>7, <3>2
  <2> QED  BY <1>3, <2>1, <2>2, <2>3
<1>9. CASE binding.status = "NONE" /\ binding'.status = "PENDING" /\ Creating(request'[r])
  <2>1. Unclaimed
    BY <1>3, <1>9 DEF Unclaimed, Claimed, Linked
  <2>2. posts' = <<>> /\ \A s \in Requests : Creating(request'[s]) => s = r
    BY <1>2, <2>1 DEF OwnerPath, Unclaimed
  <2>3. Claimed'
    BY <1>9, <2>2 DEF Claimed
  <2> QED  BY <1>7, <2>3
<1>10. CASE /\ q.phase = "confirmed" /\ posts' = posts
            /\ binding' = [ status |-> "ACTIVE", post |-> q.post, revision |-> q.revision ]
            /\ ~ Creating(request'[r])
  <2>1. /\ q.key \in Keys /\ q.kind \in { "CREATE", "UPDATE" } /\ q.post # 0
        /\ Ours(q.key) /\ operations[q.key].revision = q.revision
    BY <1>2, <1>10 DEF PhaseSound, PostSound, PostsOf, RowSound, Announced, Ours
  <2>2. q.kind = "UPDATE" => binding.post # 0 /\ q.revision = binding.revision
    BY <1>2, <1>5, <1>10, <2>1 DEF PostSound
  <2>3. ASSUME NEW s \in Requests, Creating(request'[s])
        PROVE  request'[s].phase = "bound" /\ request'[s].revision # q.revision
    <3>1. s # r /\ Creating(request[s]) /\ request'[s] = request[s]
      BY <1>2, <1>10, <2>3
    <3>2. CASE q.kind = "CREATE"
      <4>1. Creating(q) /\ q.phase # "bound"
        BY <1>10, <3>2 DEF Creating
      <4> QED  BY <1>2, <1>3, <3>1, <4>1 DEF Unclaimed, Claimed, Linked
    <3>3. CASE q.kind = "UPDATE"
      <4>1. Linked
        BY <1>3, <2>2, <3>3 DEF Unclaimed, Claimed, UnlinkedUntilCompleted
      <4> QED  BY <2>2, <3>1, <3>3, <4>1 DEF Linked
    <3> QED  BY <2>1, <3>2, <3>3
  <2>4. Linked'
    BY <1>10, <2>1, <2>3 DEF Linked
  <2> QED  BY <1>7, <2>4
<1> QED  BY <1>2, <1>6, <1>8, <1>9, <1>10 DEF OwnerPath

-----------------------------------------------------------------------------
(* The invariant *)

\* A request never leaves the item's life cycle behind: none starts before the item is
\* ready, and none moves that has not started.
LEMMA LateByRequest ==
  ASSUME HandoffIsLate, NEW r \in Requests, RequestStep(r)
  PROVE  HandoffIsLate'
<1>1. version' = version /\ status' = status /\ ahead' = ahead
  BY DEF RequestStep, synchronize, state, Continue, HandlerThrows, Crash, FindBindingForCreate,
         FindBindingForUpdate, reserveBinding, reserveOperation, ProviderCreatesDraft,
         ProviderUpdatesPost, ProviderRefuses, LoseAnswer, CompleteSync, RecordFailure,
         getPost, ApplyState, MarkItemFailed, lifecycleVars
<1>2. ASSUME request[r] = NoRequest, binding.post = 0, status \notin PastReview
      PROVE  FALSE
  <2>1. request[r].phase = "idle"
    BY <1>2 DEF NoRequest
  <2>2. ~ state(r) /\ \A kind, key : ~ synchronize(r, kind, key)
    BY <1>2 DEF state, synchronize, Ready, PastReview
  <2>3. ~ Continue(r) /\ ~ HandlerThrows(r) /\ ~ Crash(r)
    BY <1>2, <2>1 DEF Continue, HandlerThrows, Crash, FindBindingForCreate,
         FindBindingForUpdate, reserveBinding, reserveOperation, ProviderCreatesDraft,
         ProviderUpdatesPost, ProviderRefuses, LoseAnswer, CompleteSync, RecordFailure,
         getPost, ApplyState, MarkItemFailed
  <2> QED  BY <2>2, <2>3 DEF RequestStep
<1> QED  BY <1>1, <1>2 DEF HandoffIsLate

\* The life cycle has no way back from the statuses past review, but for a client ahead.
LEMMA PastReviewIsClosed ==
  ASSUME TypeOK, HandoffIsLate, LifecycleNext, status \in PastReview
  PROVE  status' \in PastReview \/ ahead' # {}
<1>1. CASE Create
  BY <1>1 DEF Create, HandoffIsLate, PastReview
<1>2. CASE Edit
  BY <1>2 DEF Edit
<1>3. CASE Move
  BY <1>3 DEF Move, PastReview, ContentEditorialStatus, canTransitionEditorialStatus,
              ALLOWED_EDITORIAL_TRANSITIONS
<1>4. CASE Decide \/ Redraft
  BY <1>4 DEF Decide, Redraft, PastReview, generatableStatuses
<1>5. CASE EditAhead \/ MoveAhead
  BY <1>5 DEF EditAhead, MoveAhead, RunAhead
<1> QED  BY <1>1, <1>2, <1>3, <1>4, <1>5 DEF LifecycleNext

LEMMA LateByEditor ==
  ASSUME TypeOK, HandoffIsLate, EditorialStep
  PROVE  HandoffIsLate'
<1>1. version' # 0 /\ ahead \subseteq ahead'
  BY DEF EditorialStep, TypeOK, LifecycleTypeOK, LifecycleNext, Create, Edit, Move, Decide,
         Redraft, EditAhead, MoveAhead, RunAhead
<1>2. publicationStatus' = publicationStatus /\ binding' = binding /\ request' = request
  BY DEF EditorialStep, publicationVars
<1>3. status \in PastReview => status' \in PastReview \/ ahead' # {}
  BY PastReviewIsClosed DEF EditorialStep
<1> QED  BY <1>1, <1>2, <1>3 DEF HandoffIsLate

LEMMA RequestKeepsInvariant ==
  ASSUME IInv, NEW r \in Requests, RequestStep(r)
  PROVE  IInv'
<1>1. TypeOK /\ SoundRequest(request[r]) /\ \A s \in Requests : SoundRequest(request[s])
  BY DEF IInv, RequestSound, SoundRequest
<1>2. TypeOK'
  BY RequestStepTyped DEF IInv
<1>3. Advance(r)
  BY <1>1, RequestAdvances DEF IInv
<1>4. Kept(request[r])
  BY <1>3 DEF Advance
<1>5. OwnerPath(r) /\ causes \subseteq causes'
  BY <1>1, RequestsTakePath
<1>6. RequestSound'
  <2>1. ASSUME NEW s \in Requests, s # r
        PROVE  SoundRequest(request[s])'
    <3>. PICK q : q = request[r]
      OBVIOUS
    <3>. PICK o : o = request[s]
      OBVIOUS
    <3>1. Announced(q) /\ Announced(o) => q.key # o.key
      BY <2>1 DEF IInv, KeysApart
    <3>2. SoundRequest(q) /\ SoundRequest(o) /\ Kept(q) /\ TypeOK /\ BindingHonest
      BY <1>1, <1>4 DEF IInv
    <3>3. SoundRequest(o)'
      BY <3>1, <3>2, OthersSound
    <3>4. request'[s] = o
      BY <1>3, <2>1 DEF Advance, Alone
    <3> QED  BY <3>3, <3>4 DEF SoundRequest
  <2>2. \A s \in Requests : SoundRequest(request[s])'
    BY <1>3, <2>1 DEF Advance
  <2> QED  BY <2>2 DEF RequestSound, SoundRequest
<1>7. KeysApart'
  <2>1. ASSUME NEW s \in Requests, s # r, Announced(request'[r]), Announced(request'[s])
        PROVE  request'[r].key # request'[s].key
    <3>1. request'[s] = request[s] /\ Announced(request[s])
      BY <1>3, <2>1 DEF Advance, Alone
    <3>2. operations[request[s].key].status # "NONE"
      <4>. PICK o : o = request[s]
        OBVIOUS
      <4>1. operations[o.key] = [ status |-> "PENDING", kind |-> o.kind, revision |-> o.revision ]
        BY <1>1, <3>1 DEF SoundRequest, RowSound
      <4> QED  BY <4>1
    <3> QED  BY <1>3, <2>1, <3>1, <3>2 DEF Advance, IInv, KeysApart
  <2>2. ASSUME NEW s \in Requests, s # r, NEW t \in Requests, t # r, s # t,
               Announced(request'[s]), Announced(request'[t])
        PROVE  request'[s].key # request'[t].key
    BY <1>3, <2>2 DEF Advance, Alone, IInv, KeysApart
  <2> QED  BY <2>1, <2>2 DEF KeysApart
<1>8. OneOwner'
  <2>1. ASSUME Quiet'
        PROVE  /\ Len(posts') <= 1 /\ \A s \in Requests : ~ request'[s].error
               /\ Unclaimed' \/ Claimed' \/ Linked'
    BY <1>1, <1>2, <1>3, <1>5, <2>1, OneOwnerKept DEF IInv
  <2> QED  BY <2>1 DEF OneOwner, Unclaimed, Claimed, Linked
<1> QED  BY <1>1, <1>2, <1>4, <1>6, <1>7, <1>8, LateByRequest, BlankKept, UnlinkedKept,
            OnePostKept, CoverKept, HonestKept DEF IInv

\* The environment changes the posts' state and the item, and spends free keys.
LEMMA EnvironmentLeaves ==
  ASSUME TypeOK, EnvironmentStep
  PROVE  /\ OperationsKept(NoRequest) /\ binding' = binding /\ request' = request
         /\ causes' = causes /\ publicationStatus' = publicationStatus
         /\ DOMAIN posts' = DOMAIN posts /\ Len(posts') = Len(posts)
         /\ posts = <<>> => posts' = <<>>
         /\ \A p \in DOMAIN posts : posts'[p].key = posts[p].key /\ posts'[p].revision = posts[p].revision
<1>1. CASE EditorialStep
  BY <1>1 DEF EditorialStep, publicationVars, OperationsKept
<1>2. CASE ChangeOnBlogger
  <2>1. PICK i \in DOMAIN posts, s \in { "PUBLISHED", "DELETED" } :
          posts' = [ posts EXCEPT ![i].state = s ]
    BY <1>2 DEF ChangeOnBlogger
  <2>. PICK new : new = [ posts[i] EXCEPT !.state = s ]
    OBVIOUS
  <2>2. posts \in Seq(Post) /\ posts[i] \in Post
    BY Typed
  <2>3. new \in Post /\ new.key = posts[i].key /\ new.revision = posts[i].revision
    BY <2>2 DEF Post
  <2>4. posts' = [ posts EXCEPT ![i] = new ]
    BY <2>1
  <2>5. DOMAIN posts' = DOMAIN posts /\ Len(posts') = Len(posts)
    BY <2>2, <2>3, <2>4, Replaced
  <2>6. \A p \in DOMAIN posts : posts'[p] = IF p = i THEN new ELSE posts[p]
    BY <2>2, <2>4
  <2>7. posts # <<>>
    BY <2>1
  <2> QED  BY <1>2, <2>3, <2>5, <2>6, <2>7 DEF ChangeOnBlogger, OperationsKept
<1>3. ASSUME NEW k \in Keys, UseKeyElsewhere(k)
      PROVE  /\ OperationsKept(NoRequest) /\ binding' = binding /\ request' = request
             /\ causes' = causes /\ publicationStatus' = publicationStatus /\ posts' = posts
  <2>1. operations[k] \in Operation /\ operations \in [ Keys -> Operation ]
    BY Typed
  <2>2. OperationsKept(NoRequest)
    BY <1>3, <2>1 DEF UseKeyElsewhere, OperationsKept, Operation
  <2> QED  BY <1>3, <2>2 DEF UseKeyElsewhere
<1> QED  BY <1>1, <1>2, <1>3 DEF EnvironmentStep

LEMMA EnvironmentKeepsInvariant ==
  ASSUME IInv, EnvironmentStep
  PROVE  IInv'
<1>1. TypeOK /\ TypeOK' /\ \A s \in Requests : SoundRequest(request[s])
  BY EnvironmentTyped DEF IInv, RequestSound, SoundRequest
<1>2. /\ OperationsKept(NoRequest) /\ binding' = binding /\ request' = request
      /\ causes' = causes /\ publicationStatus' = publicationStatus
      /\ DOMAIN posts' = DOMAIN posts /\ Len(posts') = Len(posts)
      /\ posts = <<>> => posts' = <<>>
      /\ \A p \in DOMAIN posts : posts'[p].key = posts[p].key /\ posts'[p].revision = posts[p].revision
  BY <1>1, EnvironmentLeaves
<1>3. Kept(NoRequest) /\ SoundRequest(NoRequest) /\ ~ Announced(NoRequest)
  BY <1>2, NoRequestSound DEF Kept, PostsKept, BindingKept
<1>4. HandoffIsLate'
  <2>1. CASE ChangeOnBlogger \/ \E k \in Keys : UseKeyElsewhere(k)
    BY <1>2, <2>1 DEF ChangeOnBlogger, UseKeyElsewhere, lifecycleVars, HandoffIsLate, IInv
  <2> QED  BY <1>1, <2>1, LateByEditor DEF IInv, EnvironmentStep
<1>5. RequestSound'
  <2>1. ASSUME NEW s \in Requests
        PROVE  SoundRequest(request[s])'
    <3>. PICK q : q = NoRequest
      OBVIOUS
    <3>. PICK o : o = request[s]
      OBVIOUS
    <3>1. SoundRequest(q) /\ SoundRequest(o) /\ Kept(q) /\ TypeOK /\ BindingHonest /\ ~ Announced(q)
      BY <1>1, <1>3 DEF IInv
    <3>2. SoundRequest(o)'
      BY <3>1, OthersSound
    <3> QED  BY <1>2, <3>2 DEF SoundRequest
  <2> QED  BY <2>1 DEF RequestSound, SoundRequest
<1>6. KeysApart'
  BY <1>2 DEF IInv, KeysApart
<1>7. OneOwner'
  <2>1. Quiet' => Quiet
    BY <1>2, <1>3, QuietBefore
  <2> QED  BY <1>2, <2>1 DEF IInv, OneOwner
<1> QED  BY <1>1, <1>3, <1>4, <1>5, <1>6, <1>7, BlankKept, UnlinkedKept, OnePostKept, CoverKept,
            HonestKept DEF IInv

LEMMA InitInvariant == Init => IInv
<1> SUFFICES ASSUME Init PROVE IInv
  OBVIOUS
<1>1. HandoffIsLate /\ UnusedIsBlank /\ UnlinkedUntilCompleted
  BY DEF Init, LifecycleInit, HandoffIsLate, UnusedIsBlank, UnlinkedUntilCompleted, Ours
<1>2. KeyCreatesOnce /\ JournalCoversBlogger /\ BindingHonest
  BY DEF Init, KeyCreatesOnce, JournalCoversBlogger, BindingHonest
<1>3. \A r \in Requests : request[r] = NoRequest
  BY DEF Init
<1>4. RequestSound
  BY <1>3, NoRequestSound DEF RequestSound, SoundRequest
<1>5. KeysApart
  BY <1>3, NoRequestSound DEF KeysApart
<1>6. ~ NoRequest.error
  BY DEF NoRequest
<1>7. OneOwner
  BY <1>3, <1>6, NoRequestSound DEF Init, OneOwner
<1> QED  BY <1>1, <1>2, <1>4, <1>5, <1>7, InitTyped DEF IInv

LEMMA StutterKeepsInvariant ==
  ASSUME IInv, UNCHANGED vars
  PROVE  IInv'
<1> USE DEF vars
<1>1. TypeOK' /\ HandoffIsLate' /\ UnusedIsBlank' /\ UnlinkedUntilCompleted'
  BY DEF IInv, TypeOK, LifecycleTypeOK, HandoffIsLate, UnusedIsBlank, UnlinkedUntilCompleted, Ours
<1>2. KeyCreatesOnce' /\ JournalCoversBlogger' /\ BindingHonest'
  BY DEF IInv, KeyCreatesOnce, JournalCoversBlogger, BindingHonest, Ours
<1>3. RequestSound' /\ KeysApart' /\ OneOwner'
  BY DEF IInv, RequestSound, PhaseSound, RowSound, PostSound, PostsOf, KeysApart, OneOwner, Quiet,
         Ours
<1> QED  BY <1>1, <1>2, <1>3 DEF IInv

LEMMA NextInvariant == IInv /\ [Next]_vars => IInv'
<1> SUFFICES ASSUME IInv, [Next]_vars PROVE IInv'
  OBVIOUS
<1>1. CASE Next
  BY <1>1, NextSteps, RequestKeepsInvariant, EnvironmentKeepsInvariant
<1> QED  BY <1>1, StutterKeepsInvariant

-----------------------------------------------------------------------------
(* The theorems *)

\* The inductive invariant holds of every behaviour of the handoff.
THEOREM Invariance == Spec => []IInv
BY InitInvariant, NextInvariant, PTL DEF Spec

\* The runs add fairness to the same behaviours.
THEOREM FairInvariance == FairSpec => []IInv
BY Invariance, PTL DEF FairSpec

\* Every variable keeps its type, however many requests race.
THEOREM TypeCorrect == Spec => []TypeOK
<1>1. IInv => TypeOK
  BY DEF IInv
<1> QED  BY <1>1, Invariance, PTL

\* An idempotency key reaches Blogger's create at most once (reserveOperation before the
\* provider's call), whatever fails, crashes or is sent again.
THEOREM OnePostPerKey == Spec => []KeyCreatesOnce
<1>1. IInv => KeyCreatesOnce
  BY DEF IInv
<1> QED  BY <1>1, Invariance, PTL

\* No post and no revision appears on Blogger that the journal does not announce.
THEOREM EveryPostJournalled == Spec => []JournalCoversBlogger
<1>1. IInv => JournalCoversBlogger
  BY DEF IInv
<1> QED  BY <1>1, Invariance, PTL

\* What the binding links and shows as synchronized was really sent by an operation that
\* completed.
THEOREM LinkIsHonest == Spec => []BindingHonest
<1>1. IInv => BindingHonest
  BY DEF IInv
<1> QED  BY <1>1, Invariance, PTL

\* A machine draft never meets an item that was handed off: the item is past review, and
\* nothing leads back but a client that runs ahead of the version.
THEOREM HandedOffIsNotGeneratable == Spec => []GeneratableIsNotPublished
<1>1. IInv => GeneratableIsNotPublished
  BY DEF IInv, HandoffIsLate, GeneratableIsNotPublished, PastReview, generatableStatuses
<1> QED  BY <1>1, Invariance, PTL

\* A second post on Blogger has one of the causes listed: requests that only race or die
\* make one.
THEOREM SecondDraftExplained == Spec => []SecondDraftHasCause
<1>1. IInv => SecondDraftHasCause
  <2> SUFFICES ASSUME IInv, Len(posts) > 1, "doubted" \notin causes
               PROVE  \E j, k \in Keys :
                        /\ Ours(j) /\ Ours(k)
                        /\ \/ operations[j].revision # operations[k].revision
                           \/ operations[j].status = "FAILED"
    BY DEF SecondDraftHasCause
  <2>1. Len(posts) \in Nat
    BY Typed DEF IInv
  <2>2. ~ Quiet
    BY <2>1 DEF IInv, OneOwner
  <2> QED  BY <2>2 DEF Quiet, Ours
<1> QED  BY <1>1, Invariance, PTL
=============================================================================
